------------------------- MODULE VideoWindowProofs -------------------------
(***************************************************************************)
(* The picture window's promises, for any desktop the user can move it     *)
(* about on.                                                               *)
(*                                                                         *)
(* None of them is inductive alone.  That a closed picture can be shown    *)
(* again needs that it is still adopted, into a window that is there; and  *)
(* what is cut out of a picture on screen has to be right already while    *)
(* the picture is closed, as long as it is not in the task bar.            *)
(***************************************************************************)
EXTENDS VideoWindow, TLAPS

WinType ==
  [created : BOOLEAN, shown : BOOLEAN, iconic : BOOLEAN, hidden : BOOLEAN,
   fullscreen : BOOLEAN, style : {"overlapped", "popup"},
   rect : Windowed \cup {Monitor}, prevRect : Windowed \cup {Monitor},
   prevShow : {"normal", "minimised"}]

CfgType ==
  [rect : Windowed \cup {Nowhere}, full : BOOLEAN, openFull : BOOLEAN,
   frame : BOOLEAN, embed : BOOLEAN]

GuestType ==
  [window : {"none", "desktop", "child", "dark"},
   adopted : {"none", "live", "dead"}, region : BOOLEAN, geom : BOOLEAN]

Typed ==
  /\ win \in WinType /\ cfg \in CfgType /\ guest \in GuestType /\ phone \in BOOLEAN
  /\ guest.adopted = "live" <=> guest.window = "child"

\* Only an adopted picture is closed, and a guest is only adopted into a window that is there.
HeldInv ==
  /\ win.hidden => guest.adopted # "none"
  /\ guest.adopted # "none" => win.created

\* FrameIsCut, for a closed picture, too.
CutInv ==
  guest.adopted = "live" /\ ~win.iconic =>
    /\ guest.region = (cfg.frame /\ phone)
    /\ guest.geom = (cfg.frame /\ phone)

IInv == Typed /\ PictureIsUp /\ FullscreenIsWhole /\ HeldInv /\ CutInv

-----------------------------------------------------------------------------
\* Neither the whole monitor nor no place is a place a window can be put.
LEMMA PlacesApart ==
  /\ Monitor \notin Windowed /\ Nowhere \notin Windowed /\ Monitor # Nowhere
  /\ Centre \in Windowed /\ Places \subseteq Windowed
BY PlacesAssumption DEF Windowed

\* What layoutGuest() leaves: the guest as it was, but for the cut and the frame.
LEMMA LaidKeeps ==
  ASSUME NEW g \in GuestType, NEW w \in WinType, NEW c \in CfgType, NEW p \in BOOLEAN
  PROVE  /\ Laid(g, w, c, p) \in GuestType
         /\ Laid(g, w, c, p).window = g.window
         /\ Laid(g, w, c, p).adopted = g.adopted
         /\ g.adopted = "live" /\ w.created /\ ~w.iconic
              => /\ Laid(g, w, c, p).region = (c.frame /\ p)
                 /\ Laid(g, w, c, p).geom = (c.frame /\ p)
BY DEF Laid, FrameActive, GuestType, WinType, CfgType

\* setFullscreen(true) and what it leaves alone.
LEMMA EnteredIs ==
  ASSUME NEW w \in WinType
  PROVE  /\ Entered(w) \in WinType
         /\ Entered(w).fullscreen /\ Entered(w).style = "popup"
         /\ Entered(w).rect = IF w.iconic THEN w.rect ELSE Monitor
         /\ Entered(w).prevRect = w.rect
         /\ Entered(w).prevShow = IF w.iconic THEN "minimised" ELSE "normal"
         /\ Entered(w).created = w.created /\ Entered(w).shown = w.shown
         /\ Entered(w).iconic = w.iconic /\ Entered(w).hidden = w.hidden
BY DEF Entered, Placed, WinType

\* setFullscreen(false) and what it leaves alone.
LEMMA LeftIs ==
  ASSUME NEW w \in WinType
  PROVE  /\ Left(w) \in WinType
         /\ ~Left(w).fullscreen /\ Left(w).style = "overlapped" /\ Left(w).rect = w.prevRect
         /\ Left(w).prevRect = w.prevRect /\ Left(w).prevShow = w.prevShow
         /\ Left(w).created = w.created /\ Left(w).shown = w.shown
         /\ Left(w).hidden = w.hidden
         /\ ~w.shown => Left(w).iconic = w.iconic
BY DEF Left, WinType

\* saveRect() never remembers the whole monitor.
LEMMA SavedIs ==
  ASSUME NEW c \in CfgType, NEW w \in WinType, w.fullscreen \/ w.rect # Monitor
  PROVE  /\ Saved(c, w) \in CfgType
         /\ c.rect # Monitor => Saved(c, w).rect # Monitor
         /\ Saved(c, w).full = c.full /\ Saved(c, w).openFull = c.openFull
         /\ Saved(c, w).frame = c.frame /\ Saved(c, w).embed = c.embed
BY DEF Saved, CfgType, WinType

\* The initial states are in the invariant.
LEMMA InitInv == Init => IInv
<1> SUFFICES ASSUME Init PROVE IInv
  OBVIOUS
<1>1. win \in WinType /\ guest \in GuestType /\ phone \in BOOLEAN
  BY PlacesApart DEF Init, WinType, GuestType
<1>2. cfg \in CfgType /\ cfg.rect # Monitor
  BY PlacesApart, PlacesAssumption DEF Init, CfgType
<1>3. ~win.hidden /\ ~win.shown /\ ~win.fullscreen /\ win.style = "overlapped"
      /\ win.rect = Centre /\ guest.adopted = "none" /\ guest.window = "none"
  BY DEF Init
<1> QED
  BY <1>1, <1>2, <1>3, PlacesApart DEF IInv, Typed, PictureIsUp, FullscreenIsWhole, HeldInv, CutInv

-----------------------------------------------------------------------------
\* release(): with it the picture and everything cut out of it are gone.
LEMMA ReleaseInv ==
  ASSUME IInv, NEW toDesktop \in BOOLEAN, Released(toDesktop),
         cfg' \in CfgType, cfg'.rect # Monitor, cfg'.full = cfg.full,
         cfg'.frame = cfg.frame, UNCHANGED phone
  PROVE  IInv'
<1>1. CASE guest.adopted = "none"
  <2>1. win' = [win EXCEPT !.hidden = FALSE] /\ guest' = guest
    BY <1>1 DEF Released
  <2>2. win' \in WinType /\ win'.hidden = FALSE /\ win'.shown = win.shown
        /\ win'.fullscreen = win.fullscreen /\ win'.style = win.style /\ win'.rect = win.rect
        /\ win'.prevRect = win.prevRect /\ win'.prevShow = win.prevShow
        /\ win'.created = win.created
    BY <2>1 DEF IInv, Typed, WinType
  <2> QED
    BY <1>1, <2>1, <2>2 DEF IInv, Typed, PictureIsUp, FullscreenIsWhole, HeldInv, CutInv
<1>2. CASE guest.adopted # "none"
  <2>1. win' = ReleasedWindow(win) /\ guest'.adopted = "none" /\ guest' \in GuestType
        /\ guest'.window # "child"
    <3>1. win' = ReleasedWindow(win)
      BY <1>2 DEF Released
    <3>2. PICK v \in {"none", "desktop", "child", "dark"} :
            /\ guest' = [window |-> v, adopted |-> "none", region |-> FALSE, geom |-> FALSE]
            /\ v # "child"
      <4>1. guest.adopted \in {"live", "dead"} /\ guest.window \in {"none", "desktop", "child", "dark"}
            /\ (guest.adopted = "live" <=> guest.window = "child")
        BY <1>2 DEF IInv, Typed, GuestType
      <4>2. CASE guest.adopted = "dead"
        BY <1>2, <4>1, <4>2 DEF Released
      <4>3. CASE guest.adopted = "live"
        BY <1>2, <4>1, <4>3 DEF Released
      <4> QED
        BY <4>1, <4>2, <4>3
    <3> QED
      BY <3>1, <3>2 DEF GuestType
  <2>2. win' \in WinType /\ win'.hidden = FALSE /\ win'.shown = FALSE
        /\ win'.fullscreen = win.fullscreen /\ win'.style = win.style /\ win'.rect = win.rect
        /\ win'.prevRect = win.prevRect /\ win'.prevShow = win.prevShow
        /\ win'.created = win.created
    BY <2>1 DEF IInv, Typed, WinType, ReleasedWindow
  <2> QED
    BY <1>2, <2>1, <2>2 DEF IInv, Typed, PictureIsUp, FullscreenIsWhole, HeldInv, CutInv
<1> QED
  BY <1>1, <1>2

\* What release() remembers of the place.
LEMMA SavedByReleaseIs ==
  ASSUME IInv
  PROVE  /\ SavedByRelease(cfg) \in CfgType /\ SavedByRelease(cfg).rect # Monitor
         /\ SavedByRelease(cfg).full = cfg.full /\ SavedByRelease(cfg).frame = cfg.frame
BY SavedIs DEF SavedByRelease, IInv, Typed, FullscreenIsWhole

\* Handing the guest over: pollVideoWindow(), releaseVideo() and the cleared embed box.
LEMMA ReleasesInv ==
  ASSUME IInv, GuestGone \/ ReleaseVideo
  PROVE  IInv'
BY ReleaseInv, SavedByReleaseIs DEF GuestGone, ReleaseVideo

\* Showing a closed picture keeps the invariant, whatever else of the config is set beside it.
LEMMA ShowInv ==
  ASSUME IInv, ShowPicture, cfg' \in CfgType, UNCHANGED phone,
         cfg'.rect = cfg.rect, cfg'.full = cfg.full, cfg'.frame = cfg.frame
  PROVE  IInv'
<1>1. win' \in WinType /\ win'.hidden = FALSE /\ win'.shown = TRUE /\ win.hidden
      /\ win'.fullscreen = win.fullscreen /\ win'.style = win.style /\ win'.rect = win.rect
      /\ win'.prevRect = win.prevRect /\ win'.prevShow = win.prevShow
      /\ win'.created = win.created /\ win'.iconic = win.iconic
  BY DEF ShowPicture, IInv, Typed, WinType
<1>2. guest' \in GuestType /\ guest'.window = guest.window /\ guest'.adopted = guest.adopted
      /\ (guest.adopted = "live" /\ win'.created /\ ~win'.iconic
            => guest'.region = (cfg.frame /\ phone) /\ guest'.geom = (cfg.frame /\ phone))
  <2>1. guest' = Laid(guest, win', cfg, phone)
    BY DEF ShowPicture
  <2> QED
    BY <1>1, <2>1, LaidKeeps DEF IInv, Typed
<1> QED
  BY <1>1, <1>2 DEF IInv, Typed, PictureIsUp, FullscreenIsWhole, HeldInv, CutInv

\* A step that leaves the window as it is and lays the guest out for a new device or frame.
LEMMA LayInv ==
  ASSUME IInv, UNCHANGED win, cfg' \in CfgType, phone' \in BOOLEAN,
         cfg'.rect = cfg.rect, cfg'.full = cfg.full,
         NEW g \in GuestType, g.window = guest.window, g.adopted = guest.adopted,
         guest' = Laid(g, win, cfg', phone')
  PROVE  IInv'
<1>1. guest' \in GuestType /\ guest'.window = guest.window /\ guest'.adopted = guest.adopted
      /\ (guest.adopted = "live" /\ win.created /\ ~win.iconic
            => guest'.region = (cfg'.frame /\ phone') /\ guest'.geom = (cfg'.frame /\ phone'))
  BY LaidKeeps DEF IInv, Typed
<1> QED
  BY <1>1 DEF IInv, Typed, PictureIsUp, FullscreenIsWhole, HeldInv, CutInv

\* The frame box and the device: nothing of what was cut for another remains.
LEMMA FrameInv ==
  ASSUME IInv, FrameBox \/ SetDevice
  PROVE  IInv'
<1>1. CASE SetDevice
  <2>1. guest' = Laid(guest, win, cfg', phone') /\ UNCHANGED <<win, cfg>> /\ phone' \in BOOLEAN
    BY <1>1 DEF SetDevice
  <2> QED
    BY <2>1, LayInv DEF IInv, Typed
<1>2. CASE FrameBox
  <2>1. PICK g : /\ g = [guest EXCEPT !.region = guest.region /\ (~win.created \/ ~cfg.frame)]
                 /\ guest' = Laid(g, win, cfg', phone)
    BY <1>2 DEF FrameBox
  <2>2. g \in GuestType /\ g.window = guest.window /\ g.adopted = guest.adopted
    BY <2>1 DEF IInv, Typed, GuestType, WinType, CfgType
  <2>3. cfg' \in CfgType /\ cfg'.rect = cfg.rect /\ cfg'.full = cfg.full
        /\ UNCHANGED <<win, phone>>
    BY <1>2 DEF FrameBox, IInv, Typed, CfgType
  <2> QED
    BY <2>1, <2>2, <2>3, LayInv DEF IInv, Typed
<1> QED
  BY <1>1, <1>2

\* Every step of the window that keeps the picture up or down: fullscreen, moved, minimised.
LEMMA WindowInv ==
  ASSUME IInv, ToggleFullscreen \/ FullscreenFails \/ Move \/ Minimise \/ Restore
  PROVE  IInv'
<1>1. CASE ToggleFullscreen
  <2>1. win' = (IF win.fullscreen THEN Left(win) ELSE Entered(win))
        /\ cfg' = [cfg EXCEPT !.full = ~win.fullscreen] /\ guest' = Laid(guest, win', cfg', phone)
        /\ phone' = phone /\ ~win.iconic
    BY <1>1 DEF ToggleFullscreen, OnScreen
  <2>2. cfg' \in CfgType /\ cfg'.rect = cfg.rect /\ cfg'.full = ~win.fullscreen
        /\ cfg'.frame = cfg.frame
    BY <2>1 DEF IInv, Typed, CfgType, WinType
  <2>3. win' \in WinType /\ win'.created = win.created /\ win'.shown = win.shown
        /\ win'.hidden = win.hidden
    BY <2>1, EnteredIs, LeftIs DEF IInv, Typed
  <2>4. /\ win'.fullscreen <=> ~win.fullscreen
        /\ win'.fullscreen <=> win'.style = "popup"
        /\ win'.rect = Monitor <=> win'.fullscreen /\ win'.prevShow = "normal"
        /\ win'.fullscreen => win'.prevRect # Monitor /\ win'.prevShow = "normal"
    BY <2>1, <2>3, EnteredIs, LeftIs DEF IInv, Typed, FullscreenIsWhole
  <2>5. guest' \in GuestType /\ guest'.window = guest.window /\ guest'.adopted = guest.adopted
        /\ (guest.adopted = "live" /\ win.created /\ ~win'.iconic
              => guest'.region = (cfg.frame /\ phone) /\ guest'.geom = (cfg.frame /\ phone))
    <3>1. guest \in GuestType /\ phone \in BOOLEAN
      BY DEF IInv, Typed
    <3> DEFINE l == Laid(guest, win', cfg', phone)
    <3>2. /\ l \in GuestType /\ l.window = guest.window /\ l.adopted = guest.adopted
          /\ guest.adopted = "live" /\ win'.created /\ ~win'.iconic
               => l.region = (cfg'.frame /\ phone) /\ l.geom = (cfg'.frame /\ phone)
      BY <2>2, <2>3, <3>1, LaidKeeps
    <3>3. guest' = l
      BY <2>1
    <3> HIDE DEF l
    <3> QED
      BY <2>2, <2>3, <3>2, <3>3
  <2> QED
    BY <2>1, <2>2, <2>3, <2>4, <2>5
    DEF IInv, Typed, PictureIsUp, FullscreenIsWhole, HeldInv, CutInv
<1>2. CASE FullscreenFails
  <2>1. win' = Placed(win) /\ ~win.fullscreen /\ UNCHANGED <<cfg, guest, phone>>
    BY <1>2 DEF FullscreenFails
  <2>2. win' \in WinType /\ win'.created = win.created /\ win'.shown = win.shown
        /\ win'.iconic = win.iconic /\ win'.hidden = win.hidden
        /\ win'.fullscreen = win.fullscreen /\ win'.style = win.style /\ win'.rect = win.rect
    BY <2>1 DEF Placed, IInv, Typed, WinType
  <2> QED
    BY <2>1, <2>2 DEF IInv, Typed, PictureIsUp, FullscreenIsWhole, HeldInv, CutInv
<1>3. CASE Move
  <2>1. PICK place \in Places : win' = [win EXCEPT !.rect = place]
    BY <1>3 DEF Move
  <2>2. ~win.fullscreen /\ UNCHANGED <<cfg, guest, phone>>
    BY <1>3 DEF Move
  <2>3. win' \in WinType /\ win'.created = win.created /\ win'.shown = win.shown
        /\ win'.iconic = win.iconic /\ win'.hidden = win.hidden /\ win'.prevShow = win.prevShow
        /\ win'.fullscreen = win.fullscreen /\ win'.style = win.style /\ win'.rect # Monitor
    BY <2>1, PlacesApart DEF IInv, Typed, WinType
  <2> QED
    BY <2>2, <2>3 DEF IInv, Typed, PictureIsUp, FullscreenIsWhole, HeldInv, CutInv
<1>4. CASE Minimise
  <2>1. win' = [win EXCEPT !.iconic = TRUE] /\ UNCHANGED <<cfg, guest, phone>>
    BY <1>4 DEF Minimise
  <2>2. win' \in WinType /\ win'.created = win.created /\ win'.shown = win.shown
        /\ win'.iconic /\ win'.hidden = win.hidden /\ win'.prevShow = win.prevShow
        /\ win'.fullscreen = win.fullscreen /\ win'.style = win.style /\ win'.rect = win.rect
        /\ win'.prevRect = win.prevRect
    BY <2>1 DEF IInv, Typed, WinType
  <2> QED
    BY <2>1, <2>2 DEF IInv, Typed, PictureIsUp, FullscreenIsWhole, HeldInv, CutInv
<1>5. CASE Restore
  <2>1. win' = [win EXCEPT !.iconic = FALSE] /\ guest' = Laid(guest, win', cfg, phone)
        /\ UNCHANGED <<cfg, phone>>
    BY <1>5 DEF Restore
  <2>2. win' \in WinType /\ win'.created = win.created /\ win'.shown = win.shown
        /\ ~win'.iconic /\ win'.hidden = win.hidden /\ win'.prevShow = win.prevShow
        /\ win'.fullscreen = win.fullscreen /\ win'.style = win.style /\ win'.rect = win.rect
        /\ win'.prevRect = win.prevRect
    BY <2>1 DEF IInv, Typed, WinType
  <2>3. guest' \in GuestType /\ guest'.window = guest.window /\ guest'.adopted = guest.adopted
        /\ (guest.adopted = "live" /\ win.created
              => guest'.region = (cfg.frame /\ phone) /\ guest'.geom = (cfg.frame /\ phone))
    <3>1. guest \in GuestType /\ cfg \in CfgType /\ phone \in BOOLEAN
      BY DEF IInv, Typed
    <3> DEFINE l == Laid(guest, win', cfg, phone)
    <3>2. /\ l \in GuestType /\ l.window = guest.window /\ l.adopted = guest.adopted
          /\ guest.adopted = "live" /\ win'.created /\ ~win'.iconic
               => l.region = (cfg.frame /\ phone) /\ l.geom = (cfg.frame /\ phone)
      BY <2>2, <3>1, LaidKeeps
    <3>3. guest' = l
      BY <2>1
    <3> HIDE DEF l
    <3> QED
      BY <2>2, <3>2, <3>3
  <2> QED
    BY <2>1, <2>2, <2>3 DEF IInv, Typed, PictureIsUp, FullscreenIsWhole, HeldInv, CutInv
<1> QED
  BY <1>1, <1>2, <1>3, <1>4, <1>5

\* hide(): off screen before fullscreen is left, so that what leaves it stays off screen.
LEMMA CloseInv ==
  ASSUME IInv, ClosePicture
  PROVE  IInv'
<1> DEFINE dark == [win EXCEPT !.shown = FALSE]
           gone == IF win.fullscreen THEN Left(dark) ELSE dark
<1>1. dark \in WinType /\ dark.shown = FALSE /\ dark.created = win.created
      /\ dark.iconic = win.iconic /\ dark.fullscreen = win.fullscreen /\ dark.style = win.style
      /\ dark.rect = win.rect /\ dark.prevRect = win.prevRect
  BY DEF IInv, Typed, WinType
<1>2. win' = [gone EXCEPT !.hidden = TRUE] /\ win.shown /\ phone' = phone
      /\ cfg' = [Saved(cfg, win) EXCEPT !.full = cfg.full /\ ~win.fullscreen]
      /\ guest' = IF win.fullscreen THEN Laid(guest, win', cfg', phone) ELSE guest
  BY DEF ClosePicture
<1> HIDE DEF dark
<1>3. gone \in WinType /\ gone.shown = FALSE /\ gone.created = win.created
      /\ gone.iconic = win.iconic /\ ~gone.fullscreen /\ gone.style = "overlapped"
      /\ gone.rect # Monitor
  BY <1>1, LeftIs DEF IInv, Typed, FullscreenIsWhole, WinType
<1> HIDE DEF gone
<1>4. win' \in WinType /\ win'.shown = FALSE /\ win'.created = win.created /\ win'.hidden
      /\ win'.iconic = win.iconic /\ ~win'.fullscreen /\ win'.style = "overlapped"
      /\ win'.rect # Monitor
  BY <1>2, <1>3 DEF WinType
<1>5. cfg' \in CfgType /\ cfg'.rect # Monitor /\ cfg'.frame = cfg.frame
  <2> DEFINE saved == Saved(cfg, win)
  <2>1. saved \in CfgType /\ saved.rect # Monitor /\ saved.frame = cfg.frame
    BY SavedIs DEF IInv, Typed, FullscreenIsWhole
  <2>2. cfg' = [saved EXCEPT !.full = cfg.full /\ ~win.fullscreen]
        /\ cfg.full \in BOOLEAN /\ win.fullscreen \in BOOLEAN
    BY <1>2 DEF IInv, Typed, CfgType, WinType
  <2> HIDE DEF saved
  <2> QED
    BY <2>1, <2>2 DEF CfgType
<1>6. guest' \in GuestType /\ guest'.window = guest.window /\ guest'.adopted = guest.adopted
      /\ (guest.adopted = "live" /\ win.created /\ ~win.iconic
            => guest'.region = (cfg.frame /\ phone) /\ guest'.geom = (cfg.frame /\ phone))
  <2>1. guest \in GuestType /\ phone \in BOOLEAN
        /\ (guest.adopted = "live" /\ ~win.iconic
              => guest.region = (cfg.frame /\ phone) /\ guest.geom = (cfg.frame /\ phone))
    BY DEF IInv, Typed, CutInv
  <2> DEFINE l == Laid(guest, win', cfg', phone)
  <2>2. /\ l \in GuestType /\ l.window = guest.window /\ l.adopted = guest.adopted
        /\ guest.adopted = "live" /\ win'.created /\ ~win'.iconic
             => l.region = (cfg'.frame /\ phone) /\ l.geom = (cfg'.frame /\ phone)
    BY <1>4, <1>5, <2>1, LaidKeeps
  <2>3. guest' = IF win.fullscreen THEN l ELSE guest
    BY <1>2
  <2> HIDE DEF l
  <2> QED
    BY <1>4, <1>5, <2>1, <2>2, <2>3
<1> QED
  BY <1>2, <1>4, <1>5, <1>6 DEF IInv, Typed, PictureIsUp, FullscreenIsWhole, HeldInv, CutInv

\* adopt(): whatever the window was left in by the picture before.
LEMMA AdoptInv ==
  ASSUME IInv, Adopt
  PROVE  IInv'
<1> DEFINE full == cfg.full \/ cfg.openFull
           goes == full /\ ~win.fullscreen
           new  == [window |-> "child", adopted |-> "live", region |-> FALSE, geom |-> FALSE]
<1>1. PICK place \in Placement(win, cfg) :
        win' = [IF goes THEN Entered([win EXCEPT !.created = TRUE, !.hidden = FALSE, !.rect = place])
                ELSE [win EXCEPT !.created = TRUE, !.hidden = FALSE, !.rect = place]
                  EXCEPT !.shown = TRUE]
  BY DEF Adopt
<1>2. guest.adopted = "none" /\ cfg' = [cfg EXCEPT !.full = full] /\ phone' = phone
      /\ guest' = Laid(new, win', cfg', phone)
  BY DEF Adopt
<1> DEFINE placed == [win EXCEPT !.created = TRUE, !.hidden = FALSE, !.rect = place]
           ready  == IF goes THEN Entered(placed) ELSE placed
<1>3. /\ place \in Windowed \cup {Monitor}
      /\ place = Monitor <=> win.fullscreen /\ win.prevShow = "normal"
      /\ win.fullscreen => place = win.rect
  BY PlacesApart DEF Placement, IInv, Typed, FullscreenIsWhole, CfgType, WinType
<1>4. placed \in WinType /\ placed.created /\ placed.hidden = FALSE /\ placed.rect = place
      /\ placed.fullscreen = win.fullscreen /\ placed.style = win.style
      /\ placed.prevRect = win.prevRect /\ placed.prevShow = win.prevShow
      /\ placed.iconic = win.iconic
  BY <1>3 DEF IInv, Typed, WinType
<1>5. win' = [ready EXCEPT !.shown = TRUE]
  BY <1>1
<1> HIDE DEF placed
<1>6. ready \in WinType /\ ready.created /\ ready.hidden = FALSE
      /\ (ready.fullscreen <=> ready.style = "popup")
      /\ (ready.rect = Monitor <=> ready.fullscreen /\ ready.prevShow = "normal")
      /\ (ready.fullscreen => full /\ ready.prevRect # Monitor)
      /\ (ready.fullscreen /\ ready.prevShow = "minimised" => ready.rect = ready.prevRect)
  BY <1>3, <1>4, EnteredIs DEF IInv, Typed, FullscreenIsWhole
<1> HIDE DEF ready
<1>7. win' \in WinType /\ win'.created /\ win'.hidden = FALSE /\ win'.shown
      /\ (win'.fullscreen <=> win'.style = "popup")
      /\ (win'.rect = Monitor <=> win'.fullscreen /\ win'.prevShow = "normal")
      /\ (win'.fullscreen => full /\ win'.prevRect # Monitor)
      /\ (win'.fullscreen /\ win'.prevShow = "minimised" => win'.rect = win'.prevRect)
  BY <1>5, <1>6 DEF WinType
<1>8. cfg' \in CfgType /\ cfg'.rect = cfg.rect /\ cfg'.full = full /\ cfg'.frame = cfg.frame
  BY <1>2 DEF IInv, Typed, CfgType
<1>9. new \in GuestType /\ new.window = "child" /\ new.adopted = "live" /\ phone \in BOOLEAN
  BY DEF GuestType, IInv, Typed
<1> HIDE DEF new, full
<1>10. guest' \in GuestType /\ guest'.window = "child" /\ guest'.adopted = "live"
       /\ (~win'.iconic
             => guest'.region = (cfg'.frame /\ phone) /\ guest'.geom = (cfg'.frame /\ phone))
  <2> DEFINE l == Laid(new, win', cfg', phone)
  <2>1. /\ l \in GuestType /\ l.window = "child" /\ l.adopted = "live"
        /\ ~win'.iconic => l.region = (cfg'.frame /\ phone) /\ l.geom = (cfg'.frame /\ phone)
    BY <1>7, <1>8, <1>9, LaidKeeps
  <2>2. guest' = l
    BY <1>2
  <2> HIDE DEF l
  <2> QED
    BY <2>1, <2>2
<1> QED
  BY <1>2, <1>7, <1>8, <1>9, <1>10
  DEF IInv, Typed, PictureIsUp, FullscreenIsWhole, HeldInv, CutInv

\* The embed box and the fullscreen box of the settings.
LEMMA BoxInv ==
  ASSUME IInv, EmbedBox \/ FullscreenBox
  PROVE  IInv'
<1>1. CASE FullscreenBox
  <2>1. cfg' = [cfg EXCEPT !.openFull = ~cfg.openFull] /\ UNCHANGED <<win, guest, phone>>
    BY <1>1 DEF FullscreenBox
  <2>2. cfg' \in CfgType /\ cfg'.rect = cfg.rect /\ cfg'.full = cfg.full /\ cfg'.frame = cfg.frame
    BY <2>1 DEF IInv, Typed, CfgType
  <2> QED
    BY <2>1, <2>2 DEF IInv, Typed, PictureIsUp, FullscreenIsWhole, HeldInv, CutInv
<1>2. CASE EmbedBox /\ ~cfg.embed
  <2>1. cfg' = [cfg EXCEPT !.embed = TRUE] /\ phone' = phone
        /\ (ShowPicture \/ UNCHANGED <<win, guest>>)
    BY <1>2 DEF EmbedBox
  <2>2. cfg' \in CfgType /\ cfg'.rect = cfg.rect /\ cfg'.full = cfg.full /\ cfg'.frame = cfg.frame
    BY <2>1 DEF IInv, Typed, CfgType
  <2>3. CASE ShowPicture
    BY <2>1, <2>2, <2>3, ShowInv
  <2>4. CASE UNCHANGED <<win, guest>>
    BY <2>1, <2>2, <2>4 DEF IInv, Typed, PictureIsUp, FullscreenIsWhole, HeldInv, CutInv
  <2> QED
    BY <2>1, <2>3, <2>4
<1>3. CASE EmbedBox /\ cfg.embed
  <2>1. Released(TRUE) /\ cfg' = [SavedByRelease(cfg) EXCEPT !.embed = FALSE] /\ phone' = phone
    BY <1>3 DEF EmbedBox
  <2>2. cfg' \in CfgType /\ cfg'.rect # Monitor /\ cfg'.full = cfg.full /\ cfg'.frame = cfg.frame
    BY <2>1, SavedByReleaseIs DEF CfgType
  <2> QED
    BY <2>1, <2>2, ReleaseInv
<1> QED
  BY <1>1, <1>2, <1>3

\* The receiver's own steps, and an adoption that failed.
LEMMA GuestInv ==
  ASSUME IInv, GuestOpens \/ GuestCloses \/ AdoptFails
  PROVE  IInv'
<1>1. CASE GuestOpens
  <2>1. guest' = [guest EXCEPT !.window = "desktop"] /\ guest.window = "none"
        /\ UNCHANGED <<win, cfg, phone>>
    BY <1>1 DEF GuestOpens
  <2> QED
    BY <2>1 DEF IInv, Typed, GuestType, PictureIsUp, FullscreenIsWhole, HeldInv, CutInv
<1>2. CASE GuestCloses
  <2>1. guest' = [guest EXCEPT !.window = "none", !.region = FALSE,
                   !.adopted = IF guest.adopted = "live" THEN "dead" ELSE guest.adopted]
        /\ UNCHANGED <<win, cfg, phone>>
    BY <1>2 DEF GuestCloses
  <2>2. guest' \in GuestType /\ guest'.window = "none" /\ guest'.adopted # "live"
        /\ (guest'.adopted = "none" <=> guest.adopted = "none")
    BY <2>1 DEF IInv, Typed, GuestType
  <2> QED
    BY <2>1, <2>2 DEF IInv, Typed, PictureIsUp, FullscreenIsWhole, HeldInv, CutInv
<1>3. CASE AdoptFails
  <2>1. win' = [win EXCEPT !.created = TRUE] /\ UNCHANGED <<cfg, guest, phone>>
    BY <1>3 DEF AdoptFails
  <2>2. win' \in WinType /\ win'.created /\ win'.shown = win.shown
        /\ win'.iconic = win.iconic /\ win'.hidden = win.hidden /\ win'.prevShow = win.prevShow
        /\ win'.fullscreen = win.fullscreen /\ win'.style = win.style /\ win'.rect = win.rect
        /\ win'.prevRect = win.prevRect
    BY <2>1 DEF IInv, Typed, WinType
  <2> QED
    BY <2>1, <2>2 DEF IInv, Typed, PictureIsUp, FullscreenIsWhole, HeldInv, CutInv
<1> QED
  BY <1>1, <1>2, <1>3

\* Every step stays in the invariant.
LEMMA NextInv == IInv /\ [Next]_vars => IInv'
<1> SUFFICES ASSUME IInv, [Next]_vars PROVE IInv'
  OBVIOUS
<1>1. CASE UNCHANGED vars
  BY <1>1 DEF vars, IInv, Typed, PictureIsUp, FullscreenIsWhole, HeldInv, CutInv
<1>2. CASE TrayPicture
  <2>1. ShowPicture /\ cfg' = cfg /\ phone' = phone
    BY <1>2 DEF TrayPicture
  <2> QED
    BY <2>1, ShowInv DEF IInv, Typed
<1> QED
  BY <1>1, <1>2, AdoptInv, GuestInv, ReleasesInv, BoxInv, FrameInv, WindowInv, CloseInv DEF Next

\* The inductive invariant, of which the theorems are consequences.
THEOREM VideoIInv == Spec => []IInv
BY InitInv, NextInv, PTL DEF Spec

-----------------------------------------------------------------------------
\* Types, and that a guest adopted and alive is our child (video_window.cpp:376).
THEOREM TypeCorrect == Spec => []TypeOK
<1>1. IInv => TypeOK
  BY DEF IInv, Typed, TypeOK, WinType, CfgType, GuestType
<1> QED
  BY <1>1, VideoIInv, PTL

\* The window is up exactly while there is a picture in it that the user has not closed
\* (hide(), show() and release(), video_window.cpp:129, 426, 446).
THEOREM PictureAlwaysUp == Spec => []PictureIsUp
<1>1. IInv => PictureIsUp
  BY DEF IInv
<1> QED
  BY <1>1, VideoIInv, PTL

\* Style, place, fullscreen_ and the remembered state of fullscreen agree (setFullscreen()).
THEOREM FullscreenAlwaysWhole == Spec => []FullscreenIsWhole
<1>1. IInv => FullscreenIsWhole
  BY DEF IInv
<1> QED
  BY <1>1, VideoIInv, PTL

\* What is cut out of a picture on screen is what the frame of its device needs (layoutGuest()).
THEOREM FrameAlwaysCut == Spec => []FrameIsCut
<1>1. IInv => FrameIsCut
  BY DEF IInv, CutInv, FrameIsCut, FrameActive, OnScreen
<1> QED
  BY <1>1, VideoIInv, PTL

\* The receiver's window reappears on the desktop only when the user clears the embed box
\* (video_window.h:30).
THEOREM BackOnlyOnRequest == Spec => BackOnRequestOnly
<1> DEFINE Back == guest.window = "child" /\ guest'.window = "desktop" => cfg.embed /\ ~cfg'.embed
<1>1. ASSUME IInv, IInv', Next PROVE Back
  <2> SUFFICES ASSUME guest.window = "child", guest'.window = "desktop"
               PROVE  cfg.embed /\ ~cfg'.embed
    OBVIOUS
  <2> USE <1>1
  <2>1. guest \in GuestType /\ win \in WinType /\ cfg \in CfgType /\ phone \in BOOLEAN
        /\ guest.adopted = "live" /\ win' \in WinType /\ cfg' \in CfgType /\ phone' \in BOOLEAN
    BY DEF IInv, Typed
  <2>2. CASE EmbedBox
    <3>1. CASE cfg.embed
      <4>1. cfg' = [SavedByRelease(cfg) EXCEPT !.embed = FALSE]
        BY <2>2, <3>1 DEF EmbedBox
      <4> QED
        BY <3>1, <4>1, SavedByReleaseIs DEF CfgType
    <3>2. CASE ~cfg.embed
      <4>1. guest' = Laid(guest, win', cfg, phone) \/ guest' = guest
        BY <2>2, <3>2 DEF EmbedBox, ShowPicture
      <4>2. Laid(guest, win', cfg, phone).window = guest.window
        BY <2>1, LaidKeeps
      <4> QED
        BY <4>1, <4>2
    <3> QED
      BY <3>1, <3>2
  <2>3. ~Adopt /\ ~AdoptFails /\ ~GuestOpens /\ ~GuestCloses
    BY <2>1 DEF Adopt, AdoptFails, GuestOpens, GuestCloses, GuestType
  <2>4. ~GuestGone /\ ~ReleaseVideo
    BY <2>1 DEF GuestGone, ReleaseVideo, Released
  <2>5. ~FullscreenBox /\ ~FullscreenFails /\ ~Move /\ ~Minimise
    BY DEF FullscreenBox, FullscreenFails, Move, Minimise
  <2>6. ~TrayPicture /\ ~SetDevice /\ ~Restore
    BY <2>1, LaidKeeps DEF TrayPicture, ShowPicture, SetDevice, Restore
  <2>7. ~ToggleFullscreen
    BY <2>1, LaidKeeps DEF ToggleFullscreen
  <2>8. ~ClosePicture
    BY <2>1, LaidKeeps DEF ClosePicture
  <2>9. ~FrameBox
    <3> SUFFICES ASSUME FrameBox PROVE FALSE
      OBVIOUS
    <3>1. PICK g : /\ g = [guest EXCEPT !.region = guest.region /\ (~win.created \/ ~cfg.frame)]
                   /\ guest' = Laid(g, win, cfg', phone)
      BY DEF FrameBox
    <3>2. g \in GuestType /\ g.window = guest.window
      BY <2>1, <3>1 DEF GuestType, WinType, CfgType
    <3>3. Laid(g, win, cfg', phone).window = g.window
      BY <2>1, <3>2, LaidKeeps
    <3> QED
      BY <3>1, <3>2, <3>3
  <2> QED
    BY <2>2, <2>3, <2>4, <2>5, <2>6, <2>7, <2>8, <2>9 DEF Next
<1>2. IInv /\ IInv' /\ [Next]_vars => [Back]_vars
  BY <1>1
<1>3. Spec => [][Back]_vars
  BY <1>2, VideoIInv, PTL DEF Spec
<1> QED
  BY <1>3 DEF BackOnRequestOnly
=============================================================================
