---------------------------- MODULE VideoWindow ----------------------------
(***************************************************************************)
(* The window the picture lives in: app/src/ui/video_window.cpp, with the  *)
(* adoption of the receiver's window in app/src/ui/video_embed.cpp and the *)
(* calls of app/src/ui/main_window.cpp into both.                          *)
(*                                                                         *)
(* Everything here runs on the window's thread, one message at a time; the *)
(* receiver creates and destroys its own window at any moment.  What is    *)
(* hard is the long sequences: adopted, moved, fullscreen, minimised,      *)
(* closed, shown again, lost and adopted once more, with the place and the *)
(* fullscreen state remembered in config.ini on the way.                   *)
(*                                                                         *)
(* A place on the desktop is a model value.  The place of a minimised      *)
(* window is the one it is restored to: SetWindowPos does not change that  *)
(* one, SetWindowPlacement does.  Sizes, the aspect ratio, the z-order and *)
(* the title are left out.                                                 *)
(***************************************************************************)
CONSTANTS
  Places,     \* where the user can put the window
  Centre,     \* where sizeToSource puts it when it knows no better
  Monitor,    \* the whole monitor: where a fullscreen window is
  Nowhere     \* no place remembered

ASSUME PlacesAssumption ==
  /\ Centre # Monitor /\ Centre # Nowhere /\ Monitor # Nowhere
  /\ Places \cap {Centre, Monitor, Nowhere} = {}

Windowed == Places \cup {Centre}

VARIABLES
  win,    \* our window and the VideoWindow object
  cfg,    \* what of AppConfig concerns it
  guest,  \* the receiver's window, and what we did to it
  phone   \* wantsFrame_: the connected device is one we can draw

vars == <<win, cfg, guest, phone>>

\* Types; a guest we adopted is our child for as long as it lives.
TypeOK ==
  /\ win \in [created : BOOLEAN, shown : BOOLEAN, iconic : BOOLEAN, hidden : BOOLEAN,
              fullscreen : BOOLEAN, style : {"overlapped", "popup"},
              rect : Windowed \cup {Monitor}, prevRect : Windowed \cup {Monitor},
              prevShow : {"normal", "minimised"}]
  /\ cfg \in [rect : Windowed \cup {Nowhere}, full : BOOLEAN, openFull : BOOLEAN,
              frame : BOOLEAN, embed : BOOLEAN]
  /\ guest \in [window : {"none", "desktop", "child", "dark"},
                adopted : {"none", "live", "dead"}, region : BOOLEAN, geom : BOOLEAN]
  /\ guest.adopted = "live" <=> guest.window = "child"
  /\ phone \in BOOLEAN

\* A first start, or one with anything an earlier one may have left in config.ini.
Init ==
  /\ win = [created |-> FALSE, shown |-> FALSE, iconic |-> FALSE, hidden |-> FALSE,
            fullscreen |-> FALSE, style |-> "overlapped", rect |-> Centre,
            prevRect |-> Centre, prevShow |-> "normal"]
  /\ cfg \in [rect : Places \cup {Nowhere}, full : BOOLEAN, openFull : BOOLEAN,
              frame : BOOLEAN, embed : BOOLEAN]
  /\ guest = [window |-> "none", adopted |-> "none", region |-> FALSE, geom |-> FALSE]
  /\ phone = FALSE

-----------------------------------------------------------------------------
\* The parts the handlers are made of, as functions of the state they find.

\* frameActive(): a phone we can draw, the box ticked, and a picture to draw it around.
FrameActive(c, p, g) == c.frame /\ p /\ g.adopted # "none"

\* layoutGuest(): the guest's region follows the frame.  A minimised window has no client area:
\* layoutFramed() drops its geometry there and layoutPlain() returns at once.
Laid(g, w, c, p) ==
  LET framed == FrameActive(c, p, g)
  IN CASE ~w.created \/ g.adopted # "live" -> g
       [] w.created /\ g.adopted = "live" /\ w.iconic  -> [g EXCEPT !.geom = g.geom /\ ~framed]
       [] w.created /\ g.adopted = "live" /\ ~w.iconic ->
            [g EXCEPT !.geom = framed, !.region = framed]

\* Mutant: a fullscreen window is remembered too.
SavedAlways(c, w) == IF ~w.created \/ ~w.shown \/ w.iconic THEN c ELSE [c EXCEPT !.rect = w.rect]

\* saveRect(): only a windowed, visible window is worth remembering.
Saved(c, w) ==
  IF ~w.created \/ w.fullscreen \/ ~w.shown \/ w.iconic THEN c ELSE [c EXCEPT !.rect = w.rect]

\* What GetWindowPlacement records: a window not shown yet is to come back shown.
Placed(w) ==
  [w EXCEPT !.prevRect = w.rect, !.prevShow = IF w.iconic THEN "minimised" ELSE "normal"]

\* setFullscreen(true).  A minimised window, which only adopt() makes fullscreen, is not moved.
Entered(w) ==
  [Placed(w) EXCEPT !.style = "popup", !.fullscreen = TRUE,
                    !.rect = IF w.iconic THEN w.rect ELSE Monitor]

\* Mutant: SetWindowPlacement's showCmd applies to a window that is off screen, too.
LeftShown(w) ==
  [w EXCEPT !.style = "overlapped", !.rect = w.prevRect, !.fullscreen = FALSE,
            !.shown = TRUE, !.iconic = w.prevShow = "minimised"]

\* setFullscreen(false): the placement it came in with, but off screen if it is off screen now.
Left(w) ==
  [w EXCEPT !.style = "overlapped", !.rect = w.prevRect, !.fullscreen = FALSE,
            !.iconic = IF w.shown THEN w.prevShow = "minimised" ELSE w.iconic]

\* sizeToSource(): the remembered place, if its monitor is still there.
Placement(w, c) ==
  IF w.fullscreen \/ w.iconic THEN {w.rect} ELSE {Centre} \cup ({c.rect} \ {Nowhere})

\* Mutant: fullscreen_ is cleared with the rest.
ReleasedWindowForgets(w) == [w EXCEPT !.shown = FALSE, !.hidden = FALSE, !.fullscreen = FALSE]

\* release(): our window goes off screen first.
ReleasedWindow(w) == [w EXCEPT !.shown = FALSE, !.hidden = FALSE]

\* release() and releaseWindow(): the guest goes back, visible or dark, if it still exists.
Released(toDesktop) ==
  IF guest.adopted = "none"
  THEN /\ win' = [win EXCEPT !.hidden = FALSE]
       /\ UNCHANGED guest
  ELSE /\ win' = ReleasedWindow(win)
       /\ guest' = [window  |-> CASE guest.adopted = "dead" -> guest.window
                                  [] guest.adopted = "live" /\ toDesktop  -> "desktop"
                                  [] guest.adopted = "live" /\ ~toDesktop -> "dark",
                    adopted |-> "none", region |-> FALSE, geom |-> FALSE]

\* release() changes nothing of the config but the place.
SavedByRelease(c) == IF guest.adopted = "none" THEN c ELSE Saved(c, win)

-----------------------------------------------------------------------------
\* What the main window does to the picture.

\* pollVideoWindow() -> adopt(): arranged while off screen, then shown once.
Adopt ==
  /\ cfg.embed /\ guest.adopted = "none" /\ guest.window = "desktop"
  /\ \E place \in Placement(win, cfg) :
       LET placed == [win EXCEPT !.created = TRUE, !.hidden = FALSE, !.rect = place]
           full   == cfg.full \/ cfg.openFull
           goes   == full /\ ~win.fullscreen
       IN /\ win' = [IF goes THEN Entered(placed) ELSE placed EXCEPT !.shown = TRUE]
          /\ cfg' = [cfg EXCEPT !.full = full]
  /\ guest' = Laid([window |-> "child", adopted |-> "live", region |-> FALSE, geom |-> FALSE],
                   win', cfg', phone)
  /\ UNCHANGED phone

\* adopt() with a guest that vanished or will not move: our window exists from now on.
AdoptFails ==
  /\ cfg.embed /\ guest.adopted = "none" /\ guest.window = "desktop"
  /\ win' = [win EXCEPT !.created = TRUE]
  /\ UNCHANGED <<cfg, guest, phone>>

\* pollVideoWindow(): the receiver closed its window.
GuestGone ==
  /\ guest.adopted = "dead"
  /\ Released(FALSE)
  /\ cfg' = SavedByRelease(cfg)
  /\ UNCHANGED phone

\* releaseVideo(): the receiver ended, is about to be stopped, or we leave.
ReleaseVideo ==
  /\ Released(FALSE)
  /\ cfg' = SavedByRelease(cfg)
  /\ UNCHANGED phone

\* showPicture() on a picture the user closed.
ShowPicture ==
  /\ win.created /\ win.hidden
  /\ win' = [win EXCEPT !.hidden = FALSE, !.shown = TRUE]
  /\ guest' = Laid(guest, win', cfg, phone)

\* The tray's "Görüntüyü göster".
TrayPicture == ShowPicture /\ UNCHANGED <<cfg, phone>>

\* applyEmbedSetting(): ticking the box shows a closed picture; clearing it gives the guest back.
EmbedBox ==
  \/ /\ ~cfg.embed
     /\ cfg' = [cfg EXCEPT !.embed = TRUE]
     /\ \/ ShowPicture
        \/ ~(win.created /\ win.hidden) /\ UNCHANGED <<win, guest>>
     /\ UNCHANGED phone
  \/ /\ cfg.embed
     /\ Released(TRUE)
     /\ cfg' = [SavedByRelease(cfg) EXCEPT !.embed = FALSE]
     /\ UNCHANGED phone

\* The receiver settings' fullscreen box.
FullscreenBox ==
  /\ cfg' = [cfg EXCEPT !.openFull = ~cfg.openFull]
  /\ UNCHANGED <<win, guest, phone>>

\* Mutant: the new device is noted and the picture left as it is.
SetDeviceUnlaid == phone' \in BOOLEAN /\ UNCHANGED <<win, cfg, guest>>

\* setDevice(): the client told its model.
SetDevice ==
  /\ phone' \in BOOLEAN
  /\ guest' = Laid(guest, win, cfg, phone')
  /\ UNCHANGED <<win, cfg>>

\* setFrameEnabled(): without a frame the region goes before the layout.
FrameBox ==
  /\ cfg' = [cfg EXCEPT !.frame = ~cfg.frame]
  /\ guest' = Laid([guest EXCEPT !.region = guest.region /\ (~win.created \/ ~cfg.frame)],
                   win, cfg', phone)
  /\ UNCHANGED <<win, phone>>

-----------------------------------------------------------------------------
\* What the user does to the picture window.

OnScreen == win.shown /\ ~win.iconic

\* F11, Alt+Enter, a double click or the system menu; Esc only leaves.
ToggleFullscreen ==
  /\ OnScreen
  /\ win' = IF win.fullscreen THEN Left(win) ELSE Entered(win)
  /\ cfg' = [cfg EXCEPT !.full = ~win.fullscreen]
  /\ guest' = Laid(guest, win', cfg', phone)
  /\ UNCHANGED phone

\* setFullscreen(true) when the monitor cannot be asked for its size.
FullscreenFails ==
  /\ OnScreen /\ ~win.fullscreen
  /\ win' = Placed(win)
  /\ UNCHANGED <<cfg, guest, phone>>

\* Mutant: closing the picture gives the guest back to the desktop.
ClosePictureReleases ==
  /\ win.shown
  /\ Released(TRUE)
  /\ cfg' = SavedByRelease(cfg)
  /\ UNCHANGED phone

\* WM_CLOSE -> hide(): off screen first, out of fullscreen after; the guest stays adopted.
ClosePicture ==
  /\ win.shown
  /\ LET dark == [win EXCEPT !.shown = FALSE]
     IN win' = [IF win.fullscreen THEN Left(dark) ELSE dark EXCEPT !.hidden = TRUE]
  /\ cfg' = [Saved(cfg, win) EXCEPT !.full = cfg.full /\ ~win.fullscreen]
  /\ guest' = IF win.fullscreen THEN Laid(guest, win', cfg', phone) ELSE guest
  /\ UNCHANGED phone

\* Dragging the window; resizing lays the guest out again, to the same end.
Move ==
  /\ OnScreen /\ ~win.fullscreen
  /\ \E place \in Places : win' = [win EXCEPT !.rect = place]
  /\ UNCHANGED <<cfg, guest, phone>>

\* A fullscreen window has no minimise button.
Minimise ==
  /\ OnScreen /\ ~win.fullscreen
  /\ win' = [win EXCEPT !.iconic = TRUE]
  /\ UNCHANGED <<cfg, guest, phone>>

\* WM_SIZE lays the guest out.
Restore ==
  /\ win.shown /\ win.iconic
  /\ win' = [win EXCEPT !.iconic = FALSE]
  /\ guest' = Laid(guest, win', cfg, phone)
  /\ UNCHANGED <<cfg, phone>>

-----------------------------------------------------------------------------
\* What the receiver does.

GuestOpens ==
  /\ guest.window = "none"
  /\ guest' = [guest EXCEPT !.window = "desktop"]
  /\ UNCHANGED <<win, cfg, phone>>

GuestCloses ==
  /\ guest.window # "none"
  /\ guest' = [guest EXCEPT !.window = "none", !.region = FALSE,
                            !.adopted = IF guest.adopted = "live" THEN "dead" ELSE guest.adopted]
  /\ UNCHANGED <<win, cfg, phone>>

Next ==
  \/ Adopt \/ AdoptFails \/ GuestGone \/ ReleaseVideo \/ TrayPicture \/ EmbedBox
  \/ FullscreenBox \/ SetDevice \/ FrameBox
  \/ ToggleFullscreen \/ FullscreenFails \/ ClosePicture \/ Move \/ Minimise \/ Restore
  \/ GuestOpens \/ GuestCloses

Spec == Init /\ [][Next]_vars

-----------------------------------------------------------------------------
\* The picture window is up exactly while there is a picture in it that the user has not
\* closed, through every order of closing, fullscreen and adoption: none of the SetWindowPlacement
\* calls brings a closed picture back or loses an adopted one (video_window.cpp:129, 426, 446).
PictureIsUp == win.shown <=> guest.adopted # "none" /\ ~win.hidden

\* Fullscreen is one thing: the style, fullscreen_, the place and the remembered state agree,
\* also in a window that is hidden and released while fullscreen and adopted into again; and
\* no path that remembers the window's place remembers the whole monitor for it (:458).  The
\* place is the whole monitor but in one case: setFullscreen() moves no window that is
\* minimised (:438), so that a picture adopted fullscreen into one stays where it was, and is
\* fullscreen there, without a frame, once it is restored.
FullscreenIsWhole ==
  /\ win.fullscreen <=> win.style = "popup"
  /\ win.rect = Monitor <=> win.fullscreen /\ win.prevShow = "normal"
  /\ win.fullscreen =>
       /\ cfg.full /\ win.prevRect # Monitor
       /\ win.prevShow = "minimised" => win.rect = win.prevRect
  /\ cfg.rect # Monitor

\* What is cut out of a picture on screen is what the frame of the connected device needs:
\* nothing of an earlier device, an unticked box or a time in the task bar remains.
FrameIsCut ==
  OnScreen /\ guest.adopted = "live" =>
    /\ guest.region = FrameActive(cfg, phone, guest)
    /\ guest.geom = FrameActive(cfg, phone, guest)

\* The receiver's window reappears on the desktop only because the user cleared the embed box
\* (video_window.h:30), never because the picture was closed, stopped or lost.
BackOnRequestOnly ==
  [][guest.window = "child" /\ guest'.window = "desktop" => cfg.embed /\ ~cfg'.embed]_vars
=============================================================================
