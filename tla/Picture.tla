------------------------------ MODULE Picture ------------------------------
(***************************************************************************)
(* The size of the picture window and what fills it: how it opens around a *)
(* new stream (sizeToSource), keeps its shape while it is dragged          *)
(* (constrainSizing) and lays out the receiver's window or the phone       *)
(* (layoutPlain, layoutFramed) in app/src/ui/video_window.cpp.             *)
(*                                                                         *)
(* Two computations have to agree on one shape: the window is sized to     *)
(* what effectiveAspect() says, before and apart from the layout that      *)
(* decides what is really shown.  The device, its orientation and the box  *)
(* may change between any two of them.                                     *)
(*                                                                         *)
(* Positions, visibility, minimising and the receiver's life are in        *)
(* VideoWindow; fullscreen and maximised are sizes here that nothing       *)
(* constrains but the least one (WM_GETMINMAXINFO), at which a phone still *)
(* has a screen.  The work area, of a common monitor or larger, and the    *)
(* window's frame do not change.                                           *)
(* Arithmetic is that of Frames.                                           *)
(***************************************************************************)
EXTENDS Frames

CONSTANTS
  Streams,   \* sizes of the receiver's window when it is found
  Devices,   \* the profiles of the phones that connect
  Dragged,   \* client sizes the user drags an edge or a corner to
  Snapped,   \* client sizes Windows gives it: snapped, maximised, fullscreen
  WorkArea,  \* the monitor's work area
  Extra,     \* frameExtra(): caption and borders
  MaxPictures  \* pictures adopted: a bound of this model only

ASSUME PictureAssumption ==
  /\ Devices \subseteq Profiles /\ MaxPictures \in Nat
  /\ \A s \in Streams \cup Dragged : s.w \in Nat \ {0} /\ s.h \in Nat \ {0}
  /\ \A s \in Snapped : s.w \in Nat /\ s.h \in Nat /\ s.w >= 160 /\ s.h >= 80
  /\ WorkArea.w \in Nat /\ WorkArea.h \in Nat /\ WorkArea.w >= 189 /\ WorkArea.h >= 95
  /\ Extra.w \in Nat /\ Extra.h \in Nat

VARIABLES
  client,   \* the client area of our window
  stream,   \* adopted_.source, or NoStream
  phone,    \* the connected device: [wants, profile]
  hint,     \* landscapeHint_
  geom,     \* geom_: "none", "portrait" or "landscape"
  cfg,      \* [frame, saved]: the box, and the remembered size of the window
  pictures  \* the number of pictures adopted

vars == <<client, stream, phone, hint, geom, cfg, pictures>>

NoStream == Size(0, 0)
Unsaved == Size(0, 0)

Larger(a, b) == IF a > b THEN a ELSE b

\* kMinClient, for WM_GETMINMAXINFO and sizeToSource() alike.
AtLeast(s) == Size(Larger(s.w, 160), Larger(s.h, 80))

\* lookupDevice() and deviceWantsFrame(): a Mac, say, or no client yet, gets kPlainPhone and no frame.
NotAPhone == [wants |-> FALSE, profile |-> [screen |-> Size(375, 667), cutout |-> NoCutout]]

Init ==
  /\ client = AtLeast(Size(640 - Extra.w, 360 - Extra.h))
  /\ stream = NoStream
  /\ phone = NotAPhone
  /\ hint = FALSE
  /\ geom = "none"
  /\ cfg \in [frame : BOOLEAN, saved : {Unsaved}]
  /\ pictures = 0

-----------------------------------------------------------------------------
\* The two computations.

\* frameActive().
FrameActive(box, dev, s) == box /\ dev.wants /\ s # NoStream

\* Mutant: the hint, which a stream may overrule, is all that is asked.
AspectByHint(s) ==
  IF FrameActive(cfg.frame, phone, s) THEN FrameAspect(phone.profile, hint) ELSE s

\* effectiveAspect(), or else the stream's own, as a size of that shape.
Aspect(s) ==
  IF FrameActive(cfg.frame, phone, s)
  THEN FrameAspect(phone.profile, IF geom = "none" THEN hint ELSE geom = "landscape")
  ELSE s

\* layoutPlain(): the largest picture of the stream's shape.
Letterboxed(c, s) ==
  LET byWidth == c.w * s.h <= c.h * s.w
  IN  IF byWidth THEN Size(c.w, Larger(1, Round(s.h * c.w, s.w)))
                 ELSE Size(Larger(1, Round(s.w * c.h, s.h)), c.h)

\* layoutGuest(): what it leaves in geom_.
LayGuest(box, dev, turned) ==
  geom' = IF stream' = NoStream THEN geom
          ELSE IF ~FrameActive(box, dev, stream') THEN "none"
          ELSE IF Landscape(stream', dev.profile, turned) THEN "landscape" ELSE "portrait"

-----------------------------------------------------------------------------
\* sizeToSource().

\* a * b / c, rounded down, without the product.
MulDiv(a, b, c) == (a \div c) * b + ((a % c) * b) \div c

\* The integer part of the square root.
SquareRoot(x) == CHOOSE r \in 0 .. x : r * r <= x /\ x < (r + 1) * (r + 1)

\* The remembered size, else the stream's.
Wanted(s) ==
  IF cfg.saved.w > 200 /\ cfg.saved.h > 200
  THEN Size(cfg.saved.w - Extra.w, cfg.saved.h - Extra.h) ELSE s

\* With a frame: the same area in the phone's shape.
Shaped(s) ==
  LET a == Aspect(s)
      want == Wanted(s)
      h == SquareRoot(MulDiv(want.w * want.h, a.h, a.w))
  IN  IF FrameActive(cfg.frame, phone, s) THEN Size(MulDiv(h, a.w, a.h), h) ELSE want

Limit == Size((WorkArea.w * 85) \div 100, (WorkArea.h * 85) \div 100)

\* Mutant: the height is not looked at.
ScaledWidthOnly(s) == IF s.w > Limit.w THEN Limit.w ELSE s.w

\* The width at which neither side is above its limit.
ScaledWidth(s) ==
  IF s.w <= Limit.w /\ s.h <= Limit.h THEN s.w
  ELSE IF s.h <= Limit.h \/ (s.w > Limit.w /\ Limit.w * s.h <= Limit.h * s.w) THEN Limit.w
  ELSE (s.w * Limit.h) \div s.h

Opened(s) ==
  LET w == ScaledWidth(Shaped(s))
  IN  AtLeast(Size(w, Round(w * Aspect(s).h, Aspect(s).w)))

-----------------------------------------------------------------------------
\* The steps.

\* adopt(): sized first, laid out after.
Adopt(s) ==
  /\ stream = NoStream /\ pictures < MaxPictures
  /\ pictures' = pictures + 1
  /\ client' = Opened(s)
  /\ stream' = s
  /\ LayGuest(cfg.frame, phone, hint)
  /\ UNCHANGED <<phone, hint, cfg>>

\* release(); a fullscreen window is not remembered.
Release ==
  /\ stream # NoStream
  /\ stream' = NoStream
  /\ geom' = "none"
  /\ \E keep \in BOOLEAN :
       /\ keep \/ client \in Snapped
       /\ cfg' = IF keep THEN [cfg EXCEPT !.saved = Size(client.w + Extra.w, client.h + Extra.h)]
                 ELSE cfg
  /\ UNCHANGED <<client, phone, hint, pictures>>

\* setDevice().
SetDevice(dev) ==
  /\ dev # phone
  /\ phone' = dev
  /\ hint' = FALSE
  /\ UNCHANGED <<client, stream, cfg, pictures>>
  /\ LayGuest(cfg.frame, dev, FALSE)

\* setFrameEnabled().
FrameBox ==
  /\ cfg' = [cfg EXCEPT !.frame = ~cfg.frame]
  /\ UNCHANGED <<client, stream, phone, hint, pictures>>
  /\ LayGuest(~cfg.frame, phone, hint)

\* toggleRotation(): a picture on screen is laid out again, in the window as it is.
Rotate ==
  /\ hint' = ~hint
  /\ UNCHANGED <<client, stream, phone, cfg, pictures>>
  /\ LayGuest(cfg.frame, phone, ~hint)

\* constrainSizing(): the upper and lower edge decide the width, all others the height; the
\* window's minimum has the last word.
Constrained(vertical, want) ==
  LET s == AtLeast(want)
      a == Aspect(stream)
  IN  AtLeast(IF vertical THEN Size(Round(s.h * a.w, a.h), s.h)
                          ELSE Size(s.w, Round(s.w * a.h, a.w)))

\* WM_SIZING, then WM_SIZE.
Drag(vertical, want) ==
  /\ stream # NoStream
  /\ client' = Constrained(vertical, want)
  /\ UNCHANGED <<stream, phone, hint, cfg, pictures>>
  /\ LayGuest(cfg.frame, phone, hint)

\* WM_SIZE alone.
Snap(s) ==
  /\ stream # NoStream
  /\ client' = s
  /\ UNCHANGED <<stream, phone, hint, cfg, pictures>>
  /\ LayGuest(cfg.frame, phone, hint)

Next ==
  \/ \E s \in Streams : Adopt(s)
  \/ Release
  \/ \E dev \in {NotAPhone} \cup [wants : {TRUE}, profile : Devices] : SetDevice(dev)
  \/ FrameBox \/ Rotate
  \/ \E vertical \in BOOLEAN, want \in Dragged : Drag(vertical, want)
  \/ \E s \in Snapped : Snap(s)

Spec == Init /\ [][Next]_vars

-----------------------------------------------------------------------------
\* What is shown of a stream in a client area.
ShownSize(c, s, box, dev, turned) ==
  LET body == Layout(c, s, dev.profile, turned).body
  IN  IF FrameActive(box, dev, s) THEN Size(Width(body), Height(body)) ELSE Letterboxed(c, s)

\* Is a length zero, but for rounding?
Slack == 3
Strip(s) == s.w > 6 * s.h \/ s.h > 6 * s.w
Negligible(n) == n \in -Slack..Slack

Inside(inner, outer) ==
  /\ inner.left >= outer.left /\ inner.right <= outer.right
  /\ inner.top >= outer.top /\ inner.bottom <= outer.bottom

\* Around any phone, in any window, whatever the device, its orientation and the stream were before:
\* there is a screen, body, screen and cut-out lie inside one another, and the receiver's window is
\* where the picture covers the screen and only the bars fall outside, as much on one side as on the
\* other (device_frames.cpp:192).
PictureIsOnTheScreen ==
  FrameActive(cfg.frame, phone, stream) =>
    LET g == Layout(client, stream, phone.profile, hint)
    IN  /\ Inside(g.body, Rect(0, 0, client.w, client.h))
        /\ Inside(g.screen, g.body) /\ Width(g.screen) > 0 /\ Height(g.screen) > 0
        /\ Inside(g.cutout, g.screen)
        /\ Negligible(Width(g.guest) - g.guestClip.right - g.guestClip.left)
        /\ Negligible(Height(g.guest) - g.guestClip.bottom - g.guestClip.top)

\* A window the user has dragged has the shape of what is in it, the phone as it is held or the
\* stream, however often either changed since it was opened: no backdrop beside the picture, unless the
\* window is as small as it gets or a stream without a frame is a narrow strip (video_window.cpp:378).
DragFillsTheWindow ==
  [][(\E vertical \in BOOLEAN, want \in Dragged : Drag(vertical, want)) =>
       \/ client'.w = 160 \/ client'.h = 80
       \/ ~FrameActive(cfg.frame, phone, stream) /\ Strip(stream)
       \/ LET s == ShownSize(client', stream, cfg.frame, phone, hint)
          IN  Negligible(client'.w - s.w) /\ Negligible(client'.h - s.h)]_vars

\* A window opens no larger than 85% of the work area, whatever size is remembered from whatever
\* was shown before, if it has a phone's shape or no size is remembered (video_window.cpp:218).
OpensInTheWorkArea ==
  [][\A s \in Streams :
       Adopt(s) /\ (FrameActive(cfg.frame, phone, s) \/ cfg.saved = Unsaved) =>
         client'.w <= Limit.w /\ client'.h <= Limit.h]_vars
=============================================================================
