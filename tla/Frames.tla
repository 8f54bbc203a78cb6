------------------------------- MODULE Frames -------------------------------
(***************************************************************************)
(* The phone drawn around the picture: where its body, its screen and its  *)
(* cut-out go in a window of a given size, and where the receiver's window *)
(* goes so that the picture lies on the screen and the bars the phone sent *)
(* along lie outside it (app/src/ui/device_frames.cpp).                    *)
(*                                                                         *)
(* Lengths are pixels.  The code works in doubles and rounds to the        *)
(* nearest pixel; here a fraction is two integers, and rounding is exact.  *)
(* Corner radii, which are only painted, are left out, and so is the table *)
(* from model names to profiles; a window without a client area is in      *)
(* VideoWindow.                                                            *)
(***************************************************************************)
EXTENDS Integers

Size(w, h) == [w |-> w, h |-> h]
Rect(x, y, w, h) == [left |-> x, top |-> y, right |-> x + w, bottom |-> y + h]
Width(r) == r.right - r.left
Height(r) == r.bottom - r.top

\* iround(n / d), for n that are not negative.
Round(n, d) == (2 * n + d) \div (2 * d)

\* kDevices and the generic profiles, told apart by the proportions of the screen and, in
\* thousandths of it, the cut-out and what is above it.
Cutout(kind, w, h, top) == [kind |-> kind, w |-> w, h |-> h, top |-> top]
NoCutout == Cutout("none", 0, 0, 0)
Profiles ==
  [screen : {Size(6, 13), Size(195, 422), Size(214, 463)},
   cutout : {Cutout("notch", 530, 36, 0), Cutout("notch", 420, 38, 0)}]
  \cup [screen : {Size(131, 284), Size(215, 466), Size(201, 437), Size(110, 239)},
        cutout : {Cutout("island", 320, 43, 13)}]
  \cup [screen : {Size(375, 667), Size(41, 59)}, cutout : {NoCutout}]

Turned(s) == Size(s.h, s.w)
Screen(profile, landscape) == IF landscape THEN Turned(profile.screen) ELSE profile.screen

\* Mutant: the bezel goes on the left and right only.
FrameAspectOneBezel(profile, landscape) ==
  LET s == Screen(profile, landscape)
  IN  Size(50 * s.w + 3 * profile.screen.w, 50 * s.h)

\* frameAspect(), as a size: the screen with a bezel of 3% of its short side all around.
FrameAspect(profile, landscape) ==
  LET s == Screen(profile, landscape)
  IN  Size(50 * s.w + 3 * profile.screen.w, 50 * s.h + 3 * profile.screen.w)

\* Does the stream have the proportions of s, to 4%?
Matches(stream, s) ==
  LET off == stream.w * s.h - s.w * stream.h
  IN  100 * (IF off < 0 THEN -off ELSE off) <= 4 * s.w * stream.h

Cropped(stream, profile) ==
  ~Matches(stream, profile.screen) /\ ~Matches(stream, Turned(profile.screen))

\* Which way up is the phone?  A stream with bars does not tell, and the hint decides.
Landscape(stream, profile, hint) ==
  IF Cropped(stream, profile) THEN hint ELSE Matches(stream, Turned(profile.screen))

\* Mutant: the bars' width is taken for the offset of the screen.
GuestBarsTwice(stream, s, pw, ph) ==
  IF stream.w * s.h > s.w * stream.h
  THEN [size |-> Size(Round(pw * stream.w * s.h, stream.h * s.w), Round(pw * s.h, s.w)),
        x |-> Round((stream.w * s.h - stream.h * s.w) * pw, stream.h * s.w), y |-> 0]
  ELSE [size |-> Size(pw, Round(stream.h * pw, stream.w)),
        x |-> 0, y |-> Round((stream.h * s.w - stream.w * s.h) * pw, s.w * stream.w)]

\* A stream with bars: the size that puts its middle part on a screen of pw by ph pixels, and how
\* much of it lies left of the screen and above it.
GuestWithBars(stream, s, pw, ph) ==
  IF stream.w * s.h > s.w * stream.h
  THEN [size |-> Size(Round(pw * stream.w * s.h, stream.h * s.w), Round(pw * s.h, s.w)),
        x |-> Round((stream.w * s.h - stream.h * s.w) * pw, 2 * stream.h * s.w), y |-> 0]
  ELSE [size |-> Size(pw, Round(stream.h * pw, stream.w)),
        x |-> 0, y |-> Round((stream.h * s.w - stream.w * s.h) * pw, 2 * s.w * stream.w)]

\* The cut-out of a screen: it turns with the phone, onto the left edge.
CutoutUpright(screen, w, h, top) ==
  Rect(screen.left + (Width(screen) - w) \div 2, screen.top + top, w, h)
CutoutTurned(screen, w, h, top) ==
  Rect(screen.left + top, screen.top + (Height(screen) - w) \div 2, h, w)

CutoutRect(cutout, screen, landscape) ==
  IF landscape
  THEN CutoutTurned(screen, Round(cutout.w * Height(screen), 1000),
                    Round(cutout.h * Width(screen), 1000), Round(cutout.top * Width(screen), 1000))
  ELSE CutoutUpright(screen, Round(cutout.w * Width(screen), 1000),
                     Round(cutout.h * Height(screen), 1000), Round(cutout.top * Height(screen), 1000))

\* The whole picture on the screen, or the middle part of one with bars.
Guest(stream, profile, landscape, pw, ph) ==
  IF Cropped(stream, profile)
  THEN GuestWithBars(stream, Screen(profile, landscape), pw, ph)
  ELSE [size |-> Size(pw, ph), x |-> 0, y |-> 0]

Geometry(body, screen, cutout, guest) ==
  [body |-> body, screen |-> screen, cutout |-> cutout,
   guest |-> Rect(screen.left - guest.x, screen.top - guest.y, guest.size.w, guest.size.h),
   guestClip |-> Rect(guest.x, guest.y, Width(screen), Height(screen))]

OnScreen(stream, profile, landscape, body, screen) ==
  Geometry(body, screen, CutoutRect(profile.cutout, screen, landscape),
           Guest(stream, profile, landscape, Width(screen), Height(screen)))

InBody(stream, profile, landscape, body, inset) ==
  OnScreen(stream, profile, landscape, body,
           Rect(body.left + inset, body.top + inset,
                Width(body) - 2 * inset, Height(body) - 2 * inset))

\* In the middle of the client area.
Centred(client, w, h) == Rect((client.w - w) \div 2, (client.h - h) \div 2, w, h)

\* A body of w by h with a bezel of 3 * unit / 2, drawn at a scale of n / d.
Scaled(client, stream, profile, landscape, w, h, unit, n, d) ==
  InBody(stream, profile, landscape, Centred(client, Round(w * n, d), Round(h * n, d)),
         Round(3 * unit * n, 2 * d))

\* The largest scale that fits.
Fitted(client, stream, profile, landscape, w, h, unit) ==
  IF client.w * h <= client.h * w
  THEN Scaled(client, stream, profile, landscape, w, h, unit, client.w, w)
  ELSE Scaled(client, stream, profile, landscape, w, h, unit, client.h, h)

\* The body around a screen of s, in fiftieths of the profile's unit.
Bezelled(client, stream, profile, s, landscape) ==
  Fitted(client, stream, profile, landscape, 50 * s.w + 3 * profile.screen.w,
         50 * s.h + 3 * profile.screen.w, profile.screen.w)

\* layoutDeviceFrame(): the phone as it is held.
Layout(client, stream, profile, hint) ==
  Bezelled(client, stream, profile, Screen(profile, Landscape(stream, profile, hint)),
          Landscape(stream, profile, hint))
=============================================================================
