----------------------------- MODULE MCPicture -----------------------------
(***************************************************************************)
(* Picture for TLC.  The streams: a wide one with bars around any phone, a *)
(* narrow one whose rounding errors add up in one of the windows, and a    *)
(* phone's own, upright and turned.                                        *)
(***************************************************************************)
EXTENDS Picture

SomeStreams == {Size(1280, 720), Size(260, 1124), Size(498, 1080), Size(1280, 591)}
SomeDevices ==
  {[screen |-> Size(214, 463), cutout |-> Cutout("notch", 420, 38, 0)],
   [screen |-> Size(110, 239), cutout |-> Cutout("island", 320, 43, 13)],
   [screen |-> Size(41, 59), cutout |-> NoCutout]}
SomeDrags == {Size(900, 407), Size(333, 801)}
SomeSnaps == {Size(1280, 720), Size(619, 1161)}
Work == Size(1280, 680)
Borders == Size(16, 39)
=============================================================================
