SPECIFICATION Spec
CONSTANTS
  Places = {p1, p2}
  Centre = Centre
  Monitor = Monitor
  Nowhere = Nowhere
INVARIANTS PictureIsUp FullscreenIsWhole FrameIsCut
PROPERTY BackOnRequestOnly
