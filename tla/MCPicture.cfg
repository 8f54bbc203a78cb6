SPECIFICATION Spec
CONSTANTS
  Streams <- SomeStreams
  Devices <- SomeDevices
  Dragged <- SomeDrags
  Snapped <- SomeSnaps
  WorkArea <- Work
  Extra <- Borders
  MaxPictures = 2
INVARIANT PictureIsOnTheScreen
PROPERTIES
  DragFillsTheWindow
  OpensInTheWorkArea
