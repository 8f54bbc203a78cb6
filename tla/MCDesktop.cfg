CONSTANTS
  g1 = g1
  g2 = g2
  g3 = g3
  m1 = m1
  here = here
  there = there
  Gui <- Guis
  Manual <- ByHand
  Image <- Images
  Uxplay <- Uxplays
  Elevated <- Admins
SPECIFICATION DesktopSpec
INVARIANTS
  OneGui
  NoOrphanBesideOurs
  BoxIsTrue
PROPERTIES
  OnlyOneDoesIt
  ChoiceIsKept
