SPECIFICATION Spec
CONSTANTS
  Newest = 2
  Version <- Versions
  Published <- Lists
  MaxBoxes = 2
INVARIANT DownloadIsAgreed
