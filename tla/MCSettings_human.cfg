CONSTANTS
  dev1 = dev1
  dev2 = dev2
  packed = packed
  tree = tree
  typed = typed
  None = None
  Copy <- Copies
  Portable <- Packed
  InRepo <- Tree
  Typed <- TypedPaths
  Parents <- SomeParents
SPECIFICATION Spec
INVARIANT HumanPathsOnly
