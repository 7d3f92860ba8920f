SPECIFICATION Spec
CONSTANTS
  s1 = s1
  s2 = s2
  pi1 = pi1
  pi2 = pi2
  Pi = pi1
  Streams = {s1, s2}
  Names = {pi1}
  NameOf <- OnePi
  MaxFrames = 2
  MaxParts = 2
  ListSize = 2
  Exclusive = TRUE
INVARIANTS
  TypeOK FileIsNthFrame InputIsCurrent PlaylistInOrder SegmentOnDisk PlaylistPlays
PROPERTIES ImplementsHls
