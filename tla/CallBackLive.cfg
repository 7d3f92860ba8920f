SPECIFICATION FairSpec
CONSTANTS
  s1 = s1
  s2 = s2
  pi1 = pi1
  pi2 = pi2
  Pi = pi1
  Streams = {s1, s2}
  Names = {pi1, pi2}
  NameOf <- TwoPis
  MaxFrames = 1
  MaxParts = 1
  ListSize = 1
  Exclusive = FALSE
INVARIANTS Isolation
PROPERTIES StreamIsClosed
