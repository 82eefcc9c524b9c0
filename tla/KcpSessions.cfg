\* Two streams for the one number that is not held, so that it is used again.
SPECIFICATION Spec
CONSTANTS
  c1 = c1
  c2 = c2
  Streams = {c1, c2}
  NoStream = NoStream
  ConvMod = 2
  Held = {1}
  MaxNet = 2
SYMMETRY Symmetry
CHECK_DEADLOCK FALSE
INVARIANTS TypeOK SharedOnlyIfOverlapped NeverMixed
PROPERTIES ClosesOwn
