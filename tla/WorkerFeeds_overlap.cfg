\* The clean-up of an old socket closes the feed of the new one.
SPECIFICATION Spec
CHECK_DEADLOCK FALSE
CONSTANTS
  Conns = {c1, c2}
  NoConn = NoConn
  MaxFrames = 1
INVARIANTS
  StreamingIsListed
