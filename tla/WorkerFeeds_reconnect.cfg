\* Two sockets of one worker, the old one dying while the new one starts.
SPECIFICATION Spec
\* The phone signs out for good, or the bound on sockets is reached.
INVARIANTS FeedIsServed LatestFrameWins
PROPERTIES FeedsKeepMoving
CHECK_DEADLOCK FALSE
CONSTANTS
  Conns = {c1, c2}
  NoConn = NoConn
  MaxFrames = 3
