\* A check-in to another zone after the worker pressed STOP.
SPECIFICATION CameraSpec
CHECK_DEADLOCK FALSE
CONSTANTS
  Conns = {c1, c2}
  NoConn = NoConn
  MaxFrames = 1
PROPERTIES
  OnlyTheWorkerRestarts
