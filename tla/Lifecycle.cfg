\* Three plugins, the last two of them threadloops; the duration, and SIGINT twice at any
\* time after load_so.
SPECIFICATION FairSpec
CONSTANTS
  N = 3
  Threadloops = {2, 3}
  Subscribing = {1, 2}
  Throwing = {1}
  Endings = {"duration", "sigint"}
  MaxSignals = 2
INVARIANTS TypeOK StartsTogether WaitReturnsJoined DestroyedIsQuiet NoJoinConflict StoppedOnce
PROPERTIES InterruptStops DurationStops
