\* Three plugins, the last two of them threadloops; SIGINT during load_so.
SPECIFICATION FairSpec
CONSTANTS
  N = 3
  Threadloops = {2, 3}
  Subscribing = {1, 2}
  Throwing = {1}
  Endings = {"early"}
  MaxSignals = 1
PROPERTIES InterruptStops
\* stop() waits for a thread that waits for ready_: that is what is reported.
CHECK_DEADLOCK FALSE
