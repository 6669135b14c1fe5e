\* Two writers, two subscriptions that come and go, one stopping thread.
SPECIFICATION Spec
CONSTANTS
  Writers = {w1, w2}
  Subscriptions = {s1, s2}
  SelfPublishing = {}
  Buffers = {}
  Blocking = {}
  Readers = {}
  Stoppers = {x}
  RingSize = 1
  SizeModulus = 4
  MaxPuts = 2
  NoEvent = NoEvent
  NoOwner = NoOwner
INVARIANTS TypeOK WalkIsLive DrainIsExact RemovedIsQuiet NoneSkipped
PROPERTIES ImplementsChannel
SYMMETRY Symmetry
