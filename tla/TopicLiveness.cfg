\* Two stopping threads, two subscriptions, one writer, under fairness.
SPECIFICATION FairSpec
CONSTANTS
  Writers = {w}
  Subscriptions = {s1, s2}
  SelfPublishing = {}
  Buffers = {}
  Blocking = {}
  Readers = {}
  Stoppers = {x1, x2}
  RingSize = 1
  SizeModulus = 8
  MaxPuts = 2
  NoEvent = NoEvent
  NoOwner = NoOwner
PROPERTIES StopReturns EventsSettle
