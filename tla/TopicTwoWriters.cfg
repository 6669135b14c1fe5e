\* Two writers publish at once on a ring they cannot lap.
SPECIFICATION Spec
CONSTANTS
  Writers = {w1, w2}
  Subscriptions = {}
  SelfPublishing = {}
  Buffers = {}
  Blocking = {}
  Readers = {r}
  Stoppers = {}
  RingSize = 8
  SizeModulus = 8
  MaxPuts = 2
  NoEvent = NoEvent
  NoOwner = NoOwner
INVARIANTS NullOnlyInTheBeginning
