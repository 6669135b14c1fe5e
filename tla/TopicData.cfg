\* One writer laps a ring of two slots under a reader and fills two buffers, whose
\* consumers poll (b1) and block (b2).
SPECIFICATION Spec
CONSTANTS
  Writers = {w}
  Subscriptions = {}
  SelfPublishing = {}
  Buffers = {b1, b2}
  Blocking = {b2}
  Readers = {r}
  Stoppers = {}
  RingSize = 2
  SizeModulus = 8
  MaxPuts = 5
  NoEvent = NoEvent
  NoOwner = NoOwner
INVARIANTS GetIsLatestUnlessLapped NullOnlyInTheBeginning BufferSizeExact PollingNeverStarves
