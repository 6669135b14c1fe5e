\* Two senders on the client.
SPECIFICATION Spec
CONSTANTS
  c = c
  s = s
  k = k
  m = m
  Topics = {k, m}
  Senders = {c, s}
  HostOf <- TwoHostOf
  TopicOf <- TwoTopicOf
  Methods <- MCMethods
  Method <- MCMethod
  Default = "BOOST"
  NoMethod = NoMethod
  Size <- MCSize
  MaxFrames <- MCMaxFrames
INVARIANTS FramesIntact
