\* A topic with a local reader before its network writer.
SPECIFICATION Spec
CONSTANTS
  c = c
  s = s
  k = k
  m = m
  Topics = {k}
  Senders = {c}
  HostOf <- ClientHostOf
  TopicOf <- ClientTopicOf
  Methods <- MCMethods
  Method <- MCMethod
  Default = "BOOST"
  NoMethod = NoMethod
  Size <- MCSize
  MaxFrames <- ClientMaxFrames
INVARIANTS NetworkedStaysRemote
