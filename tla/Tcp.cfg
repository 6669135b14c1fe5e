\* One sender on each host, writing to the same topic.
SPECIFICATION FairSpec
CONSTANTS
  c = c
  s = s
  k = k
  m = m
  Topics = {k}
  Senders = {c, s}
  HostOf <- MCHostOf
  TopicOf <- MCTopicOf
  Methods <- MCMethods
  Method <- MCMethod
  Default = "BOOST"
  NoMethod = NoMethod
  Size <- MCSize
  MaxFrames <- MCMaxFrames
INVARIANTS TypeOK FramesIntact
PROPERTIES EndpointsAgree SentArrives ImplementsNetworkedTopics
