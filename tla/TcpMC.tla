------------------------------- MODULE TcpMC -------------------------------
(***************************************************************************)
(* Instances of TcpBackend for TLC: the functions among its constants.     *)
(***************************************************************************)
EXTENDS TcpBackend, TLC

CONSTANTS c, s, k, m

\* A thread of the client and one of the server write to the same topic.
MCHostOf == (c :> "client") @@ (s :> "server")
MCTopicOf == (c :> k) @@ (s :> k)
MCMaxFrames == (c :> 3) @@ (s :> 1)

\* The client's alone.
ClientHostOf == c :> "client"
ClientTopicOf == c :> k
ClientMaxFrames == c :> 3

\* Two threads of the client, each with a topic of its own.
TwoHostOf == (c :> "client") @@ (s :> "client")
TwoTopicOf == (c :> k) @@ (s :> m)

\* Every topic is configured with the method that is not the default.
MCMethod == [topic \in Topics |-> "PROTOBUF"]
MCMethods == {"BOOST", "PROTOBUF"}

\* A header of two units and one of what follows it.
MCSize == ("create_topic" :> 3) @@ ("data" :> 3)

=============================================================================
