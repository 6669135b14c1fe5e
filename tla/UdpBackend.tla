------------------------------ MODULE UdpBackend ------------------------------
(* plugins/udp_network_backend: a client and a server that exchange datagrams, *)
(* which the network may lose and reorder.  A topic is announced to the peer   *)
(* three times, if the peer is known.  A host may stop and be started again;   *)
(* the client then has a new port, unless ILLIXR_UDP_CLIENT_PORT fixes it.     *)
EXTENDS Integers, Bags

CONSTANTS
    UdpTopics,
    Creator,    \* the host whose plugin has the network writer of a topic
    Method,     \* the serialization method of that writer's configuration
    MaxStarts,  \* bound: starts of each host
    MaxLost,    \* bound: datagrams the network loses
    MaxData     \* bound: messages in flight or lost, of all topics together

Hosts == {"client", "server"}
Methods == {"BOOST", "PROTOBUF"}
NoMethod == "none"

ASSUME UdpAssumption ==
    /\ Creator \in [UdpTopics -> Hosts]
    /\ Method \in [UdpTopics -> Methods]
    /\ MaxStarts \in [Hosts -> Nat]
    /\ MaxLost \in 0..2 /\ MaxData \in Nat

VARIABLES
    fixedPort,  \* whether ILLIXR_UDP_CLIENT_PORT is set, on both hosts
    udpUp,      \* running_ and peer_socket_
    epoch,      \* how often a host was started
    peer,       \* the address of set_peer; NoPeer before it
    networked, configs,
    announced,  \* the epoch of the peer when a topic was announced to it
    net, lost, sends

hostVars == <<udpUp, epoch, peer, networked, configs, announced>>
udpVars  == <<fixedPort, hostVars, net, lost, sends>>

Other(h) == CHOOSE o \in Hosts : o # h
NoPeer == -1

\* The server's address is 0, the client's the number of its start or a fixed one.
Address(h) == IF h = "server" THEN 0 ELSE IF fixedPort THEN 1 ELSE epoch[h]
FirstPeer(h) == IF h = "client" THEN 0 ELSE IF fixedPort THEN 1 ELSE NoPeer

UdpInit ==
    /\ fixedPort \in BOOLEAN
    /\ udpUp = [h \in Hosts |-> FALSE]
    /\ epoch = [h \in Hosts |-> 0]
    /\ peer = [h \in Hosts |-> NoPeer]
    /\ networked = [h \in Hosts |-> {}]
    /\ configs = [h \in Hosts |-> [t \in UdpTopics |-> NoMethod]]
    /\ announced = [h \in Hosts |-> [t \in UdpTopics |-> 0]]
    /\ net = EmptyBag
    /\ lost = 0
    /\ sends = 0

\* The constructor, which returns once the socket is ready.
UdpStart(h) ==
    /\ ~udpUp[h]
    /\ epoch[h] < MaxStarts[h]
    /\ udpUp' = [udpUp EXCEPT ![h] = TRUE]
    /\ epoch' = [epoch EXCEPT ![h] = @ + 1]
    /\ peer' = [peer EXCEPT ![h] = FirstPeer(h)]
    /\ networked' = [networked EXCEPT ![h] = {}]
    /\ configs' = [configs EXCEPT ![h] = [t \in UdpTopics |-> NoMethod]]
    /\ announced' = [announced EXCEPT ![h] = [t \in UdpTopics |-> 0]]
    /\ UNCHANGED <<fixedPort, net, lost, sends>>

Datagram(h, kind, t) == [to |-> peer[h], from |-> Address(h), kind |-> kind, topic |-> t]

\* Mutant: a copy less.
AnnouncementsTwo(h, t) == [d \in {Datagram(h, "control", t)} |-> 2]

\* The for loop around send_control.
Announcements(h, t) == [d \in {Datagram(h, "control", t)} |-> 3]

UdpTopicCreate(h, t) ==
    /\ udpUp[h]
    /\ Creator[t] = h
    /\ t \notin networked[h]
    /\ networked' = [networked EXCEPT ![h] = @ \cup {t}]
    /\ configs' = [configs EXCEPT ![h][t] = Method[t]]
    /\ IF peer[h] # NoPeer
       THEN /\ net' = net (+) Announcements(h, t)
            /\ announced' = [announced EXCEPT ![h][t] = epoch[Other(h)]]
       ELSE UNCHANGED <<net, announced>>
    /\ UNCHANGED <<fixedPort, udpUp, epoch, peer, lost, sends>>

\* topic_send; write_data fails without a peer, and the message is gone.
UdpTopicSend(h, t) ==
    /\ udpUp[h]
    /\ Creator[t] = h
    /\ t \in networked[h]
    /\ peer[h] # NoPeer
    /\ sends < MaxData
    /\ sends' = sends + 1
    /\ net' = net (+) SetToBag({Datagram(h, "data", t)})
    /\ UNCHANGED <<fixedPort, hostVars, lost>>

\* Mutant: emplace, which leaves an entry that is there.
ConfigOfEmplaced(h, d) ==
    IF configs[h][d.topic] # NoMethod THEN configs[h][d.topic]
    ELSE IF d.kind = "control" THEN Method[d.topic] ELSE "BOOST"

\* topic_receive: a control message gives the topic its method; data is put into a
\* registered topic, and operator[] makes a default entry for a topic without one.
ConfigOf(h, d) ==
    IF d.kind = "control" THEN Method[d.topic]
    ELSE IF configs[h][d.topic] = NoMethod THEN "BOOST" ELSE configs[h][d.topic]

\* One turn of read_loop; a datagram for a topic nobody here has is dropped.
UdpReceive(h, d) ==
    /\ udpUp[h]
    /\ d.to = Address(h)
    /\ net' = net (-) SetToBag({d})
    /\ peer' = [peer EXCEPT ![h] = IF @ = NoPeer THEN d.from ELSE @]
    /\ networked' = [networked EXCEPT ![h] =
                     IF d.kind = "control" THEN @ \cup {d.topic} ELSE @]
    /\ \/ configs' = [configs EXCEPT ![h][d.topic] = ConfigOf(h, d)]
       \/ d.kind = "data" /\ UNCHANGED configs
    /\ UNCHANGED <<fixedPort, udpUp, epoch, announced, lost, sends>>

Bound(d) == \E h \in Hosts : udpUp[h] /\ d.to = Address(h)

\* The network loses a datagram, or nobody is bound to its address.
Lose(d) ==
    /\ net' = net (-) SetToBag({d})
    /\ IF Bound(d) THEN lost < MaxLost /\ lost' = lost + 1 ELSE UNCHANGED lost
    /\ UNCHANGED <<fixedPort, hostVars, sends>>

\* stop(), or the death of the process; the last start of a host runs on.
UdpStop(h) ==
    /\ udpUp[h]
    /\ epoch[h] < MaxStarts[h]
    /\ udpUp' = [udpUp EXCEPT ![h] = FALSE]
    /\ UNCHANGED <<fixedPort, epoch, peer, networked, configs, announced, net, lost, sends>>

UdpFinished ==
    /\ \A h \in Hosts : epoch[h] = MaxStarts[h]
    /\ net = EmptyBag
    /\ UNCHANGED udpVars

UdpReceives == \E h \in Hosts : \E d \in BagToSet(net) : UdpReceive(h, d)

UdpNext ==
    \/ \E h \in Hosts : UdpStart(h) \/ UdpStop(h)
    \/ \E h \in Hosts, t \in UdpTopics : UdpTopicCreate(h, t) \/ UdpTopicSend(h, t)
    \/ UdpReceives
    \/ \E d \in BagToSet(net) : Lose(d)
    \/ UdpFinished

\* A read_loop that can receive goes on receiving.
UdpSpec == UdpInit /\ [][UdpNext]_udpVars /\ WF_udpVars(UdpReceives)

------------------------------------------------------------------------------
Epochs == 0..MaxStarts["client"] \cup 0..MaxStarts["server"]
Addresses == {NoPeer, 0, 1} \cup Epochs

UdpTypeOK ==
    /\ fixedPort \in BOOLEAN
    /\ udpUp \in [Hosts -> BOOLEAN]
    /\ epoch \in [Hosts -> Epochs]
    /\ peer \in [Hosts -> Addresses]
    /\ networked \in [Hosts -> SUBSET UdpTopics]
    /\ configs \in [Hosts -> [UdpTopics -> Methods \cup {NoMethod}]]
    /\ announced \in [Hosts -> [UdpTopics -> Epochs]]
    /\ \A d \in BagToSet(net) : d.to \in Addresses /\ d.topic \in UdpTopics
    /\ lost \in 0..MaxLost
    /\ sends \in 0..MaxData

\* A host that takes a topic for a networked one decodes its messages as their writer
\* encoded them, also when messages came before the announcement, when it came several
\* times, or when the hosts were started again.
UdpMethodAgrees ==
    \A h \in Hosts : \A t \in networked[h] : configs[h][t] = Method[t]

\* The hosts that h's announcement of t was made to and from are still there.
StillTheSame(h, t) ==
    /\ announced[h][t] = epoch[Other(h)]
    /\ udpUp[h] /\ udpUp[Other(h)]
    /\ peer[h] = Address(Other(h))

\* A topic announced to a running peer becomes known to it although the network loses
\* two datagrams, unless one of them stops: what the three copies are for.
AnnouncementArrives ==
    \A h \in Hosts : \A t \in UdpTopics :
        t \in networked[h] /\ StillTheSame(h, t) ~>
            t \in networked[Other(h)] \/ ~StillTheSame(h, t)
===============================================================================
