-------------------------------- MODULE Parts ---------------------------------
(* For TLC: the components that have no state in common, each checked by       *)
(* itself in one run.  A behaviour is one of the components': the first state  *)
(* chooses which, and the others stay as they are.                             *)
EXTENDS BufferPool, UdpBackend, OffloadVio, AdaScene, FramePairing, Registry,
        PosePrediction

VARIABLE part

partsVars == <<part, poolVars, udpVars, vioVars, adaVars, pairVars, regVars, poseVars>>

TheCreator == [t \in {"imu", "pose"} |-> IF t = "imu" THEN "client" ELSE "server"]
TheMethod  == [t \in {"imu", "pose"} |-> "PROTOBUF"]
TheStarts  == [h \in {"client", "server"} |-> IF h = "client" THEN 2 ELSE 1]

PartsInit ==
    /\ part \in {"pool", "udp", "vio", "ada", "pair", "registry", "pose"}
    /\ PoolInit /\ (passesLast => part = "pool")
    /\ UdpInit /\ (fixedPort => part = "udp")
    /\ VioInit /\ AdaInit /\ PairInit /\ RegInit /\ PoseInit

\* A step of one component.
InPool(A) == part = "pool" /\ A /\
    UNCHANGED <<part, udpVars, vioVars, adaVars, pairVars, regVars, poseVars>>
InUdp(A)  == part = "udp" /\ A /\
    UNCHANGED <<part, poolVars, vioVars, adaVars, pairVars, regVars, poseVars>>
InVio(A)  == part = "vio" /\ A /\
    UNCHANGED <<part, poolVars, udpVars, adaVars, pairVars, regVars, poseVars>>
InAda(A)  == part = "ada" /\ A /\
    UNCHANGED <<part, poolVars, udpVars, vioVars, pairVars, regVars, poseVars>>
InPair(A) == part = "pair" /\ A /\
    UNCHANGED <<part, poolVars, udpVars, vioVars, adaVars, regVars, poseVars>>
InReg(A)  == part = "registry" /\ A /\
    UNCHANGED <<part, poolVars, udpVars, vioVars, adaVars, pairVars, poseVars>>
InPose(A) == part = "pose" /\ A /\
    UNCHANGED <<part, poolVars, udpVars, vioVars, adaVars, pairVars, regVars>>

PartsNext ==
    \/ InPool(PoolNext) \/ InUdp(UdpNext) \/ InVio(VioNext) \/ InAda(AdaNext)
    \/ InPair(PairNext) \/ InReg(RegNext) \/ InPose(PoseNext)

PartsSpec ==
    /\ PartsInit /\ [][PartsNext]_partsVars
    /\ WF_partsVars(InUdp(UdpReceives))
    /\ WF_partsVars(InAda(AdaStep))
    /\ \A c \in Callbacks : WF_partsVars(InReg(RegThreadStep(c)))
    /\ WF_partsVars(InReg(RegStopStep))

\* Every component's state is of its type.
PartsTypeOK ==
    PoolTypeOK /\ UdpTypeOK /\ VioTypeOK /\ AdaTypeOK /\ PairTypeOK /\ RegTypeOK /\ PoseTypeOK
===============================================================================
