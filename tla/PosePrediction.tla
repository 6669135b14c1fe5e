---------------------------- MODULE PosePrediction ----------------------------
(* services/pose_prediction: get_fast_pose in several threads, and the offset  *)
(* that turns the first valid pose straight ahead.  An orientation is a number *)
(* of steps of a full turn; positions, the axes and the integration are left   *)
(* out.                                                                        *)
EXTENDS Integers

CONSTANTS
    TurnSteps,  \* bound: steps of a full turn
    Askers,     \* threads that ask for poses: application, time warp, ...
    MaxSets     \* bound: calls of set_offset

ASSUME PoseAssumption == TurnSteps \in Nat \ {0} /\ MaxSets \in Nat

Turns == 0..(TurnSteps - 1)
NoTurn == -1
Back(turn) == (TurnSteps - turn) % TurnSteps

VARIABLES
    sensors,    \* how many of slow_pose and imu_raw have been published
    offset, first_time,
    predicted,  \* the orientation a thread has computed with apply_offset, or NoTurn
    raw,        \* the same without the offset
    locking,    \* threads that saw first_time and go for offset_mutex_
    shownTo,    \* the orientation last returned to a thread, or NoTurn
    origin,     \* the raw orientation of the first valid pose, or NoTurn
    sets

poseVars == <<sensors, offset, first_time, predicted, raw, locking, shownTo, origin, sets>>

Nowhere == [t \in Askers |-> NoTurn]

PoseInit ==
    /\ sensors = 0
    /\ offset = 0
    /\ first_time = TRUE
    /\ predicted = Nowhere
    /\ raw = Nowhere
    /\ locking = {}
    /\ shownTo = Nowhere
    /\ origin = NoTurn
    /\ sets = 0

SensorPublishes ==
    /\ sensors < 2
    /\ sensors' = sensors + 1
    /\ UNCHANGED <<offset, first_time, predicted, raw, locking, shownTo, origin, sets>>

\* Without slow_pose the pose returned is the identity, corrected; without imu_raw it is
\* slow_pose, corrected.  Neither counts as the first valid pose.
GetUnpredicted(t, turn) ==
    /\ sensors < 2
    /\ sensors = 0 => turn = 0
    /\ shownTo' = [shownTo EXCEPT ![t] = (turn + offset) % TurnSteps]
    /\ UNCHANGED <<sensors, offset, first_time, predicted, raw, locking, origin, sets>>

\* get_fast_pose up to correct_pose
Predict(t, turn) ==
    /\ sensors = 2
    /\ predicted[t] = NoTurn
    /\ predicted' = [predicted EXCEPT ![t] = (turn + offset) % TurnSteps]
    /\ raw' = [raw EXCEPT ![t] = turn]
    /\ UNCHANGED <<sensors, offset, first_time, locking, shownTo, origin, sets>>

Returns(t) ==
    /\ shownTo' = [shownTo EXCEPT ![t] = predicted[t]]
    /\ predicted' = [predicted EXCEPT ![t] = NoTurn]
    /\ raw' = [raw EXCEPT ![t] = NoTurn]

\* The first look at first_time
CheckFirst(t) ==
    /\ predicted[t] # NoTurn
    /\ t \notin locking
    /\ IF first_time
       THEN locking' = locking \cup {t} /\ UNCHANGED <<shownTo, predicted, raw>>
       ELSE Returns(t) /\ UNCHANGED locking
    /\ UNCHANGED <<sensors, offset, first_time, origin, sets>>

\* Mutant: no second look.
IsFirstUnchecked == TRUE

\* The second look, with the lock
IsFirst == first_time

LockFirst(t) ==
    /\ t \in locking
    /\ locking' = locking \ {t}
    /\ offset' = IF IsFirst THEN Back(predicted[t]) ELSE offset
    /\ first_time' = FALSE
    /\ origin' = IF first_time THEN raw[t] ELSE origin
    /\ Returns(t)
    /\ UNCHANGED <<sensors, sets>>

\* The application hands back a pose that it was shown.
SetOffset(t) ==
    /\ sets < MaxSets
    /\ shownTo[t] # NoTurn
    /\ sets' = sets + 1
    /\ offset' = Back((shownTo[t] + Back(offset)) % TurnSteps)
    /\ UNCHANGED <<sensors, first_time, predicted, raw, locking, shownTo, origin>>

PoseNext ==
    \/ SensorPublishes
    \/ \E t \in Askers :
        \/ \E turn \in Turns : GetUnpredicted(t, turn) \/ Predict(t, turn)
        \/ CheckFirst(t) \/ LockFirst(t) \/ SetOffset(t)

PoseSpec == PoseInit /\ [][PoseNext]_poseVars

------------------------------------------------------------------------------
PoseTypeOK ==
    /\ sensors \in 0..2
    /\ offset \in Turns
    /\ first_time \in BOOLEAN
    /\ {predicted, raw, shownTo} \subseteq [Askers -> Turns \cup {NoTurn}]
    /\ locking \subseteq Askers
    /\ origin \in Turns \cup {NoTurn}
    /\ sets \in 0..MaxSets

\* As long as the application does not move it, straight ahead is where the first valid
\* pose looked, although several threads ask for the first pose at once.
OriginKept ==
    ~first_time /\ sets = 0 => (origin + offset) % TurnSteps = 0
===============================================================================
