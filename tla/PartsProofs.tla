------------------------------ MODULE PartsProofs ------------------------------
(* Proofs about the components of Parts: the pool of images of offloaded        *)
(* rendering, the pairing of decoded frames, the offset of a prediction, the    *)
(* registry of the switchboard and networked topics over UDP; and the types of  *)
(* them all with VioProofs and AdaProofs.                                       *)
EXTENDS Parts, VioProofs, AdaProofs

------------------------------------------------------------------------------
(* Proofs about BufferPool for every pool of three images or more and any      *)
(* number of frames.                                                           *)

\* Who holds which image: the source its own, the user its own, and the only available
\* one is the latest, which is in post-processing when it is not available.
Holders ==
    \A i \in Images :
        /\ image_states[i] = "SRC_IN_FLIGHT" <=> i = srcImage
        /\ image_states[i] = "POST_PROCESSING_IN_FLIGHT" <=> i = useImage
        /\ image_states[i] = "AVAILABLE" => i = latest_decoded_image

LatestHeld ==
    /\ latest_decoded_image # NoImage =>
            image_states[latest_decoded_image] \in {"AVAILABLE", "POST_PROCESSING_IN_FLIGHT"}
    /\ useImage # NoImage => latest_decoded_image # NoImage

\* The pixels of a finished image are the frame of its pose.
Drawn ==
    /\ \A i \in Images :
        image_states[i] \in {"AVAILABLE", "POST_PROCESSING_IN_FLIGHT"} =>
            contents[i] = image_data[i]
    /\ srcImage # NoImage => contents[srcImage] \in {0, frames} /\ frames > 0
    /\ useImage # NoImage => usePose = image_data[useImage]

\* Poses only get newer, from what was shown to what the source is drawing.
Newer ==
    /\ shown.frame = shown.pose
    /\ shown.pose <= usePose
    /\ \A i \in Images : image_data[i] <= frames
    /\ srcImage # NoImage => \A i \in Images : image_data[i] < frames
    /\ srcImage # NoImage => usePose < frames
    /\ usePose <= frames
    /\ latest_decoded_image = NoImage => usePose = 0
    /\ latest_decoded_image # NoImage =>
        /\ image_data[latest_decoded_image] >= usePose
        /\ passesLast /\ latest_decoded_image # lastImage =>
                image_data[latest_decoded_image] > usePose

PoolInv == PoolTypeOK /\ Holders /\ LatestHeld /\ Drawn /\ Newer

LEMMA ImagesAreNat == Images \subseteq Nat /\ NoImage \notin Images /\ NoImage \in Int
BY PoolAssumption DEF Images, NoImage

LEMMA PoolInitial == PoolInit => PoolInv
BY PoolAssumption DEF PoolInit, PoolInv, PoolTypeOK, Holders, LatestHeld, Drawn, Newer,
   Images, NoImage, ImageStates

\* SrcAcquire: a free image is nobody's, and is not the latest.
LEMMA PoolAcquire == PoolInv /\ SrcAcquire => PoolInv'
<1> SUFFICES ASSUME PoolInv, SrcAcquire PROVE PoolInv'
    OBVIOUS
<1> USE PoolAssumption, ImagesAreNat DEF SrcAcquire, useVars
<1>1. PICK i \in Images :
        /\ image_states[i] = "FREE"
        /\ image_states' = [image_states EXCEPT ![i] = "SRC_IN_FLIGHT"]
        /\ contents' = [contents EXCEPT ![i] = 0]
        /\ srcImage' = i
    OBVIOUS
<1>2. PoolTypeOK'
    BY <1>1 DEF PoolInv, PoolTypeOK, ImageStates
<1>3. Holders'
    BY <1>1 DEF PoolInv, PoolTypeOK, Holders
<1>4. LatestHeld'
    BY <1>1 DEF PoolInv, PoolTypeOK, LatestHeld
<1>5. Drawn'
  <2>1. \A j \in Images : image_states'[j] \in {"AVAILABLE", "POST_PROCESSING_IN_FLIGHT"} =>
            contents'[j] = image_data'[j]
      BY <1>1 DEF PoolInv, PoolTypeOK, Drawn
  <2>2. contents'[srcImage'] = 0 /\ frames' > 0
      BY <1>1 DEF PoolInv, PoolTypeOK
  <2> QED BY <2>1, <2>2 DEF PoolInv, Drawn
<1>6. Newer'
    BY <1>1 DEF PoolInv, PoolTypeOK, Newer
<1> QED BY <1>2, <1>3, <1>4, <1>5, <1>6 DEF PoolInv

\* SrcDraw: the pixels of the source's own image become the frame.
LEMMA PoolDraw == PoolInv /\ SrcDraw => PoolInv'
<1> SUFFICES ASSUME PoolInv, SrcDraw PROVE PoolInv'
    OBVIOUS
<1> USE PoolAssumption, ImagesAreNat DEF SrcDraw, srcVars, useVars
<1>1. PoolTypeOK' /\ Holders' /\ LatestHeld' /\ Newer'
    BY DEF PoolInv, PoolTypeOK, Holders, LatestHeld, Newer
<1>2. Drawn'
    BY DEF PoolInv, PoolTypeOK, Holders, Drawn
<1> QED BY <1>1, <1>2 DEF PoolInv

\* SrcRelease: the frame is the newest of all and becomes the only available one.
LEMMA PoolRelease == PoolInv /\ SrcRelease => PoolInv'
<1> SUFFICES ASSUME PoolInv, SrcRelease PROVE PoolInv'
    OBVIOUS
<1> USE PoolAssumption, ImagesAreNat DEF SrcRelease, useVars
<1>1. \A i \in Images : image_states'[i] = Released(i)
    OBVIOUS
<1>2. PoolTypeOK'
    BY DEF PoolInv, PoolTypeOK, ImageStates, Released
<1>3. Holders'
    BY <1>1 DEF PoolInv, PoolTypeOK, Holders, Released
<1>4. LatestHeld'
    BY <1>1 DEF PoolInv, PoolTypeOK, LatestHeld, Released
<1>5. Drawn'
    BY <1>1 DEF PoolInv, PoolTypeOK, Holders, Drawn, Released
<1>6. Newer'
    BY DEF PoolInv, PoolTypeOK, Newer
<1> QED BY <1>2, <1>3, <1>4, <1>5, <1>6 DEF PoolInv

\* PostAcquire: the latest image is available, and no older than the one before.
LEMMA PoolPostAcquire == PoolInv /\ PostAcquire => PoolInv'
<1> SUFFICES ASSUME PoolInv, PostAcquire PROVE PoolInv'
    OBVIOUS
<1> USE PoolAssumption, ImagesAreNat DEF PostAcquire, srcVars
<1>1. latest_decoded_image \in Images /\ image_states[latest_decoded_image] = "AVAILABLE"
    BY DEF PoolInv, PoolTypeOK, Holders, LatestHeld
<1>2. PoolTypeOK'
    BY DEF PoolInv, PoolTypeOK, ImageStates
<1>3. Holders' /\ LatestHeld'
    BY <1>1 DEF PoolInv, PoolTypeOK, Holders, LatestHeld
<1>4. Drawn'
    BY <1>1 DEF PoolInv, PoolTypeOK, Drawn
<1>5. Newer'
    BY <1>1 DEF PoolInv, PoolTypeOK, Newer
<1> QED BY <1>2, <1>3, <1>4, <1>5 DEF PoolInv

LEMMA PoolRead == PoolInv /\ PostRead => PoolInv'
<1> SUFFICES ASSUME PoolInv, PostRead PROVE PoolInv'
    OBVIOUS
<1> USE PoolAssumption, ImagesAreNat DEF PostRead, srcVars
<1>1. contents[useImage] = usePose
    BY DEF PoolInv, PoolTypeOK, Holders, Drawn
<1>2. PoolTypeOK' /\ Holders' /\ LatestHeld' /\ Drawn'
    BY DEF PoolInv, PoolTypeOK, Holders, LatestHeld, Drawn
<1>3. Newer'
    BY <1>1 DEF PoolInv, PoolTypeOK, Newer
<1> QED BY <1>2, <1>3 DEF PoolInv

\* PostRelease: an image that is no longer the latest is free again.
LEMMA PoolPostRelease == PoolInv /\ PostRelease => PoolInv'
<1> SUFFICES ASSUME PoolInv, PostRelease PROVE PoolInv'
    OBVIOUS
<1> USE PoolAssumption, ImagesAreNat DEF PostRelease, srcVars
<1>1. PoolTypeOK'
    BY DEF PoolInv, PoolTypeOK, ImageStates
<1>2. Holders' /\ LatestHeld'
    BY DEF PoolInv, PoolTypeOK, Holders, LatestHeld
<1>3. Drawn'
    BY DEF PoolInv, PoolTypeOK, Holders, Drawn
<1>4. Newer'
    BY DEF PoolInv, PoolTypeOK, Newer
<1> QED BY <1>1, <1>2, <1>3, <1>4 DEF PoolInv

LEMMA PoolStep == PoolInv /\ [PoolNext]_poolVars => PoolInv'
<1> SUFFICES ASSUME PoolInv, [PoolNext]_poolVars PROVE PoolInv'
    OBVIOUS
<1>1. CASE UNCHANGED poolVars
    BY <1>1 DEF poolVars, srcVars, useVars, PoolInv, PoolTypeOK, Holders, LatestHeld,
                Drawn, Newer
<1>2. CASE PoolNext
    BY <1>1, <1>2, PoolAcquire, PoolDraw, PoolRelease, PoolPostAcquire, PoolRead,
       PoolPostRelease DEF PoolNext, PoolFinished
<1> QED BY <1>1, <1>2

\* Who holds which image, what its pixels are and how new its pose is, at every moment:
\* the invariant of buffer_pool that the others follow from.
THEOREM PoolInductive == PoolSpec => []PoolInv
BY PoolInitial, PoolStep, PTL DEF PoolSpec

LEMMA AssertsOfPool == PoolInv => PoolAsserts
<1> SUFFICES ASSUME PoolInv PROVE PoolAsserts
    OBVIOUS
<1> USE PoolAssumption, ImagesAreNat
<1>1. ASSUME srcImage = NoImage PROVE \E i \in Images : image_states[i] = "FREE"
  <2>1. \A i \in Images : image_states[i] = "FREE" \/ i = useImage \/ i = latest_decoded_image
      BY <1>1 DEF PoolInv, PoolTypeOK, Holders, ImageStates
  <2>2. 0 \in Images /\ 1 \in Images /\ 2 \in Images
      BY DEF Images
  <2> QED BY <2>1, <2>2
<1>2. useImage = NoImage /\ latest_decoded_image # NoImage =>
          image_states[latest_decoded_image] = "AVAILABLE"
    BY DEF PoolInv, PoolTypeOK, Holders, LatestHeld
<1>3. /\ srcImage # NoImage => image_states[srcImage] = "SRC_IN_FLIGHT"
      /\ useImage # NoImage => image_states[useImage] = "POST_PROCESSING_IN_FLIGHT"
    BY DEF PoolInv, PoolTypeOK, Holders
<1> QED BY <1>1, <1>2, <1>3 DEF PoolAsserts

\* The assertions in buffer_pool's four operations hold, with any number of images from
\* three on: the image in post-processing and the latest are two at most.
THEOREM PoolAssertsHold == PoolSpec => []PoolAsserts
BY AssertsOfPool, PoolInductive, PTL

LEMMA PairedOfPool == PoolInv => FramePosePaired
BY DEF PoolInv, Newer, FramePosePaired

\* A frame that is displayed or sent is complete and carries the pose it was drawn for.
THEOREM PoolPairs == PoolSpec => []FramePosePaired
BY PairedOfPool, PoolInductive, PTL

LEMMA ForwardOfPool ==
    PoolInv /\ [PoolNext]_poolVars =>
        [/\ shown'.frame >= shown.frame
         /\ passesLast /\ useImage = NoImage /\ useImage' # NoImage => usePose' > usePose]_poolVars
<1> SUFFICES ASSUME PoolInv, PoolNext, ~UNCHANGED poolVars
             PROVE  /\ shown'.frame >= shown.frame
                    /\ passesLast /\ useImage = NoImage /\ useImage' # NoImage =>
                          usePose' > usePose
    OBVIOUS
<1> USE PoolAssumption, ImagesAreNat
<1>1. CASE PostAcquire
    BY <1>1 DEF PostAcquire, IsNew, PoolInv, PoolTypeOK, Newer
<1>2. CASE PostRead
  <2>1. contents[useImage] = usePose
      BY <1>2 DEF PostRead, PoolInv, PoolTypeOK, Holders, Drawn
  <2> QED BY <1>2, <2>1 DEF PostRead, PoolInv, PoolTypeOK, Newer
<1>3. CASE SrcAcquire \/ SrcDraw \/ SrcRelease \/ PostRelease \/ PoolFinished
    BY <1>3 DEF SrcAcquire, SrcDraw, SrcRelease, PostRelease, PoolFinished, poolVars,
                useVars, PoolInv, PoolTypeOK
<1> QED BY <1>1, <1>2, <1>3 DEF PoolNext

\* Displays never go back, and the server never sends a frame twice.
THEOREM PoolForward == PoolSpec => ShownForward
BY ForwardOfPool, PoolInductive, PTL DEF PoolSpec, ShownForward

------------------------------------------------------------------------------
(* Both halves of an image come together: between two calls of                 *)
(* receive_sr_input each decoder thread hands over one sample, and a flag is   *)
(* up exactly while its half waits for the other.                              *)

PairShape ==
    /\ calls \in Nat
    /\ img_ready \in BOOLEAN /\ callerWaits \in BOOLEAN
    /\ img \in [Sinks -> Nat]
    /\ sink_ready \in [Sinks -> BOOLEAN]

\* Nothing is under way: both halves of all images have been handed over.
Rest == [s \in Sinks |-> calls]

AtRest  == ~callerWaits /\ ~img_ready /\ img = Rest /\ taken = Rest /\ sink_ready = Neither
Decoding ==
    /\ callerWaits /\ ~img_ready
    /\ calls # 0
    /\ \A s \in Sinks : img[s] = IF sink_ready[s] THEN calls ELSE calls - 1
    /\ sink_ready # [s \in Sinks |-> TRUE]
Decoded  == callerWaits /\ img_ready /\ img = Rest /\ img_dst = Rest /\ sink_ready = Neither

PairInv == PairShape /\ (AtRest \/ Decoding \/ Decoded)

LEMMA PairInitial == PairInit => PairInv
<1> SUFFICES ASSUME PairInit PROVE PairInv
    OBVIOUS
<1>1. AtRest
    BY DEF PairInit, AtRest, Rest, NoPair
<1>2. PairShape
    BY DEF PairInit, PairShape, NoPair, Neither
<1> QED BY <1>1, <1>2 DEF PairInv

LEMMA PairPush == ASSUME PairInv, PushPair PROVE PairInv'
<1>1. AtRest
    BY DEF PushPair, PairInv, Decoding, Decoded
<1>2. Decoding'
    BY <1>1 DEF PushPair, decoderVars, Decoding, AtRest, Rest, Neither, PairInv, PairShape,
                Sinks
<1>3. PairShape'
    BY DEF PushPair, decoderVars, PairInv, PairShape
<1> QED BY <1>2, <1>3 DEF PairInv

LEMMA PairTake == ASSUME PairInv, TakePair PROVE PairInv'
<1>1. Decoded
    BY DEF TakePair, PairInv, AtRest, Decoding
<1>2. AtRest'
    BY <1>1 DEF TakePair, decoderVars, AtRest, Decoded, Rest
<1>3. PairShape'
    BY DEF TakePair, decoderVars, PairInv, PairShape
<1> QED BY <1>2, <1>3 DEF PairInv

LEMMA PairAppsink == ASSUME PairInv, NEW s \in Sinks, Appsink(s) PROVE PairInv'
<1> DEFINE ready == [sink_ready EXCEPT ![s] = TRUE]
<1>1. img[s] < calls /\ img' = [img EXCEPT ![s] = @ + 1]
    BY DEF Appsink
<1>2. calls' = calls /\ taken' = taken /\ callerWaits' = callerWaits
    BY DEF Appsink, callerVars
<1>3. Decoding
    BY <1>1 DEF PairInv, PairShape, AtRest, Decoded, Rest, Sinks
<1>4. ready \in [Sinks -> BOOLEAN] /\ ready[s]
    BY DEF PairInv, PairShape
<1>5. img' \in [Sinks -> Nat] /\ calls \in Nat
    BY <1>1 DEF PairInv, PairShape
<1>6. \A o \in Sinks : img'[o] = IF ready[o] THEN calls ELSE calls - 1
    BY <1>1, <1>3 DEF Decoding, PairInv, PairShape, Sinks
<1> HIDE DEF ready
<1>7. CASE \A o \in Sinks : ready[o]
    <2>1. img_dst' = img' /\ img_ready' = TRUE /\ sink_ready' = Neither
        BY <1>7 DEF Appsink, ready, Cleared
    <2>2. img' = Rest
        BY <1>5, <1>6, <1>7 DEF Rest
    <2>3. Decoded'
        BY <1>2, <1>3, <2>1, <2>2 DEF Decoded, Decoding, Rest
    <2>4. PairShape'
        BY <1>2, <1>5, <2>1 DEF PairShape, PairInv, Neither
    <2> QED BY <2>3, <2>4 DEF PairInv
<1>8. CASE ~ \A o \in Sinks : ready[o]
    <2>1. img_ready' = img_ready /\ sink_ready' = ready
        BY <1>8 DEF Appsink, ready
    <2>2. ready # [o \in Sinks |-> TRUE]
        BY <1>8
    <2>3. Decoding'
        BY <1>2, <1>3, <1>6, <2>1, <2>2 DEF Decoding
    <2>4. PairShape'
        BY <1>2, <1>4, <1>5, <2>1 DEF PairShape, PairInv
    <2> QED BY <2>3, <2>4 DEF PairInv
<1> QED BY <1>7, <1>8

LEMMA PairStep == PairInv /\ [PairNext]_pairVars => PairInv'
<1> SUFFICES ASSUME PairInv, [PairNext]_pairVars PROVE PairInv'
    OBVIOUS
<1>1. CASE UNCHANGED <<callerVars, img_ready, img_dst, img, sink_ready>>
    BY <1>1 DEF callerVars, PairInv, PairShape, AtRest, Decoding, Decoded, Rest
<1>2. ASSUME NEW s \in Sinks, AppsinkWakes(s) PROVE PairInv'
    BY <1>1, <1>2 DEF AppsinkWakes
<1>3. CASE PairStops \/ UNCHANGED pairVars
    BY <1>1, <1>3 DEF PairStops, pairVars, decoderVars
<1> QED
    BY <1>2, <1>3, PairPush, PairTake, PairAppsink DEF PairNext

\* However the two decoder threads and receive_sr_input interleave, and although a
\* sink may wait for the flags of a later image, no flag is up between two images.
THEOREM PairInductive == PairSpec => []PairInv
BY PairInitial, PairStep, PTL DEF PairSpec

LEMMA MatchOfPair == PairInv => PairsMatch
BY DEF PairInv, PairsMatch, AtRest, Decoding, Decoded, Rest

\* Every image receive_sr_input puts together has the two halves it pushed last, for
\* any number of images.
THEOREM PairsAlwaysMatch == PairSpec => []PairsMatch
BY MatchOfPair, PairInductive, PTL

------------------------------------------------------------------------------
(* Straight ahead is where the first valid pose looked, for any number of      *)
(* threads that ask at once and any resolution of the turn.                    *)

PoseShape ==
    /\ offset \in Turns
    /\ first_time \in BOOLEAN
    /\ predicted \in [Askers -> Turns \cup {NoTurn}]
    /\ raw \in [Askers -> Turns \cup {NoTurn}]
    /\ shownTo \in [Askers -> Turns \cup {NoTurn}]
    /\ locking \subseteq {t \in Askers : predicted[t] # NoTurn}
    /\ origin \in Turns \cup {NoTurn}
    /\ sets \in Nat

\* Until the first valid pose is returned a prediction has no offset in it.
Unturned ==
    first_time /\ sets = 0 =>
        /\ offset = 0
        /\ \A t \in Askers : predicted[t] # NoTurn => predicted[t] = raw[t]

PoseInv == PoseShape /\ Unturned /\ OriginKept

LEMMA ModOfTurn == \A n \in Turns : n % TurnSteps = n
BY PoseAssumption DEF Turns

LEMMA ModIsTurn == \A n \in Nat : n % TurnSteps \in Turns
BY PoseAssumption DEF Turns

LEMMA ModOfFull == TurnSteps % TurnSteps = 0
BY PoseAssumption

LEMMA BackIsTurn == \A p \in Turns : Back(p) \in Turns /\ (p + Back(p)) % TurnSteps = 0
<1> SUFFICES ASSUME NEW p \in Turns PROVE Back(p) \in Turns /\ (p + Back(p)) % TurnSteps = 0
    OBVIOUS
<1>1. CASE p = 0
    <2>1. Back(p) = 0
        BY <1>1, ModOfFull, PoseAssumption DEF Back
    <2> QED BY <1>1, <2>1, ModOfTurn, PoseAssumption DEF Turns
<1>2. CASE p # 0
    <2>1. TurnSteps - p \in Turns
        BY <1>2, PoseAssumption DEF Turns
    <2>2. Back(p) = TurnSteps - p
        BY <2>1, ModOfTurn DEF Back
    <2>3. p + Back(p) = TurnSteps
        BY <2>2, PoseAssumption DEF Turns
    <2> QED BY <2>1, <2>2, <2>3, ModOfFull
<1> QED BY <1>1, <1>2

LEMMA PoseInitial == PoseInit => PoseInv
BY PoseAssumption
DEF PoseInit, PoseInv, PoseShape, Unturned, OriginKept, Nowhere, Turns, NoTurn

LEMMA PoseLockFirst ==
    ASSUME PoseInv, NEW t \in Askers, LockFirst(t)
    PROVE  PoseInv'
<1> USE DEF PoseInv, PoseShape
<1>1. predicted[t] \in Turns /\ predicted[t] # NoTurn
    BY DEF LockFirst
<1>2. /\ shownTo' = [shownTo EXCEPT ![t] = predicted[t]]
      /\ predicted' = [predicted EXCEPT ![t] = NoTurn]
      /\ raw' = [raw EXCEPT ![t] = NoTurn]
    BY DEF LockFirst, Returns
<1>3. CASE first_time
    <2>1. offset' = Back(predicted[t]) /\ origin' = raw[t] /\ first_time' = FALSE /\ sets' = sets
        BY <1>3 DEF LockFirst, IsFirst
    <2>2. offset' \in Turns /\ (predicted[t] + offset') % TurnSteps = 0
        BY <1>1, <2>1, BackIsTurn
    <2>3. OriginKept'
        BY <1>1, <1>3, <2>1, <2>2 DEF Unturned, OriginKept
    <2>4. PoseShape'
        BY <1>1, <1>2, <2>1, <2>2 DEF LockFirst
    <2> QED BY <2>1, <2>3, <2>4 DEF Unturned
<1>4. CASE ~first_time
    <2>1. UNCHANGED <<offset, origin, first_time, sets>>
        BY <1>4 DEF LockFirst, IsFirst
    <2>2. PoseShape'
        BY <1>1, <1>2, <2>1 DEF LockFirst
    <2> QED BY <1>4, <2>1, <2>2 DEF Unturned, OriginKept
<1> QED BY <1>3, <1>4

LEMMA PoseStep == PoseInv /\ [PoseNext]_poseVars => PoseInv'
<1> SUFFICES ASSUME PoseInv, [PoseNext]_poseVars PROVE PoseInv'
    OBVIOUS
<1> USE DEF PoseInv, PoseShape, Unturned
<1>1. CASE SensorPublishes
    BY <1>1 DEF SensorPublishes, OriginKept
<1>2. ASSUME NEW t \in Askers, NEW turn \in Turns, GetUnpredicted(t, turn) PROVE PoseInv'
    <2>1. (turn + offset) % TurnSteps \in Turns
        BY ModIsTurn DEF Turns
    <2> QED BY <1>2, <2>1 DEF GetUnpredicted, OriginKept
<1>3. ASSUME NEW t \in Askers, NEW turn \in Turns, Predict(t, turn) PROVE PoseInv'
    <2>1. (turn + offset) % TurnSteps \in Turns
        BY ModIsTurn DEF Turns
    <2>2. offset = 0 => (turn + offset) % TurnSteps = turn
        BY ModOfTurn DEF Turns
    <2>3. turn # NoTurn /\ \A n \in Turns : n # NoTurn
        BY DEF Turns, NoTurn
    <2>4. PoseShape'
        BY <1>3, <2>1, <2>3 DEF Predict
    <2>5. Unturned'
        BY <1>3, <2>2 DEF Predict
    <2>6. OriginKept'
        BY <1>3 DEF Predict, OriginKept
    <2> QED BY <2>4, <2>5, <2>6
<1>4. ASSUME NEW t \in Askers, CheckFirst(t) PROVE PoseInv'
    <2>1. CASE first_time
        BY <1>4, <2>1 DEF CheckFirst, OriginKept
    <2>2. CASE ~first_time
        BY <1>4, <2>2 DEF CheckFirst, Returns, OriginKept
    <2> QED BY <2>1, <2>2
<1>5. ASSUME NEW t \in Askers, LockFirst(t) PROVE PoseInv'
    BY <1>5, PoseLockFirst
<1>6. ASSUME NEW t \in Askers, SetOffset(t) PROVE PoseInv'
    <2>1. shownTo[t] \in Turns
        BY <1>6 DEF SetOffset
    <2>2. Back(offset) \in Turns
        BY BackIsTurn
    <2>3. (shownTo[t] + Back(offset)) % TurnSteps \in Turns
        BY <2>1, <2>2, ModIsTurn DEF Turns
    <2>4. offset' \in Turns
        BY <1>6, <2>3, BackIsTurn DEF SetOffset
    <2>5. sets' \in Nat /\ sets' # 0
        BY <1>6 DEF SetOffset
    <2> QED BY <1>6, <2>4, <2>5 DEF SetOffset, OriginKept
<1>7. CASE UNCHANGED poseVars
    BY <1>7 DEF poseVars, OriginKept
<1> QED BY <1>1, <1>2, <1>3, <1>4, <1>5, <1>6, <1>7 DEF PoseNext

\* The double look at first_time_ gives one origin to all threads: the offset turns the
\* first valid pose straight ahead until the application sets another one.
THEOREM PoseOriginKept == PoseSpec => []OriginKept
<1>1. PoseInv => OriginKept
    BY DEF PoseInv
<1> QED BY <1>1, PoseInitial, PoseStep, PTL DEF PoseSpec

------------------------------------------------------------------------------
(* A name has one topic for ever: every handle holds the topic that the        *)
(* registry has for its name now, and an entry never changes once it is made.  *)

RegShape ==
    /\ registry \in [Names -> Nat]
    /\ topicsMade \in Nat
    /\ wants \in [RegThreads -> Names \cup {NoName}]
    /\ missed \subseteq {t \in RegThreads : wants[t] # NoName}

HandlesRegistered ==
    \A h \in handles : h.name \in Names /\ h.topic # 0 /\ h.topic = registry[h.name]

RegInv == RegShape /\ HandlesRegistered

LEMMA RegInitial == RegInit => RegInv
BY DEF RegInit, RegInv, RegShape, HandlesRegistered

LEMMA RegStep == RegInv /\ [RegNext]_regVars => RegInv'
<1> SUFFICES ASSUME RegInv, [RegNext]_regVars PROVE RegInv'
    OBVIOUS
<1> USE DEF RegInv, RegShape, HandlesRegistered
<1>1. ASSUME NEW t \in RegThreads, NEW n \in Names, Ask(t, n) PROVE RegInv'
    BY <1>1 DEF Ask
<1>2. ASSUME NEW t \in RegThreads, Lookup(t) PROVE RegInv'
    <2>1. wants[t] \in Names
        BY <1>2 DEF Lookup
    <2>2. CASE registry[wants[t]] # 0
        BY <1>2, <2>1, <2>2 DEF Lookup, Returned
    <2>3. CASE registry[wants[t]] = 0
        BY <1>2, <2>1, <2>3 DEF Lookup
    <2> QED BY <2>2, <2>3
<1>3. ASSUME NEW t \in RegThreads, Create(t) PROVE RegInv'
    <2> DEFINE n == wants[t]
               topic == Emplaced(n)
    <2>1. n \in Names
        BY <1>3 DEF Create
    <2>2. topic \in Nat /\ topic # 0
        BY <2>1 DEF Emplaced
    <2>3. registry[n] # 0 => topic = registry[n]
        BY DEF Emplaced
    <2>4. registry' = [registry EXCEPT ![n] = topic]
        BY <1>3 DEF Create
    <2>5. handles' = handles \cup {[name |-> n, topic |-> topic]}
        BY <1>3 DEF Create, Returned
    <2>6. wants' = [wants EXCEPT ![t] = NoName] /\ missed' = missed \ {t}
        BY <1>3 DEF Create, Returned
    <2>7. topicsMade' \in Nat
        BY <1>3, <2>2 DEF Create
    <2> HIDE DEF n, topic
    <2>8. RegShape'
        BY <2>1, <2>2, <2>4, <2>6, <2>7
    <2>9. HandlesRegistered'
        BY <2>1, <2>2, <2>3, <2>4, <2>5
    <2> QED BY <2>8, <2>9
<1>4. CASE RegStop
    BY <1>4 DEF RegStop
<1>5. CASE RegStopStep
    BY <1>5 DEF RegStopStep, RegStopReturns, TellCallback, JoinCallback
<1>6. CASE RegStops \/ UNCHANGED regVars
    BY <1>6 DEF RegStops, regVars
<1> QED
    BY <1>1, <1>2, <1>3, <1>4, <1>5, <1>6 DEF RegNext, RegThreadStep

\* Every handle holds the topic that is registered under its name at the moment
\* (try_register_topic), in every state, for any names and threads.
THEOREM RegInductive == RegSpec => []RegInv
BY RegInitial, RegStep, PTL DEF RegSpec

LEMMA OneTopicOfReg == RegInv => OneTopicPerName
BY DEF RegInv, HandlesRegistered, OneTopicPerName

\* All readers and writers of a name have the same topic, however the two steps of
\* try_register_topic interleave and whenever stop() runs.
THEOREM RegOneTopic == RegSpec => []OneTopicPerName
BY OneTopicOfReg, RegInductive, PTL

------------------------------------------------------------------------------
(* The method of a networked topic is right from the moment a host takes it    *)
(* for networked, whatever datagrams the network loses, delays or mixes.       *)

UdpShape ==
    /\ networked \in [Hosts -> SUBSET UdpTopics]
    /\ configs \in [Hosts -> [UdpTopics -> Methods \cup {NoMethod}]]

\* The network carries only datagrams about topics.
UdpNetOK == \A d \in DOMAIN net : d.topic \in UdpTopics

UdpInv == UdpShape /\ UdpMethodAgrees

LEMMA UdpReceiveKeeps ==
    ASSUME UdpInv, NEW h \in Hosts, NEW d, d.topic \in UdpTopics, UdpReceive(h, d)
    PROVE  UdpInv'
<1> USE DEF UdpInv, UdpShape, UdpMethodAgrees
<1> DEFINE t == d.topic
<1>1. t \in UdpTopics
    OBVIOUS
<1>2. Method[t] \in Methods /\ Method[t] # NoMethod
    BY <1>1, UdpAssumption DEF Methods, NoMethod
<1>3. networked' = [networked EXCEPT ![h] = IF d.kind = "control" THEN @ \cup {t} ELSE @]
    BY DEF UdpReceive
<1>4. CASE configs' = [configs EXCEPT ![h][t] = ConfigOf(h, d)]
    <2>1. ConfigOf(h, d) \in Methods
        BY <1>1, <1>2 DEF ConfigOf, Methods, NoMethod
    <2>2. d.kind = "control" \/ t \in networked[h] => ConfigOf(h, d) = Method[t]
        BY <1>1, <1>2 DEF ConfigOf
    <2> HIDE DEF t
    <2>3. UdpShape'
        BY <1>1, <1>3, <1>4, <2>1
    <2>4. ASSUME NEW g \in Hosts, NEW u \in networked'[g] PROVE configs'[g][u] = Method[u]
        <3>1. u \in UdpTopics
            BY <2>3
        <3>2. CASE g = h /\ u = t
            <4>1. d.kind = "control" \/ t \in networked[h]
                BY <1>3, <2>4, <3>2
            <4>2. configs'[g][u] = ConfigOf(h, d)
                BY <1>1, <1>4, <3>2
            <4> QED BY <4>1, <4>2, <2>2, <3>2
        <3>3. CASE ~(g = h /\ u = t)
            <4>1. u \in networked[g]
                BY <1>3, <2>4, <3>3
            <4>2. configs'[g][u] = configs[g][u]
                BY <1>1, <1>4, <3>1, <3>3
            <4> QED BY <4>1, <4>2
        <3> QED BY <3>2, <3>3
    <2> QED BY <2>3, <2>4
<1>5. CASE d.kind = "data" /\ UNCHANGED configs
    <2>1. networked' = networked
        BY <1>3, <1>5
    <2> QED BY <2>1, <1>5
<1> QED BY <1>4, <1>5 DEF UdpReceive

LEMMA UdpInitial == UdpInit => UdpInv /\ UdpNetOK
<1> SUFFICES ASSUME UdpInit PROVE UdpInv /\ UdpNetOK
    OBVIOUS
<1>1. UdpInv
    BY DEF UdpInit, UdpInv, UdpShape, UdpMethodAgrees
<1>2. DOMAIN net = {}
    BY DEF UdpInit, EmptyBag, SetToBag
<1> QED BY <1>1, <1>2 DEF UdpNetOK

LEMMA UdpTakenFrom ==
    ASSUME NEW B, NEW C PROVE DOMAIN (B (-) C) \subseteq DOMAIN B
BY DEF (-)

LEMMA UdpAddedTo ==
    ASSUME NEW B, NEW C PROVE DOMAIN (B (+) C) = DOMAIN B \cup DOMAIN C
BY DEF (+)

LEMMA UdpNetStep == UdpNetOK /\ [UdpNext]_udpVars => UdpNetOK'
<1> SUFFICES ASSUME UdpNetOK, [UdpNext]_udpVars PROVE UdpNetOK'
    OBVIOUS
<1> USE DEF UdpNetOK
<1>1. CASE UNCHANGED net
    BY <1>1
<1>2. ASSUME NEW C, net' = net (-) C PROVE UdpNetOK'
    BY <1>2, UdpTakenFrom
<1>3. ASSUME NEW C, net' = net (+) C, \A d \in DOMAIN C : d.topic \in UdpTopics
      PROVE  UdpNetOK'
    BY <1>3, UdpAddedTo
<1>4. ASSUME NEW h \in Hosts, NEW t \in UdpTopics, UdpTopicCreate(h, t) PROVE UdpNetOK'
    <2>1. \A d \in DOMAIN Announcements(h, t) : d.topic \in UdpTopics
        BY DEF Announcements, Datagram
    <2>2. UNCHANGED net \/ net' = net (+) Announcements(h, t)
        BY <1>4 DEF UdpTopicCreate
    <2> QED BY <1>1, <1>3, <2>1, <2>2
<1>5. ASSUME NEW h \in Hosts, NEW t \in UdpTopics, UdpTopicSend(h, t) PROVE UdpNetOK'
    <2> DEFINE C == SetToBag({Datagram(h, "data", t)})
    <2>1. \A d \in DOMAIN C : d.topic \in UdpTopics
        BY DEF SetToBag, Datagram
    <2>2. net' = net (+) C
        BY <1>5 DEF UdpTopicSend
    <2> QED BY <1>3, <2>1, <2>2
<1>6. ASSUME NEW h \in Hosts, NEW d, UdpReceive(h, d) PROVE UdpNetOK'
    BY <1>6, <1>2 DEF UdpReceive
<1>7. ASSUME NEW d, Lose(d) PROVE UdpNetOK'
    BY <1>7, <1>2 DEF Lose
<1>8. ASSUME NEW h \in Hosts, UdpStart(h) \/ UdpStop(h) PROVE UdpNetOK'
    BY <1>8, <1>1 DEF UdpStart, UdpStop
<1>9. CASE UdpFinished \/ UNCHANGED udpVars
    BY <1>9, <1>1 DEF UdpFinished, udpVars
<1> QED BY <1>4, <1>5, <1>6, <1>7, <1>8, <1>9 DEF UdpNext, UdpReceives

LEMMA UdpStep == UdpInv /\ UdpNetOK /\ [UdpNext]_udpVars => UdpInv'
<1> SUFFICES ASSUME UdpInv, UdpNetOK, [UdpNext]_udpVars PROVE UdpInv'
    OBVIOUS
<1>1. CASE UNCHANGED <<networked, configs>>
    BY <1>1 DEF UdpInv, UdpShape, UdpMethodAgrees
<1>2. ASSUME NEW h \in Hosts, UdpStart(h) PROVE UdpInv'
    BY <1>2 DEF UdpStart, UdpInv, UdpShape, UdpMethodAgrees
<1>3. ASSUME NEW h \in Hosts, NEW t \in UdpTopics, UdpTopicCreate(h, t) PROVE UdpInv'
    <2>1. Method[t] \in Methods
        BY UdpAssumption
    <2> QED BY <1>3, <2>1 DEF UdpTopicCreate, UdpInv, UdpShape, UdpMethodAgrees
<1>4. ASSUME NEW h \in Hosts, NEW d \in BagToSet(net), UdpReceive(h, d) PROVE UdpInv'
    <2>1. d.topic \in UdpTopics
        BY <1>4 DEF UdpNetOK, BagToSet
    <2> QED BY <1>4, <2>1, UdpReceiveKeeps
<1>5. ASSUME NEW h \in Hosts, NEW t \in UdpTopics, UdpTopicSend(h, t) PROVE UdpInv'
    BY <1>5, <1>1 DEF UdpTopicSend, hostVars
<1>6. ASSUME NEW d, Lose(d) PROVE UdpInv'
    BY <1>6, <1>1 DEF Lose, hostVars
<1>7. ASSUME NEW h \in Hosts, UdpStop(h) PROVE UdpInv'
    BY <1>7, <1>1 DEF UdpStop
<1>8. CASE UdpFinished \/ UNCHANGED udpVars
    BY <1>8, <1>1 DEF UdpFinished, udpVars, hostVars
<1> QED BY <1>2, <1>3, <1>4, <1>5, <1>6, <1>7, <1>8 DEF UdpNext, UdpReceives

\* On every host, for any number of starts, losses and messages, a topic that is taken
\* for a networked one has the serialization method of its writer.
THEOREM UdpMethodRight == UdpSpec => []UdpMethodAgrees
<1>1. UdpInv => UdpMethodAgrees
    BY DEF UdpInv
<1> QED BY <1>1, UdpInitial, UdpNetStep, UdpStep, PTL DEF UdpSpec

------------------------------------------------------------------------------
(* The types of the components' states with their bounds.                      *)

LEMMA PairTypesInitial == PairInit => PairTypeOK
<1> SUFFICES ASSUME PairInit PROVE PairTypeOK
    OBVIOUS
<1>1. 0 \in 0..MaxPairs
    BY PairingAssumption
<1>2. NoPair \in [Sinks -> 0..MaxPairs] /\ Neither \in [Sinks -> BOOLEAN]
    BY <1>1 DEF NoPair, Neither
<1> QED BY <1>1, <1>2 DEF PairInit, PairTypeOK

LEMMA PairTypes == PairTypeOK /\ [PairNext]_pairVars => PairTypeOK'
<1> SUFFICES ASSUME PairTypeOK, [PairNext]_pairVars PROVE PairTypeOK'
    OBVIOUS
<1> USE PairingAssumption DEF PairTypeOK
<1>1. CASE PushPair
    BY <1>1 DEF PushPair, decoderVars
<1>2. CASE TakePair
    BY <1>2 DEF TakePair, decoderVars
<1>3. ASSUME NEW s \in Sinks, Appsink(s) PROVE PairTypeOK'
    <2> DEFINE ready == [sink_ready EXCEPT ![s] = TRUE]
    <2>1. img' \in [Sinks -> 0..MaxPairs]
        BY <1>3 DEF Appsink
    <2>2. ready \in [Sinks -> BOOLEAN] /\ Neither \in [Sinks -> BOOLEAN]
        BY DEF Neither
    <2>3. /\ \/ img_dst' = img' /\ img_ready' = TRUE /\ sink_ready' = Neither
                /\ sinkWaits' = sinkWaits
             \/ img_dst' = img_dst /\ img_ready' = img_ready /\ sink_ready' = ready
                /\ sinkWaits' = sinkWaits \cup {s}
          /\ UNCHANGED callerVars
        BY <1>3 DEF Appsink, Cleared
    <2> HIDE DEF ready
    <2> QED BY <2>1, <2>2, <2>3 DEF callerVars
<1>4. ASSUME NEW s \in Sinks, AppsinkWakes(s) PROVE PairTypeOK'
    BY <1>4 DEF AppsinkWakes, callerVars
<1>5. CASE PairStops \/ UNCHANGED pairVars
    BY <1>5 DEF PairStops, pairVars, callerVars, decoderVars
<1> QED BY <1>1, <1>2, <1>3, <1>4, <1>5 DEF PairNext

PoseBounds == sensors \in 0..2 /\ sets \in 0..MaxSets

LEMMA PoseBoundsStep == PoseBounds /\ [PoseNext]_poseVars => PoseBounds'
<1> SUFFICES ASSUME PoseBounds, [PoseNext]_poseVars PROVE PoseBounds'
    OBVIOUS
<1> USE PoseAssumption DEF PoseBounds
<1>1. CASE SensorPublishes
    BY <1>1 DEF SensorPublishes
<1>2. ASSUME NEW t \in Askers, NEW turn \in Turns, GetUnpredicted(t, turn) \/ Predict(t, turn)
      PROVE  PoseBounds'
    BY <1>2 DEF GetUnpredicted, Predict
<1>3. ASSUME NEW t \in Askers, CheckFirst(t) \/ LockFirst(t) PROVE PoseBounds'
    BY <1>3 DEF CheckFirst, LockFirst
<1>4. ASSUME NEW t \in Askers, SetOffset(t) PROVE PoseBounds'
    BY <1>4 DEF SetOffset
<1>5. CASE UNCHANGED poseVars
    BY <1>5 DEF poseVars
<1> QED BY <1>1, <1>2, <1>3, <1>4, <1>5 DEF PoseNext

LEMMA PoseTypes == PoseInv /\ PoseBounds => PoseTypeOK
BY DEF PoseInv, PoseShape, PoseBounds, PoseTypeOK

\* A topic is made for a name without one: there are as many as registered names.
Registered == {n \in Names : registry[n] # 0}

RegBounds ==
    /\ registry \in [Names -> 0..topicsMade]
    /\ topicsMade = Cardinality(Registered)
    /\ handles \subseteq [name : Names, topic : Nat]
    /\ stopping \in BOOLEAN /\ halted \in BOOLEAN
    /\ joined \subseteq told /\ told \subseteq Callbacks

LEMMA RegBoundsInitial == RegInit => RegBounds
<1> SUFFICES ASSUME RegInit PROVE RegBounds
    OBVIOUS
<1>1. Registered = {} /\ Cardinality({}) = 0
    BY FS_EmptySet DEF RegInit, Registered
<1>2. registry = [n \in Names |-> 0] /\ topicsMade = 0 /\ 0 \in 0..0
    BY DEF RegInit
<1>3. registry \in [Names -> 0..topicsMade]
    BY <1>2
<1>4. topicsMade = Cardinality(Registered)
    BY <1>1, <1>2
<1> QED BY <1>3, <1>4 DEF RegInit, RegBounds

LEMMA RegCreateBounds ==
    ASSUME RegInv, RegBounds, NEW t \in RegThreads, Create(t)
    PROVE  RegBounds'
<1> DEFINE n == wants[t]
           topic == Emplaced(n)
<1>1. n \in Names /\ topicsMade \in Nat /\ registry \in [Names -> Nat]
    BY DEF Create, RegInv, RegShape
<1>2. /\ registry' = [registry EXCEPT ![n] = topic]
      /\ topicsMade' = IF topic > topicsMade THEN topic ELSE topicsMade
      /\ handles' = handles \cup {[name |-> n, topic |-> topic]}
      /\ UNCHANGED <<stopping, told, joined, halted>>
    BY DEF Create, Returned
<1>3. CASE registry[n] # 0
    <2>1. topic = registry[n] /\ registry[n] \in 0..topicsMade
        BY <1>1, <1>3 DEF Emplaced, RegBounds
    <2> HIDE DEF n, topic
    <2>2. registry' = registry /\ topicsMade' = topicsMade
        BY <1>1, <1>2, <2>1
    <2>3. Registered' = Registered
        BY <2>2 DEF Registered
    <2>4. [name |-> n, topic |-> topic] \in [name : Names, topic : Nat]
        BY <1>1, <2>1
    <2>5. handles' \subseteq [name : Names, topic : Nat]
        BY <1>2, <2>4 DEF RegBounds
    <2>6. registry' \in [Names -> 0..topicsMade'] /\ topicsMade' = Cardinality(Registered')
        BY <2>2, <2>3 DEF RegBounds
    <2>7. /\ stopping' \in BOOLEAN /\ halted' \in BOOLEAN
          /\ joined' \subseteq told' /\ told' \subseteq Callbacks
        BY <1>2 DEF RegBounds
    <2> QED BY <2>5, <2>6, <2>7 DEF RegBounds
<1>4. CASE registry[n] = 0
    <2>1. topic = topicsMade + 1
        BY <1>4 DEF Emplaced
    <2> HIDE DEF n, topic
    <2>2. topicsMade' = topicsMade + 1 /\ registry' = [registry EXCEPT ![n] = topicsMade + 1]
        BY <1>1, <1>2, <2>1
    <2>3. registry' \in [Names -> 0..topicsMade']
        BY <1>1, <2>2 DEF RegBounds
    <2>4. Registered' = Registered \cup {n} /\ n \notin Registered
        BY <1>1, <1>4, <2>2 DEF Registered
    <2>5. IsFiniteSet(Registered)
        BY RegistryAssumption, FS_Subset DEF Registered
    <2>6. Cardinality(Registered') = Cardinality(Registered) + 1
        BY <2>4, <2>5, FS_AddElement
    <2>7. topicsMade' = Cardinality(Registered')
        BY <2>2, <2>6 DEF RegBounds
    <2> QED BY <1>1, <1>2, <2>1, <2>3, <2>7 DEF RegBounds
<1> QED BY <1>3, <1>4

LEMMA RegBoundsStep == RegInv /\ RegBounds /\ [RegNext]_regVars => RegBounds'
<1> SUFFICES ASSUME RegInv, RegBounds, [RegNext]_regVars PROVE RegBounds'
    OBVIOUS
<1>1. CASE UNCHANGED <<registry, topicsMade, handles, stopping, told, joined, halted>>
    BY <1>1 DEF RegBounds, Registered
<1>2. ASSUME NEW t \in RegThreads, NEW n \in Names, Ask(t, n) PROVE RegBounds'
    BY <1>1, <1>2 DEF Ask
<1>3. ASSUME NEW t \in RegThreads, Lookup(t) PROVE RegBounds'
    <2>1. CASE handles' = handles
        BY <1>1, <1>3, <2>1 DEF Lookup
    <2>2. CASE handles' # handles
        <3>1. wants[t] \in Names /\ registry[wants[t]] \in Nat
            BY <1>3 DEF Lookup, RegInv, RegShape
        <3>2. handles' = handles \cup {[name |-> wants[t], topic |-> registry[wants[t]]]}
            BY <1>3, <2>2 DEF Lookup, Returned
        <3>3. Registered' = Registered
            BY <1>3 DEF Lookup, Registered
        <3> QED BY <1>3, <3>1, <3>2, <3>3 DEF Lookup, RegBounds
    <2> QED BY <2>1, <2>2
<1>4. ASSUME NEW t \in RegThreads, Create(t) PROVE RegBounds'
    BY <1>4, RegCreateBounds
<1>5. CASE RegStop \/ RegStopReturns
    BY <1>5 DEF RegStop, RegStopReturns, RegBounds, Registered
<1>6. ASSUME NEW c \in Callbacks, TellCallback(c) \/ JoinCallback(c) PROVE RegBounds'
    BY <1>6 DEF TellCallback, JoinCallback, RegBounds, Registered
<1>7. CASE RegStops \/ UNCHANGED regVars
    BY <1>1, <1>7 DEF RegStops, regVars
<1> QED
    BY <1>2, <1>3, <1>4, <1>5, <1>6, <1>7 DEF RegNext, RegThreadStep, RegStopStep

LEMMA RegTypes == RegInv /\ RegBounds => RegTypeOK
<1> SUFFICES ASSUME RegInv, RegBounds PROVE RegTypeOK
    OBVIOUS
<1>1. topicsMade \in Nat /\ topicsMade <= Cardinality(Names) /\ Cardinality(Names) \in Nat
    BY RegistryAssumption, FS_Subset, FS_CardinalityType DEF RegBounds, Registered
<1>2. registry \in [Names -> 0..Cardinality(Names)]
    BY <1>1 DEF RegBounds
<1>3. handles \subseteq [name : Names, topic : 1..Cardinality(Names)]
    <2> SUFFICES ASSUME NEW h \in handles
                 PROVE  h \in [name : Names, topic : 1..Cardinality(Names)]
        OBVIOUS
    <2>1. h \in [name : Names, topic : Nat] /\ h.topic # 0 /\ h.topic = registry[h.name]
        BY DEF RegBounds, RegInv, HandlesRegistered
    <2>2. h.topic \in 1..Cardinality(Names)
        BY <1>1, <1>2, <2>1
    <2> QED BY <2>1, <2>2
<1> QED BY <1>1, <1>2, <1>3 DEF RegInv, RegShape, RegBounds, RegTypeOK

\* The registry never has more topics than names, and stop() joins a callback only once it
\* has told it to end.
THEOREM RegTypesBounded == RegSpec => []RegTypeOK
BY RegInitial, RegStep, RegBoundsInitial, RegBoundsStep, RegTypes, PTL DEF RegSpec

\* Datagrams go from and to addresses that a host has or may have had.
UdpNetTyped ==
    \A d \in DOMAIN net : d.to \in Addresses /\ d.from \in Addresses /\ d.topic \in UdpTopics

UdpTypes == UdpTypeOK /\ UdpNetTyped

LEMMA UdpBounds ==
    /\ \A h \in Hosts : MaxStarts[h] \in Nat /\ 0..MaxStarts[h] \subseteq Epochs
    /\ Epochs \subseteq Addresses /\ 0 \in Epochs /\ {NoPeer, 0, 1} \subseteq Addresses
    /\ \A h \in Hosts : Other(h) \in Hosts
    /\ \A h \in Hosts : FirstPeer(h) \in Addresses
<1>1. \A h \in Hosts : MaxStarts[h] \in Nat /\ 0..MaxStarts[h] \subseteq Epochs
    BY UdpAssumption DEF Hosts, Epochs
<1>2. "client" \in Hosts /\ "server" \in Hosts
    BY DEF Hosts
<1>3. Other("client") = "server" /\ Other("server") = "client"
    BY DEF Other, Hosts
<1>4. \A h \in Hosts : Other(h) \in Hosts
    BY <1>3 DEF Hosts
<1>5. 0 \in Epochs
    BY <1>1, <1>2
<1> QED BY <1>1, <1>4, <1>5 DEF Addresses, FirstPeer

LEMMA AddressTyped == ASSUME UdpTypeOK, NEW h \in Hosts PROVE Address(h) \in Addresses
BY UdpBounds DEF UdpTypeOK, Address

LEMMA UdpTypesInitial == UdpInit => UdpTypes
<1> SUFFICES ASSUME UdpInit PROVE UdpTypes
    OBVIOUS
<1>1. DOMAIN net = {} /\ BagToSet(net) = {}
    BY DEF UdpInit, EmptyBag, SetToBag, BagToSet
<1> QED
    BY <1>1, UdpBounds, UdpAssumption DEF UdpInit, UdpTypes, UdpTypeOK, UdpNetTyped

LEMMA UdpNetTypedStep == UdpTypes /\ [UdpNext]_udpVars => UdpNetTyped'
<1> SUFFICES ASSUME UdpTypes, [UdpNext]_udpVars PROVE UdpNetTyped'
    OBVIOUS
<1> USE DEF UdpTypes, UdpNetTyped
<1>1. CASE UNCHANGED net
    BY <1>1
<1>2. ASSUME NEW C, net' = net (-) C PROVE UdpNetTyped'
    BY <1>2, UdpTakenFrom
<1>3. ASSUME NEW h \in Hosts, NEW t \in UdpTopics, NEW kind, NEW C,
             DOMAIN C = {Datagram(h, kind, t)}, net' = net (+) C
      PROVE  UdpNetTyped'
    <2>1. peer[h] \in Addresses /\ Address(h) \in Addresses
        BY AddressTyped DEF UdpTypeOK
    <2>2. \A d \in DOMAIN C :
            d.to \in Addresses /\ d.from \in Addresses /\ d.topic \in UdpTopics
        BY <1>3, <2>1 DEF Datagram
    <2> QED BY <1>3, <2>2, UdpAddedTo
<1>4. ASSUME NEW h \in Hosts, NEW t \in UdpTopics, UdpTopicCreate(h, t) PROVE UdpNetTyped'
    <2>1. DOMAIN Announcements(h, t) = {Datagram(h, "control", t)}
        BY DEF Announcements
    <2>2. UNCHANGED net \/ net' = net (+) Announcements(h, t)
        BY <1>4 DEF UdpTopicCreate
    <2> QED BY <1>1, <1>3, <2>1, <2>2
<1>5. ASSUME NEW h \in Hosts, NEW t \in UdpTopics, UdpTopicSend(h, t) PROVE UdpNetTyped'
    <2> DEFINE C == SetToBag({Datagram(h, "data", t)})
    <2>1. DOMAIN C = {Datagram(h, "data", t)}
        BY DEF SetToBag
    <2>2. net' = net (+) C
        BY <1>5 DEF UdpTopicSend
    <2> QED BY <1>3, <2>1, <2>2
<1>6. ASSUME NEW h \in Hosts, NEW d, UdpReceive(h, d) PROVE UdpNetTyped'
    BY <1>6, <1>2 DEF UdpReceive
<1>7. ASSUME NEW d, Lose(d) PROVE UdpNetTyped'
    BY <1>7, <1>2 DEF Lose
<1>8. ASSUME NEW h \in Hosts, UdpStart(h) \/ UdpStop(h) PROVE UdpNetTyped'
    BY <1>8, <1>1 DEF UdpStart, UdpStop
<1>9. CASE UdpFinished \/ UNCHANGED udpVars
    BY <1>9, <1>1 DEF UdpFinished, udpVars
<1> QED BY <1>4, <1>5, <1>6, <1>7, <1>8, <1>9 DEF UdpNext, UdpReceives

\* What a step leaves on the network is typed: the rest of the types, action by action.
UdpHostsTyped ==
    /\ udpUp \in [Hosts -> BOOLEAN]
    /\ epoch \in [Hosts -> Epochs]
    /\ peer \in [Hosts -> Addresses]
    /\ networked \in [Hosts -> SUBSET UdpTopics]
    /\ configs \in [Hosts -> [UdpTopics -> Methods \cup {NoMethod}]]
    /\ announced \in [Hosts -> [UdpTopics -> Epochs]]

UdpCountsTyped == fixedPort \in BOOLEAN /\ lost \in 0..MaxLost /\ sends \in 0..MaxData

LEMMA UdpTypesAre == UdpHostsTyped /\ UdpCountsTyped /\ UdpNetTyped <=> UdpTypes
BY DEF UdpHostsTyped, UdpCountsTyped, UdpNetTyped, UdpTypes, UdpTypeOK, BagToSet

LEMMA CellTyped ==
    ASSUME NEW X, NEW f \in [Hosts -> [UdpTopics -> X]], NEW h \in Hosts, NEW t \in UdpTopics,
           NEW x \in X
    PROVE  [f EXCEPT ![h][t] = x] \in [Hosts -> [UdpTopics -> X]]
OBVIOUS

LEMMA UdpHostsStep == UdpTypes /\ [UdpNext]_udpVars => UdpHostsTyped'
<1> SUFFICES ASSUME UdpTypes, UdpHostsTyped, [UdpNext]_udpVars PROVE UdpHostsTyped'
    BY UdpTypesAre
<1> USE DEF UdpHostsTyped
<1>1. CASE UNCHANGED hostVars
    BY <1>1 DEF hostVars
<1>2. ASSUME NEW h \in Hosts, UdpStart(h) PROVE UdpHostsTyped'
    <2>1. epoch[h] + 1 \in Epochs
        <3>1. epoch[h] \in Nat /\ epoch[h] < MaxStarts[h] /\ MaxStarts[h] \in Nat
            BY <1>2, UdpBounds, UdpAssumption DEF UdpStart, Epochs, Hosts
        <3>2. epoch[h] + 1 \in 0..MaxStarts[h]
            BY <3>1
        <3> QED BY <3>2, UdpBounds
    <2>2. FirstPeer(h) \in Addresses /\ 0 \in Epochs
        BY UdpBounds
    <2>3. /\ udpUp' = [udpUp EXCEPT ![h] = TRUE] /\ epoch' = [epoch EXCEPT ![h] = epoch[h] + 1]
          /\ peer' = [peer EXCEPT ![h] = FirstPeer(h)]
          /\ networked' = [networked EXCEPT ![h] = {}]
          /\ configs' = [configs EXCEPT ![h] = [t \in UdpTopics |-> NoMethod]]
          /\ announced' = [announced EXCEPT ![h] = [t \in UdpTopics |-> 0]]
        BY <1>2 DEF UdpStart
    <2> QED BY <2>1, <2>2, <2>3
<1>3. ASSUME NEW h \in Hosts, NEW t \in UdpTopics, UdpTopicCreate(h, t) PROVE UdpHostsTyped'
    <2>1. Method[t] \in Methods /\ epoch[Other(h)] \in Epochs
        BY UdpAssumption, UdpBounds
    <2>2. /\ networked' = [networked EXCEPT ![h] = networked[h] \cup {t}]
          /\ configs' = [configs EXCEPT ![h][t] = Method[t]]
          /\ \/ announced' = [announced EXCEPT ![h][t] = epoch[Other(h)]]
             \/ announced' = announced
          /\ UNCHANGED <<udpUp, epoch, peer>>
        BY <1>3 DEF UdpTopicCreate
    <2>3. configs' \in [Hosts -> [UdpTopics -> Methods \cup {NoMethod}]]
        BY <2>1, <2>2, CellTyped
    <2>4. announced' \in [Hosts -> [UdpTopics -> Epochs]]
        <3>1. [announced EXCEPT ![h][t] = epoch[Other(h)]] \in [Hosts -> [UdpTopics -> Epochs]]
            BY <2>1, CellTyped
        <3> QED BY <2>2, <3>1
    <2>5. networked' \in [Hosts -> SUBSET UdpTopics]
        BY <2>2
    <2> QED BY <2>2, <2>3, <2>4, <2>5
<1>4. ASSUME NEW h \in Hosts, NEW d \in BagToSet(net), UdpReceive(h, d) PROVE UdpHostsTyped'
    <2>1. PICK t \in UdpTopics : t = d.topic
        BY <1>4 DEF UdpTypes, UdpNetTyped, BagToSet
    <2>2. d.from \in Addresses
        BY <1>4 DEF UdpTypes, UdpNetTyped, BagToSet
    <2>3. ConfigOf(h, d) \in Methods \cup {NoMethod}
        BY <2>1, UdpAssumption DEF ConfigOf, Methods
    <2>4. /\ peer' = [peer EXCEPT ![h] = IF peer[h] = NoPeer THEN d.from ELSE peer[h]]
          /\ networked' = [networked EXCEPT ![h] =
                           IF d.kind = "control" THEN networked[h] \cup {t} ELSE networked[h]]
          /\ configs' = [configs EXCEPT ![h][t] = ConfigOf(h, d)] \/ configs' = configs
          /\ UNCHANGED <<udpUp, epoch, announced>>
        BY <1>4, <2>1 DEF UdpReceive
    <2>5. configs' \in [Hosts -> [UdpTopics -> Methods \cup {NoMethod}]]
        <3>1. [configs EXCEPT ![h][t] = ConfigOf(h, d)]
                \in [Hosts -> [UdpTopics -> Methods \cup {NoMethod}]]
            BY <2>3, CellTyped
        <3> QED BY <2>4, <3>1
    <2>6. peer' \in [Hosts -> Addresses] /\ networked' \in [Hosts -> SUBSET UdpTopics]
        BY <2>2, <2>4
    <2> QED BY <2>4, <2>5, <2>6
<1>5. ASSUME NEW h \in Hosts, NEW t \in UdpTopics, UdpTopicSend(h, t) PROVE UdpHostsTyped'
    BY <1>1, <1>5 DEF UdpTopicSend
<1>6. ASSUME NEW d, Lose(d) PROVE UdpHostsTyped'
    BY <1>1, <1>6 DEF Lose
<1>7. ASSUME NEW h \in Hosts, UdpStop(h) PROVE UdpHostsTyped'
    BY <1>7 DEF UdpStop
<1>8. CASE UdpFinished \/ UNCHANGED udpVars
    BY <1>1, <1>8 DEF UdpFinished, udpVars
<1> QED BY <1>2, <1>3, <1>4, <1>5, <1>6, <1>7, <1>8 DEF UdpNext, UdpReceives

LEMMA UdpCountsStep == UdpTypes /\ [UdpNext]_udpVars => UdpCountsTyped'
<1> SUFFICES ASSUME UdpCountsTyped, [UdpNext]_udpVars PROVE UdpCountsTyped'
    BY UdpTypesAre
<1> USE UdpAssumption DEF UdpCountsTyped
<1>1. CASE UNCHANGED <<fixedPort, lost, sends>>
    BY <1>1
<1>2. ASSUME NEW h \in Hosts, NEW t \in UdpTopics, UdpTopicSend(h, t) PROVE UdpCountsTyped'
    BY <1>2 DEF UdpTopicSend
<1>3. ASSUME NEW d, Lose(d) PROVE UdpCountsTyped'
    BY <1>3 DEF Lose
<1>4. ASSUME NEW h \in Hosts, NEW t \in UdpTopics, UdpTopicCreate(h, t) PROVE UdpCountsTyped'
    BY <1>1, <1>4 DEF UdpTopicCreate
<1>5. ASSUME NEW h \in Hosts, NEW d, UdpReceive(h, d) PROVE UdpCountsTyped'
    BY <1>1, <1>5 DEF UdpReceive
<1>6. ASSUME NEW h \in Hosts, UdpStart(h) \/ UdpStop(h) PROVE UdpCountsTyped'
    BY <1>1, <1>6 DEF UdpStart, UdpStop
<1>7. CASE UdpFinished \/ UNCHANGED udpVars
    BY <1>1, <1>7 DEF UdpFinished, udpVars
<1> QED BY <1>2, <1>3, <1>4, <1>5, <1>6, <1>7 DEF UdpNext, UdpReceives

LEMMA UdpTypesStep == UdpTypes /\ [UdpNext]_udpVars => UdpTypes'
BY UdpTypesAre, UdpHostsStep, UdpCountsStep, UdpNetTypedStep
DEF UdpTypes, UdpHostsTyped, UdpCountsTyped, UdpNetTyped, UdpTypeOK, BagToSet

\* Hosts, network and counts keep to their types, for any number of starts and losses.
THEOREM UdpTypesBounded == UdpSpec => []UdpTypeOK
<1>1. UdpTypes => UdpTypeOK
    BY DEF UdpTypes
<1> QED BY <1>1, UdpTypesInitial, UdpTypesStep, PTL DEF UdpSpec

------------------------------------------------------------------------------
(* The components side by side, as Parts has them for TLC: a step of Parts is   *)
(* a step of one of them, and the others stutter.                               *)

PartsInv ==
    /\ PoolInv
    /\ UdpTypes /\ UdpInv /\ UdpNetOK
    /\ VioInv /\ VioBounded
    /\ AdaInv /\ RequestsInv /\ AdaBounded
    /\ PairTypeOK /\ PairInv
    /\ RegInv /\ RegBounds
    /\ PoseInv /\ PoseBounds

LEMMA PartsInitial == PartsInit => PartsInv
<1> SUFFICES ASSUME PartsInit PROVE PartsInv
    OBVIOUS
<1>1. PoolInit /\ UdpInit /\ VioInit /\ AdaInit /\ PairInit /\ RegInit /\ PoseInit
    BY DEF PartsInit
<1>2. PairTypeOK
    BY <1>1, PairTypesInitial
<1>3. PoseBounds
    BY <1>1, PoseAssumption DEF PoseInit, PoseBounds
<1>4. PoolInv /\ UdpTypes /\ UdpInv /\ UdpNetOK
    BY <1>1, PoolInitial, UdpTypesInitial, UdpInitial
<1>5. VioInv /\ VioBounded /\ AdaInv /\ RequestsInv /\ AdaBounded
    BY <1>1, VioInitial, VioBoundedInitial, AdaInitial, RequestsInitial, BoundedInitial
<1>6. PairInv /\ RegInv /\ RegBounds /\ PoseInv
    BY <1>1, PairInitial, RegInitial, RegBoundsInitial, PoseInitial
<1> QED BY <1>2, <1>3, <1>4, <1>5, <1>6 DEF PartsInv

LEMMA StepOfEach ==
    ASSUME [PartsNext]_partsVars
    PROVE  /\ [PoolNext]_poolVars /\ [UdpNext]_udpVars /\ [VioNext]_vioVars
           /\ [AdaNext]_adaVars /\ [PairNext]_pairVars /\ [RegNext]_regVars
           /\ [PoseNext]_poseVars
<1>1. CASE UNCHANGED partsVars
    BY <1>1 DEF partsVars
<1>2. CASE PartsNext
    BY <1>2 DEF PartsNext, InPool, InUdp, InVio, InAda, InPair, InReg, InPose
<1> QED BY <1>1, <1>2

LEMMA PartsStep == PartsInv /\ [PartsNext]_partsVars => PartsInv'
<1> SUFFICES ASSUME PartsInv, [PartsNext]_partsVars PROVE PartsInv'
    OBVIOUS
<1>1. PoolInv'
    BY StepOfEach, PoolStep DEF PartsInv
<1>2. UdpTypes' /\ UdpInv' /\ UdpNetOK'
    BY StepOfEach, UdpTypesStep, UdpStep, UdpNetStep DEF PartsInv
<1>3. VioInv' /\ VioBounded'
    BY StepOfEach, VioStepKeeps, VioBoundedStep DEF PartsInv
<1>4. AdaInv' /\ RequestsInv' /\ AdaBounded'
    BY StepOfEach, AdaStepKeeps, RequestsStep, AdaBoundedStep DEF PartsInv
<1>5. PairTypeOK' /\ PairInv'
    BY StepOfEach, PairTypes, PairStep DEF PartsInv
<1>6. RegInv' /\ RegBounds'
    BY StepOfEach, RegStep, RegBoundsStep DEF PartsInv
<1>7. PoseInv' /\ PoseBounds'
    BY StepOfEach, PoseStep, PoseBoundsStep DEF PartsInv
<1> QED BY <1>1, <1>2, <1>3, <1>4, <1>5, <1>6, <1>7 DEF PartsInv

\* The invariants of the components hold side by side: a step of Parts is a step of one of
\* them and leaves the state of the others alone.
THEOREM PartsInductive == PartsSpec => []PartsInv
BY PartsInitial, PartsStep, PTL DEF PartsSpec

\* Every component's state keeps to its type and its bounds, the pools of workers, the
\* counts of chunks and datagrams and the number of topics among them.
THEOREM PartsTypes == PartsSpec => []PartsTypeOK
<1>1. PartsInv => PartsTypeOK
  <2> SUFFICES ASSUME PartsInv PROVE PartsTypeOK
      OBVIOUS
  <2>1. PoolTypeOK /\ UdpTypeOK /\ PairTypeOK
      BY DEF PartsInv, PoolInv, UdpTypes
  <2>2. VioTypeOK
      BY VioTypesOfBounded DEF PartsInv
  <2>3. AdaTypeOK
      BY AdaTypesOfBounded DEF PartsInv, AdaInv
  <2>4. RegTypeOK /\ PoseTypeOK
      BY RegTypes, PoseTypes DEF PartsInv
  <2> QED BY <2>1, <2>2, <2>3, <2>4 DEF PartsTypeOK
<1> QED BY <1>1, PartsInductive, PTL

\* What is proved of the components one by one holds where TLC checks them, side by side:
\* the invariants of the pool, of networked topics, of odometry, of the scene, of the pairs,
\* of the registry and of the pose, and that displays never go back.
THEOREM PartsSafe ==
    PartsSpec =>
        [](/\ PoolAsserts /\ FramePosePaired
           /\ UdpMethodAgrees
           /\ StreamsIntact /\ CameraCaptured
           /\ MergeIsComplete /\ CleansOnce
           /\ PairsMatch
           /\ OneTopicPerName
           /\ OriginKept)
        /\ ShownForward
<1>1. PartsInv =>
        /\ PoolAsserts /\ FramePosePaired /\ UdpMethodAgrees
        /\ StreamsIntact /\ CameraCaptured /\ MergeIsComplete /\ CleansOnce
        /\ PairsMatch /\ OneTopicPerName /\ OriginKept
    BY AssertsOfPool, PairedOfPool, OnceOfRequests, MatchOfPair, OneTopicOfReg
    DEF PartsInv, UdpInv, VioInv, AdaInv, PoseInv
<1>2. PartsInv /\ [PartsNext]_partsVars =>
        [/\ shown'.frame >= shown.frame
         /\ passesLast /\ useImage = NoImage /\ useImage' # NoImage => usePose' > usePose]_poolVars
    BY StepOfEach, ForwardOfPool DEF PartsInv
<1> QED BY <1>1, <1>2, PartsInductive, PTL DEF PartsSpec, ShownForward

================================================================================
