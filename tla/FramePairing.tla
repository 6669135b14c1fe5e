----------------------------- MODULE FramePairing -----------------------------
(* utils/video_decoder.cpp with its user plugins/ada/server_rx: one thread     *)
(* pushes the two halves of a depth image into two decoders and waits for      *)
(* both; each decoder's own thread brings its sample to cb_appsink.  The       *)
(* decoders (GStreamer) give one sample per buffer, in order, and are          *)
(* external; a half is the number of its image.                                *)
EXTENDS Integers

CONSTANTS MaxPairs      \* bound: images decoded

ASSUME PairingAssumption == MaxPairs \in Nat

Sinks == {0, 1}         \* appsink_img0_ and appsink_img1_

VARIABLES
    calls,      \* images pushed by receive_sr_input
    img_ready,  \* img_ready_ of server_rx
    img_dst,    \* img0_dst_ and img1_dst_
    taken,      \* what receive_sr_input has copied last
    callerWaits,
    img,        \* the sample a sink has mapped last
    sink_ready, \* img0_ready_ and img1_ready_ of the decoder
    sinkWaits   \* sinks in pipeline_sync_.wait

callerVars  == <<calls, taken, callerWaits>>
decoderVars == <<img, sink_ready, sinkWaits>>
pairVars    == <<callerVars, img_ready, img_dst, decoderVars>>

Neither == [s \in Sinks |-> FALSE]
NoPair  == [s \in Sinks |-> 0]

PairInit ==
    /\ calls = 0
    /\ img_ready = FALSE
    /\ img_dst = NoPair
    /\ taken = NoPair
    /\ callerWaits = FALSE
    /\ img = NoPair
    /\ sink_ready = Neither
    /\ sinkWaits = {}

\* receive_sr_input up to its wait
PushPair ==
    /\ ~callerWaits
    /\ calls < MaxPairs
    /\ calls' = calls + 1
    /\ callerWaits' = TRUE
    /\ UNCHANGED <<taken, img_ready, img_dst, decoderVars>>

\* and after it
TakePair ==
    /\ callerWaits
    /\ img_ready
    /\ taken' = img_dst
    /\ img_ready' = FALSE
    /\ callerWaits' = FALSE
    /\ UNCHANGED <<calls, img_dst, decoderVars>>

\* Mutant: img1_ready_ stays set.
ClearedFirst(ready) == [ready EXCEPT ![0] = FALSE]

\* What the sink that completes a pair leaves for the next.
Cleared(ready) == Neither

\* cb_appsink up to its wait or, when the other half is there, up to its return
Appsink(s) ==
    LET ready == [sink_ready EXCEPT ![s] = TRUE]
    IN  /\ s \notin sinkWaits
        /\ img[s] < calls
        /\ img' = [img EXCEPT ![s] = @ + 1]
        /\ IF \A o \in Sinks : ready[o]
           THEN /\ img_dst' = img'
                /\ img_ready' = TRUE
                /\ sink_ready' = Cleared(ready)
                /\ UNCHANGED sinkWaits
           ELSE /\ sink_ready' = ready
                /\ sinkWaits' = sinkWaits \cup {s}
                /\ UNCHANGED <<img_dst, img_ready>>
        /\ UNCHANGED callerVars

\* The sink that waited finds the flags down.
AppsinkWakes(s) ==
    /\ s \in sinkWaits
    /\ sink_ready = Neither
    /\ sinkWaits' = sinkWaits \ {s}
    /\ UNCHANGED <<callerVars, img_ready, img_dst, img, sink_ready>>

\* The decoder rests after the last image, or nobody is left to take the flags down.
PairStops ==
    /\ \/ calls = MaxPairs /\ ~callerWaits /\ sinkWaits = {}
       \/ sinkWaits = Sinks
    /\ UNCHANGED pairVars

PairNext ==
    \/ PushPair \/ TakePair
    \/ \E s \in Sinks : Appsink(s) \/ AppsinkWakes(s)
    \/ PairStops

PairSpec == PairInit /\ [][PairNext]_pairVars

------------------------------------------------------------------------------
PairTypeOK ==
    /\ calls \in 0..MaxPairs
    /\ img_ready \in BOOLEAN /\ callerWaits \in BOOLEAN
    /\ {img_dst, taken, img} \subseteq [Sinks -> 0..MaxPairs]
    /\ sink_ready \in [Sinks -> BOOLEAN]
    /\ sinkWaits \subseteq Sinks

\* The depth image that receive_sr_input puts together has both halves of the image
\* it pushed, although each half comes in a thread of its own.
PairsMatch == ~callerWaits => taken = [s \in Sinks |-> calls]

\* The comments of cb_appsink at its notify and after its wait: the sink that waits for
\* the other half is notified and cleans up.  So the two sinks never wait at once.
WaiterCleansUp == sinkWaits # Sinks
===============================================================================
