------------------------------ MODULE BufferPool ------------------------------
(* include/illixr/vk/vulkan_objects.hpp: the pool of images between the thread *)
(* that makes frames (native_renderer for an application of its own, or        *)
(* offload_rendering_client) and the thread that uses the latest one           *)
(* (native_renderer's time warp, or offload_rendering_server).  Every          *)
(* operation of the pool holds image_state_mutex and is one action; drawing    *)
(* and reading an image happen between them.  A frame is its number, and       *)
(* image_data is the pose it was drawn for, which has the same number.         *)
EXTENDS Integers

CONSTANTS
    PoolSize,   \* NATIVE_RENDERER_BUFFER_POOL_SIZE; an image_index_t is 8 bits
    MaxFrames   \* bound: frames the source makes

ASSUME PoolAssumption == PoolSize \in 3..127 /\ MaxFrames \in Nat

VARIABLES
    image_states, image_data, latest_decoded_image,
    contents,   \* the frame whose pixels an image holds; 0 while being drawn
    frames,     \* frames begun by the source
    srcImage,   \* the image the source is drawing into
    passesLast, \* whether the user tells the pool its last image (the server does)
    lastImage,  \* last_frame_ind_ of the server
    useImage,   \* the image in post-processing
    usePose,    \* the pose acquired with it, kept after the release
    shown       \* what was last read: the frame in the pixels and its pose

srcVars  == <<frames, srcImage>>
useVars  == <<passesLast, lastImage, useImage, usePose, shown>>
poolVars == <<image_states, image_data, latest_decoded_image, contents, srcVars, useVars>>

Images  == 0..(PoolSize - 1)
NoImage == -1
ImageStates == {"FREE", "SRC_IN_FLIGHT", "AVAILABLE", "POST_PROCESSING_IN_FLIGHT"}

PoolInit ==
    /\ image_states = [i \in Images |-> "FREE"]
    /\ image_data = [i \in Images |-> 0]
    /\ latest_decoded_image = NoImage
    /\ contents = [i \in Images |-> 0]
    /\ frames = 0
    /\ srcImage = NoImage
    /\ passesLast \in BOOLEAN
    /\ lastImage = NoImage
    /\ useImage = NoImage
    /\ usePose = 0
    /\ shown = [frame |-> 0, pose |-> 0]

\* The first free image; with none the code's assertion fails (PoolAsserts).
SrcAcquire ==
    /\ srcImage = NoImage
    /\ frames < MaxFrames
    /\ \E i \in Images :
        /\ image_states[i] = "FREE"
        /\ \A j \in 0..(i - 1) : image_states[j] # "FREE"
        /\ image_states' = [image_states EXCEPT ![i] = "SRC_IN_FLIGHT"]
        /\ contents' = [contents EXCEPT ![i] = 0]
        /\ srcImage' = i
    /\ frames' = frames + 1
    /\ UNCHANGED <<image_data, latest_decoded_image, useVars>>

SrcDraw ==
    /\ srcImage # NoImage
    /\ contents[srcImage] = 0
    /\ contents' = [contents EXCEPT ![srcImage] = frames]
    /\ UNCHANGED <<image_states, image_data, latest_decoded_image, srcVars, useVars>>

\* Mutants: the image that was the latest stays taken; all others become free.
ReleasedKept(i) == IF i = srcImage THEN "AVAILABLE" ELSE image_states[i]
ReleasedAll(i) == IF i = srcImage THEN "AVAILABLE" ELSE "FREE"

\* What a release makes of the states: every image not in use is free again.
Released(i) ==
    IF i = srcImage THEN "AVAILABLE"
    ELSE IF image_states[i] = "AVAILABLE" THEN "FREE" ELSE image_states[i]

SrcRelease ==
    /\ srcImage # NoImage
    /\ contents[srcImage] # 0
    /\ image_states' = [i \in Images |-> Released(i)]
    /\ image_data' = [image_data EXCEPT ![srcImage] = frames]
    /\ latest_decoded_image' = srcImage
    /\ srcImage' = NoImage
    /\ UNCHANGED <<contents, frames, useVars>>

\* Mutant: the last image is not looked at.
IsNewAlways == TRUE

\* The image is new as far as the pool can tell: by its index alone.
IsNew == ~(passesLast /\ latest_decoded_image = lastImage)

PostAcquire ==
    /\ useImage = NoImage
    /\ latest_decoded_image # NoImage
    /\ IsNew
    /\ image_states' = [image_states EXCEPT
                        ![latest_decoded_image] = "POST_PROCESSING_IN_FLIGHT"]
    /\ useImage' = latest_decoded_image
    /\ usePose' = image_data[latest_decoded_image]
    /\ lastImage' = IF passesLast THEN latest_decoded_image ELSE lastImage
    /\ UNCHANGED <<image_data, latest_decoded_image, contents, srcVars, passesLast, shown>>

\* Time warp or the copy into the encoder: reads the pixels, once per eye.
PostRead ==
    /\ useImage # NoImage
    /\ shown' = [frame |-> contents[useImage], pose |-> usePose]
    /\ UNCHANGED <<image_states, image_data, latest_decoded_image, contents, srcVars,
                   passesLast, lastImage, useImage, usePose>>

PostRelease ==
    /\ useImage # NoImage
    /\ shown.pose = usePose
    /\ image_states' = [image_states EXCEPT ![useImage] =
                        IF useImage # latest_decoded_image THEN "FREE" ELSE "AVAILABLE"]
    /\ useImage' = NoImage
    /\ UNCHANGED <<image_data, latest_decoded_image, contents, srcVars, passesLast,
                   lastImage, usePose, shown>>

PoolFinished ==
    /\ frames = MaxFrames
    /\ srcImage = NoImage
    /\ useImage = NoImage
    /\ UNCHANGED poolVars

PoolNext ==
    \/ SrcAcquire \/ SrcDraw \/ SrcRelease
    \/ PostAcquire \/ PostRead \/ PostRelease
    \/ PoolFinished

PoolSpec == PoolInit /\ [][PoolNext]_poolVars

------------------------------------------------------------------------------
PoolTypeOK ==
    /\ image_states \in [Images -> ImageStates]
    /\ image_data \in [Images -> 0..MaxFrames]
    /\ latest_decoded_image \in Images \cup {NoImage}
    /\ contents \in [Images -> 0..MaxFrames]
    /\ frames \in 0..MaxFrames
    /\ srcImage \in Images \cup {NoImage}
    /\ passesLast \in BOOLEAN
    /\ lastImage \in Images \cup {NoImage}
    /\ useImage \in Images \cup {NoImage}
    /\ usePose \in 0..MaxFrames
    /\ shown \in [frame : 0..MaxFrames, pose : 0..MaxFrames]

\* The assertions of the four operations hold whenever they are evaluated: a source
\* that asks for an image finds a free one however long the other side keeps its own,
\* the image it gives back is still its own, the latest image is available, and the
\* image in post-processing is still in post-processing.
PoolAsserts ==
    /\ srcImage = NoImage => \E i \in Images : image_states[i] = "FREE"
    /\ srcImage # NoImage => image_states[srcImage] = "SRC_IN_FLIGHT"
    /\ useImage = NoImage /\ latest_decoded_image # NoImage =>
            image_states[latest_decoded_image] = "AVAILABLE"
    /\ useImage # NoImage => image_states[useImage] = "POST_PROCESSING_IN_FLIGHT"

\* What is displayed or sent is a whole frame together with the pose it was drawn for:
\* no frame is drawn into while the other thread reads it.
FramePosePaired == shown.frame = shown.pose

\* The display never goes back to an older frame, and the server, which passes its last
\* image to the pool, never sends a frame twice.
ShownForward ==
    [][/\ shown'.frame >= shown.frame
       /\ passesLast /\ useImage = NoImage /\ useImage' # NoImage => usePose' > usePose]_poolVars
===============================================================================
