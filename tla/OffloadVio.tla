------------------------------ MODULE OffloadVio ------------------------------
(* plugins/offload_vio, the way up: device_tx packs the IMU samples since the  *)
(* last camera frame together with the next one, server_rx publishes a packet  *)
(* for the tracker.  IMU sample number n has the time 2n; a camera frame is    *)
(* its time, odd when it lies between two samples.  The network writer between *)
(* them keeps the order (TcpBackend); the images are left out.                 *)
EXTENDS Integers, FiniteSets, SequencesExt

CONSTANTS MaxImu, MaxCam    \* bounds: IMU samples and camera frames of the device

ASSUME VioAssumption == MaxImu \in Nat /\ MaxCam \in Nat

VARIABLES
    imus,       \* IMU samples handled; latest_imu_time_ is twice that
    frameTimes, \* times of the camera frames published on the device
    device,     \* device_tx: data_buffer_, latest_cam_time_, cam_, and the packets sent
    published   \* what server_rx has put, in its order

vioVars == <<imus, frameTimes, device, published>>

None == 0
Imu(t) == [kind |-> "imu", time |-> t]
Cam(t) == [kind |-> "cam", time |-> t]

VioInit ==
    /\ imus = 0
    /\ frameTimes = <<>>
    /\ device = [data_buffer |-> <<>>, latest_cam |-> None, cam |-> <<>>, sent |-> <<>>]
    /\ published = <<>>

LastFrame == IF frameTimes = <<>> THEN None ELSE Last(frameTimes)

\* A frame reaches cam_ early or late with respect to the IMU callback.  The IMU is the
\* faster sensor: one of its samples lies between two frames.
CamArrives(t) ==
    /\ Len(frameTimes) < MaxCam
    /\ \E n \in 1..MaxImu : LastFrame < 2 * n /\ 2 * n <= t
    /\ frameTimes' = Append(frameTimes, t)
    /\ device' = [device EXCEPT !.cam = Append(@, t)]
    /\ UNCHANGED <<imus, published>>

\* send_imu_cam_data
Sent(d, frame) ==
    [d EXCEPT !.data_buffer = <<>>, !.latest_cam = None,
              !.sent = Append(@, [imu |-> d.data_buffer, cam |-> frame])]

\* The frame held back goes with the first sample after it.
HeldSent(d, t) ==
    IF d.latest_cam # None /\ t > d.latest_cam THEN Sent(d, d.latest_cam) ELSE d

\* Mutant: a frame with the time of the sample is sent.
HeldBackIfOlder(t, frame) == t < frame

HeldBack(t, frame) == t <= frame

FrameTaken(d, t) ==
    IF d.cam = <<>> \/ d.latest_cam # None THEN d
    ELSE LET e == [d EXCEPT !.cam = Tail(@)]
         IN  IF HeldBack(t, Head(d.cam)) THEN [e EXCEPT !.latest_cam = Head(d.cam)]
             ELSE Sent(e, Head(d.cam))

\* prepare_imu_cam_data for the next IMU sample
PrepareImuCam ==
    LET t == 2 * (imus + 1)
        d == [device EXCEPT !.data_buffer = Append(@, t)]
    IN  /\ imus < MaxImu
        /\ imus' = imus + 1
        /\ device' = FrameTaken(HeldSent(d, t), t)
        /\ UNCHANGED <<frameTimes, published>>

\* Mutant: the loop takes the last IMU sample as well.
UnpackedTwice(p) ==
    [i \in 1..Len(p.imu) |-> Imu(p.imu[i])] \o <<Cam(p.cam), Imu(Last(p.imu))>>

\* What receive_vio_input puts: the last IMU sample after the frame.
Unpacked(p) ==
    [i \in 1..(Len(p.imu) - 1) |-> Imu(p.imu[i])] \o <<Cam(p.cam), Imu(Last(p.imu))>>

ReceiveVioInput ==
    /\ device.sent # <<>>
    /\ published' = published \o Unpacked(Head(device.sent))
    /\ device' = [device EXCEPT !.sent = Tail(@)]
    /\ UNCHANGED <<imus, frameTimes>>

VioFinished ==
    /\ imus = MaxImu
    /\ device.sent = <<>>
    /\ UNCHANGED vioVars

VioNext ==
    \/ \E t \in 1..(2 * MaxImu + 1) : CamArrives(t)
    \/ PrepareImuCam
    \/ ReceiveVioInput
    \/ VioFinished

VioSpec == VioInit /\ [][VioNext]_vioVars

------------------------------------------------------------------------------
Times == 0..(2 * MaxImu + 1)

VioTypeOK ==
    /\ imus \in 0..MaxImu
    /\ frameTimes \in Seq(Times)
    /\ device.data_buffer \in Seq(Times) /\ device.cam \in Seq(Times)
    /\ device.latest_cam \in Times
    /\ \A i \in 1..Len(device.sent) : device.sent[i].imu # <<>>
    /\ published \in Seq([kind : {"imu", "cam"}, time : Times])

\* The events of a kind among the first n published.
CountOf(kind, n) == Cardinality({j \in 1..n : published[j].kind = kind})

\* The tracker on the server gets the device's IMU samples and camera frames each in
\* order of their times, none lost, none twice, however late the frames reached cam_.
StreamsIntact ==
    \A i \in 1..Len(published) :
        published[i] = IF published[i].kind = "imu" THEN Imu(2 * CountOf("imu", i))
                                                    ELSE Cam(frameTimes[CountOf("cam", i)])

\* Right after a camera frame comes an IMU sample newer than it, so that the tracker
\* uses the frame in that sample's callback and not a frame later.
CameraCaptured ==
    \A i \in 1..Len(published) : published[i].kind = "cam" =>
        /\ i < Len(published)
        /\ published[i + 1].kind = "imu"
        /\ published[i + 1].time > published[i].time
===============================================================================
