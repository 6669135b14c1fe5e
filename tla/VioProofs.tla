------------------------------ MODULE VioProofs -----------------------------
(***************************************************************************)
(* Proofs about OffloadVio, for any number of samples and frames: what     *)
(* device_tx holds and what is on the link continues what is published.    *)
(***************************************************************************)
EXTENDS OffloadVio, SequenceTheorems, FiniteSetTheorems, TLAPS

Packets == Seq([imu : Seq(Nat), cam : Nat])
Devices == [data_buffer : Seq(Nat), latest_cam : Nat, cam : Seq(Nat), sent : Packets]
Entry == [kind : {"imu", "cam"}, time : Nat]

\* The same with times of any set.
DevicesOf(T) == [data_buffer : Seq(T), latest_cam : T, cam : Seq(T),
                 sent : Seq([imu : Seq(T), cam : T])]
EntryOf(T) == [kind : {"imu", "cam"}, time : T]

\* CountOf, of any sequence.
Count(s, kind, n) == Cardinality({j \in 1..n : s[j].kind = kind})

LEMMA CountFinite ==
  ASSUME NEW s, NEW kind, NEW n \in Nat
  PROVE  IsFiniteSet({j \in 1..n : s[j].kind = kind}) /\ Count(s, kind, n) \in Nat
<1>1. IsFiniteSet(1..n)
  BY FS_Interval
<1>. QED
  BY <1>1, FS_Subset, FS_CardinalityType DEF Count

\* What comes after does not count.
LEMMA CountOfPrefix ==
  ASSUME NEW s \in Seq(Entry), NEW t \in Seq(Entry), NEW kind, NEW n \in 0..Len(s)
  PROVE  Count(s \o t, kind, n) = Count(s, kind, n)
<1>1. \A j \in 1..n : (s \o t)[j] = s[j]
  BY ConcatProperties, LenProperties
<1>2. {j \in 1..n : (s \o t)[j].kind = kind} = {j \in 1..n : s[j].kind = kind}
  BY <1>1
<1>. QED
  BY <1>2 DEF Count

\* Two parts are counted one after the other.
LEMMA CountOfConcat ==
  ASSUME NEW s \in Seq(Entry), NEW t \in Seq(Entry), NEW kind, NEW m \in 0..Len(t)
  PROVE  Count(s \o t, kind, Len(s) + m) = Count(s, kind, Len(s)) + Count(t, kind, m)
<1>. DEFINE n == Len(s)
            A == {j \in 1..n : s[j].kind = kind}
            C == {j \in 1..m : t[j].kind = kind}
            B == {n + j : j \in C}
            f == [j \in C |-> n + j]
<1>1. n \in Nat /\ Len(t) \in Nat /\ m \in Nat
  BY LenProperties
<1>2. IsFiniteSet(A) /\ IsFiniteSet(C) /\ Cardinality(A) \in Nat /\ Cardinality(C) \in Nat
  BY <1>1, CountFinite DEF Count
<1>3. /\ \A j \in 1..n : (s \o t)[j] = s[j]
      /\ \A j \in 1..m : (s \o t)[n + j] = t[j]
  <2>1. \A i \in 1..(n + Len(t)) : (s \o t)[i] = IF i <= n THEN s[i] ELSE t[i - n]
    BY ConcatProperties
  <2>. QED
    BY <1>1, <2>1
<1>4. IsFiniteSet(B) /\ Cardinality(B) = Cardinality(C)
  <2>1. f \in [C -> B] /\ \A x, y \in C : f[x] = f[y] => x = y
    BY <1>1
  <2>3. \A y \in B : \E x \in C : f[x] = y
    OBVIOUS
  <2>4. f \in Bijection(C, B)
    <3>. HIDE DEF f, B, C
    <3>. QED
      BY <2>1, <2>3 DEF Bijection, Injection, Surjection, IsInjective
  <2>2. ExistsBijection(C, B)
    BY <2>4 DEF ExistsBijection
  <2>. QED
    BY <1>2, <2>2, FS_Bijection
<1>5. A \cap B = {}
  BY <1>1
<1>6. {j \in 1..(n + m) : (s \o t)[j].kind = kind} = A \cup B
  <2>1. ASSUME NEW j \in 1..(n + m), (s \o t)[j].kind = kind PROVE j \in A \cup B
    <3>1. CASE j <= n
      BY <1>1, <1>3, <2>1, <3>1
    <3>2. CASE j > n
      <4>1. j - n \in 1..m /\ n + (j - n) = j
        BY <1>1, <3>2
      <4>2. (s \o t)[j] = t[j - n]
        BY <1>3, <4>1
      <4>. QED
        BY <2>1, <4>1, <4>2
    <3>. QED
      BY <1>1, <3>1, <3>2
  <2>2. \A j \in A \cup B : j \in 1..(n + m) /\ (s \o t)[j].kind = kind
    BY <1>1, <1>3
  <2>. QED
    BY <2>1, <2>2
<1>7. Cardinality(A \cup B) = Cardinality(A) + Cardinality(B)
  <2>. HIDE DEF A, B, C
  <2>1. Cardinality(A \cup B) = Cardinality(A) + Cardinality(B) - Cardinality(A \cap B)
    BY <1>2, <1>4, FS_Union
  <2>. QED
    <3>1. Cardinality(A \cap B) = 0
      BY <1>5, FS_EmptySet
    <3>. QED
      BY ONLY <1>2, <1>4, <2>1, <3>1
<1>. QED
  BY <1>4, <1>6, <1>7 DEF Count

\* What a packet of l samples is unpacked into.
LEMMA UnpackedElementsOf ==
  ASSUME NEW T, NEW p \in [imu : Seq(T), cam : T], NEW l \in Nat \ {0}, l = Len(p.imu)
  PROVE  /\ Unpacked(p) \in Seq(EntryOf(T)) /\ Len(Unpacked(p)) = l + 1
         /\ \A j \in 1..(l - 1) : Unpacked(p)[j] = Imu(p.imu[j])
         /\ Unpacked(p)[l] = Cam(p.cam)
         /\ Unpacked(p)[l + 1] = Imu(p.imu[l])
<1>. DEFINE a == [i \in 1..(l - 1) |-> Imu(p.imu[i])]
            b == <<Cam(p.cam), Imu(p.imu[l])>>
<1>1. p.imu \in Seq(T) /\ p.cam \in T /\ \A i \in 1..l : p.imu[i] \in T
  BY ElementOfSeq
<1>2. Last(p.imu) = p.imu[l]
  BY DEF Last
<1>3. \A i \in 1..(l - 1) : Imu(p.imu[i]) \in EntryOf(T)
  BY <1>1 DEF Imu, EntryOf
<1>4. a \in Seq(EntryOf(T))
  <2>1. l - 1 \in Nat
    OBVIOUS
  <2>. QED
    BY <1>3, <2>1, IsASeq
<1>5. Len(a) = l - 1
  <2>1. DOMAIN a = 1..(l - 1) /\ l - 1 \in Nat
    OBVIOUS
  <2>. QED
    BY <1>4, <2>1, LenProperties
<1>6. Cam(p.cam) \in EntryOf(T) /\ Imu(p.imu[l]) \in EntryOf(T)
  BY <1>1 DEF Imu, Cam, EntryOf
<1>7. b \in Seq(EntryOf(T)) /\ Len(b) = 2 /\ b[1] = Cam(p.cam) /\ b[2] = Imu(p.imu[l])
  BY <1>6
<1>8. Unpacked(p) = a \o b
  BY <1>2 DEF Unpacked
<1>9. \A j \in 1..(l - 1) : a[j] = Imu(p.imu[j])
  OBVIOUS
<1>. HIDE DEF a, b
<1>10. /\ a \o b \in Seq(EntryOf(T)) /\ Len(a \o b) = Len(a) + Len(b)
       /\ \A i \in 1..(Len(a) + Len(b)) : (a \o b)[i] = IF i <= Len(a) THEN a[i] ELSE b[i - Len(a)]
  BY <1>4, <1>7, ConcatProperties, ZenonT(40)
<1>11. Len(a \o b) = l + 1
  BY <1>5, <1>7, <1>10
<1>12. \A j \in 1..(l - 1) : (a \o b)[j] = Imu(p.imu[j])
  <2>1. \A j \in 1..(l - 1) : j \in 1..(Len(a) + Len(b)) /\ j <= Len(a)
    BY <1>5, <1>7
  <2>. QED
    BY <1>9, <1>10, <2>1
<1>13. (a \o b)[l] = Cam(p.cam) /\ (a \o b)[l + 1] = Imu(p.imu[l])
  <2>1. /\ l \in 1..(Len(a) + Len(b)) /\ ~(l <= Len(a)) /\ l - Len(a) = 1
        /\ l + 1 \in 1..(Len(a) + Len(b)) /\ ~(l + 1 <= Len(a)) /\ l + 1 - Len(a) = 2
    BY <1>5, <1>7
  <2>2. (a \o b)[l] = b[l - Len(a)]
    BY <1>10, <2>1
  <2>3. (a \o b)[l + 1] = b[l + 1 - Len(a)]
    BY <1>10, <2>1
  <2>. QED
    BY <1>7, <2>1, <2>2, <2>3, Zenon
<1>. QED
  BY <1>8, <1>10, <1>11, <1>12, <1>13, Zenon

LEMMA UnpackedElements ==
  ASSUME NEW p \in [imu : Seq(Nat), cam : Nat], NEW l \in Nat \ {0}, l = Len(p.imu)
  PROVE  /\ Unpacked(p) \in Seq(Entry) /\ Len(Unpacked(p)) = l + 1
         /\ \A j \in 1..(l - 1) : Unpacked(p)[j] = Imu(p.imu[j])
         /\ Unpacked(p)[l] = Cam(p.cam)
         /\ Unpacked(p)[l + 1] = Imu(p.imu[l])
<1>1. EntryOf(Nat) = Entry
  BY DEF Entry, EntryOf
<1>2. /\ Unpacked(p) \in Seq(EntryOf(Nat)) /\ Len(Unpacked(p)) = l + 1
      /\ \A j \in 1..(l - 1) : Unpacked(p)[j] = Imu(p.imu[j])
      /\ Unpacked(p)[l] = Cam(p.cam)
      /\ Unpacked(p)[l + 1] = Imu(p.imu[l])
  BY UnpackedElementsOf, SMTT(40)
<1>. QED
  BY <1>1, <1>2, Zenon

LEMMA CountOfUnpacked ==
  ASSUME NEW p \in [imu : Seq(Nat), cam : Nat], NEW l \in Nat \ {0}, l = Len(p.imu)
  PROVE  /\ \A j \in 1..(l - 1) : Count(Unpacked(p), "imu", j) = j
         /\ Count(Unpacked(p), "imu", l + 1) = l
         /\ Count(Unpacked(p), "cam", l) = 1
         /\ Count(Unpacked(p), "cam", l + 1) = 1
<1>. DEFINE u == Unpacked(p)
<1>0. \A x : Imu(x).kind = "imu" /\ Cam(x).kind = "cam"
  BY DEF Imu, Cam
<1>1. /\ \A j \in 1..(l - 1) : u[j].kind = "imu"
      /\ u[l].kind = "cam" /\ u[l + 1].kind = "imu"
  <2>1. /\ \A j \in 1..(l - 1) : u[j] = Imu(p.imu[j])
        /\ u[l] = Cam(p.cam) /\ u[l + 1] = Imu(p.imu[l])
    BY UnpackedElements
  <2>. HIDE DEF u
  <2>. QED
    BY ONLY <1>0, <2>1
<1>. HIDE DEF u
<1>2. ASSUME NEW j \in 1..(l - 1) PROVE Count(u, "imu", j) = j
  <2>1. {i \in 1..j : u[i].kind = "imu"} = 1..j
    BY ONLY <1>1, j \in 1..(l - 1), l \in Nat \ {0}
  <2>2. j \in Nat /\ Cardinality(1..j) = j
    BY FS_Interval
  <2>. QED
    BY <2>1, <2>2 DEF Count
<1>3. Count(u, "imu", l + 1) = l
  <2>1. {i \in 1..(l + 1) : u[i].kind = "imu"} = (1..(l - 1)) \cup {l + 1}
    BY ONLY <1>1, l \in Nat \ {0}
  <2>2. IsFiniteSet(1..(l - 1)) /\ Cardinality(1..(l - 1)) = l - 1
    <3>1. 1 \in Int /\ l - 1 \in Int /\ (1 > l - 1 => l - 1 = 0)
      BY ONLY l \in Nat \ {0}
    <3>2. /\ IsFiniteSet(1..(l - 1))
          /\ Cardinality(1..(l - 1)) = IF 1 > l - 1 THEN 0 ELSE (l - 1) - 1 + 1
      BY ONLY <3>1, FS_Interval, Zenon
    <3>3. (l - 1) - 1 + 1 = l - 1
      BY ONLY <3>1
    <3>. QED
      BY ONLY <3>1, <3>2, <3>3
  <2>3. Cardinality((1..(l - 1)) \cup {l + 1}) = (l - 1) + 1
    <3>1. l + 1 \notin 1..(l - 1)
      BY ONLY l \in Nat \ {0}
    <3>. QED
      BY ONLY <2>2, <3>1, FS_AddElement
  <2>4. (l - 1) + 1 = l
    BY ONLY l \in Nat \ {0}
  <2>. QED
    BY ONLY <2>1, <2>3, <2>4 DEF Count
<1>4. /\ {i \in 1..l : u[i].kind = "cam"} = {l}
      /\ {i \in 1..(l + 1) : u[i].kind = "cam"} = {l}
  <2>1. \A i \in 1..(l + 1) : i = l \/ i = l + 1 \/ i \in 1..(l - 1)
    BY ONLY l \in Nat \ {0}
  <2>2. \A i \in 1..(l + 1) : u[i].kind = "cam" <=> i = l
    BY ONLY <1>1, <2>1, l \in Nat \ {0}
  <2>3. l \in 1..l /\ l \in 1..(l + 1) /\ 1..l \subseteq 1..(l + 1)
    BY ONLY l \in Nat \ {0}
  <2>. QED
    BY ONLY <2>2, <2>3
<1>. QED
  BY <1>2, <1>3, <1>4, FS_Singleton DEF Count, u

\* A sample lies between two frames, and one before the first.
Gaps(times) ==
  /\ times # <<>> => times[1] >= 2
  /\ \A i \in 1..(Len(times) - 1) : \E n \in Nat : times[i] < 2 * n /\ 2 * n <= times[i + 1]

\* The first sample of the q-th packet under way, or of data_buffer after them, when a
\* samples have been published.
StartOf(a, sent, q) == IF q = 1 THEN 2 * a + 2 ELSE Last(sent[q - 1].imu) + 2

\* The samples under way are those after the ones published, one by one, up to the n-th.
SamplesOK(a, sent, buf, n) ==
  /\ \A q \in 1..Len(sent) : \A j \in 1..Len(sent[q].imu) :
       sent[q].imu[j] + 2 = StartOf(a, sent, q) + 2 * j
  /\ \A j \in 1..Len(buf) : buf[j] + 2 = StartOf(a, sent, Len(sent) + 1) + 2 * j
  /\ StartOf(a, sent, Len(sent) + 1) = 2 * n + 2 - 2 * Len(buf)

\* The frames under way are those after the c published: in packets, held back, in cam_.
FramesOK(c, sent, held, cam, times) ==
  LET taken == c + Len(sent) + (IF held = None THEN 0 ELSE 1)
  IN  /\ taken + Len(cam) = Len(times)
      /\ \A q \in 1..Len(sent) : sent[q].cam = times[c + q]
      /\ held # None => held = times[taken]
      /\ \A j \in 1..Len(cam) : cam[j] = times[taken + j]

\* A packet ends with a sample newer than its frame.
PacketsOK(sent) ==
  \A q \in 1..Len(sent) : sent[q].imu # <<>> /\ Last(sent[q].imu) > sent[q].cam

\* The frame held back is not older than the n-th sample.
HeldOK(held, n) == held # None => 2 * n <= held

\* What is on its way from the n samples and the frames to the a and c published.
DeviceOK(d, a, c, n, times) ==
  /\ SamplesOK(a, d.sent, d.data_buffer, n)
  /\ FramesOK(c, d.sent, d.latest_cam, d.cam, times)
  /\ PacketsOK(d.sent)

LEMMA SampleBuffered ==
  ASSUME NEW a \in Nat, NEW sent \in Packets, NEW buf \in Seq(Nat), NEW n \in Nat,
         SamplesOK(a, sent, buf, n)
  PROVE  SamplesOK(a, sent, Append(buf, 2 * (n + 1)), n + 1)
<1>. DEFINE after == Append(buf, 2 * (n + 1))
            start == StartOf(a, sent, Len(sent) + 1)
<1>1. /\ Len(buf) \in Nat /\ Len(after) = Len(buf) + 1
      /\ \A j \in 1..Len(buf) : after[j] = buf[j]
      /\ after[Len(buf) + 1] = 2 * n + 2
  BY AppendProperties, LenProperties
<1>2. /\ \A j \in 1..Len(buf) : buf[j] + 2 = start + 2 * j
      /\ start = 2 * n + 2 - 2 * Len(buf)
  BY DEF SamplesOK
<1>. HIDE DEF start, after
<1>3. ASSUME NEW j \in 1..Len(after) PROVE after[j] + 2 = start + 2 * j
  <2>1. CASE j \in 1..Len(buf)
    BY <1>1, <1>2, <2>1
  <2>2. CASE j = Len(buf) + 1
    BY ONLY <1>1, <1>2, <2>2, n \in Nat
  <2>. QED
    BY <1>1, <2>1, <2>2
<1>4. start = 2 * (n + 1) + 2 - 2 * Len(after)
  BY ONLY <1>1, <1>2, n \in Nat
<1>. QED
  BY <1>3, <1>4 DEF SamplesOK, start, after

\* The samples of data_buffer, sent in a packet.
LEMMA SamplesSent ==
  ASSUME NEW a \in Nat, NEW sent \in Packets, NEW buf \in Seq(Nat), NEW n \in Nat,
         buf # <<>>, SamplesOK(a, sent, buf, n),
         NEW p \in [imu : Seq(Nat), cam : Nat], p.imu = buf
  PROVE  SamplesOK(a, Append(sent, p), <<>>, n)
<1>. DEFINE after == Append(sent, p)
            z == Len(sent)
<1>1. /\ z \in Nat /\ Len(after) = z + 1 /\ after[z + 1] = p
      /\ \A q \in 1..z : after[q] = sent[q]
  BY AppendProperties, LenProperties DEF Packets
<1>2. Len(buf) \in Nat /\ Len(buf) >= 1 /\ Last(buf) = buf[Len(buf)] /\ Len(buf) \in 1..Len(buf)
  BY LenProperties, EmptySeq DEF Last
<1>3. /\ \A q \in 1..z : \A j \in 1..Len(sent[q].imu) :
           sent[q].imu[j] + 2 = StartOf(a, sent, q) + 2 * j
      /\ \A j \in 1..Len(buf) : buf[j] + 2 = StartOf(a, sent, z + 1) + 2 * j
      /\ StartOf(a, sent, z + 1) = 2 * n + 2 - 2 * Len(buf)
  BY DEF SamplesOK
<1>. HIDE DEF after, z
<1>4. \A q \in 1..(z + 1) : StartOf(a, after, q) = StartOf(a, sent, q)
  BY <1>1 DEF StartOf
<1>5. Last(buf) + 2 = 2 * n + 2
  <2>1. buf[Len(buf)] + 2 = StartOf(a, sent, z + 1) + 2 * Len(buf)
    BY ONLY <1>2, <1>3
  <2>. QED
    BY ONLY <1>2, <1>3, <2>1, n \in Nat
<1>6. StartOf(a, after, (z + 1) + 1) = 2 * n + 2
  <2>1. (z + 1) + 1 # 1 /\ ((z + 1) + 1) - 1 = z + 1
    BY <1>1
  <2>. QED
    BY <1>1, <1>5, <2>1 DEF StartOf
<1>7. ASSUME NEW q \in 1..(z + 1), NEW j \in 1..Len(after[q].imu)
      PROVE  after[q].imu[j] + 2 = StartOf(a, after, q) + 2 * j
  <2>1. CASE q \in 1..z
    <3>1. after[q] = sent[q] /\ StartOf(a, after, q) = StartOf(a, sent, q)
      BY ONLY <1>1, <1>4, <2>1
    <3>2. j \in 1..Len(sent[q].imu)
      BY <3>1
    <3>3. sent[q].imu[j] + 2 = StartOf(a, sent, q) + 2 * j
      BY ONLY <1>3, <2>1, <3>2
    <3>. QED
      BY ONLY <3>1, <3>3
  <2>2. CASE q = z + 1
    BY <1>1, <1>3, <1>4, <2>2
  <2>. QED
    BY <1>1, <2>1, <2>2
<1>8. Len(<<>>) = 0
  BY EmptySeq
<1>. QED
  BY <1>1, <1>6, <1>7, <1>8 DEF SamplesOK, after

\* A frame held back, sent in a packet.
LEMMA FrameSent ==
  ASSUME NEW c \in Nat, NEW sent \in Packets, NEW held \in Nat, NEW cam \in Seq(Nat),
         NEW times \in Seq(Nat), held # None, FramesOK(c, sent, held, cam, times),
         NEW p \in [imu : Seq(Nat), cam : Nat], p.cam = held
  PROVE  FramesOK(c, Append(sent, p), None, cam, times)
<1>. DEFINE after == Append(sent, p)
            z == Len(sent)
<1>1. /\ z \in Nat /\ Len(after) = z + 1 /\ after[z + 1] = p
      /\ \A q \in 1..z : after[q] = sent[q]
  BY AppendProperties, LenProperties DEF Packets
<1>2. /\ (c + z + 1) + Len(cam) = Len(times)
      /\ \A q \in 1..z : sent[q].cam = times[c + q]
      /\ held = times[c + z + 1]
      /\ \A j \in 1..Len(cam) : cam[j] = times[(c + z + 1) + j]
  BY DEF FramesOK
<1>. HIDE DEF after, z
<1>3. c + (z + 1) + 0 = c + z + 1 /\ c + (z + 1) = c + z + 1
  BY <1>1
<1>4. ASSUME NEW q \in 1..(z + 1) PROVE after[q].cam = times[c + q]
  <2>1. CASE q \in 1..z
    BY <1>1, <1>2, <2>1
  <2>2. CASE q = z + 1
    BY <1>1, <1>2, <1>3, <2>2
  <2>. QED
    BY <1>1, <2>1, <2>2
<1>5. /\ Len(after) = z + 1 /\ (c + (z + 1) + 0) + Len(cam) = Len(times)
      /\ \A j \in 1..Len(cam) : cam[j] = times[(c + (z + 1) + 0) + j]
  BY <1>1, <1>2, <1>3
<1>. QED
  BY <1>4, <1>5 DEF FramesOK, after

\* The next frame of cam_, held back.
LEMMA FrameHeld ==
  ASSUME NEW c \in Nat, NEW sent \in Packets, NEW cam \in Seq(Nat), NEW times \in Seq(Nat),
         cam # <<>>, Head(cam) # None, FramesOK(c, sent, None, cam, times)
  PROVE  FramesOK(c, sent, Head(cam), Tail(cam), times)
<1>. DEFINE z == Len(sent)
            m == Len(Tail(cam))
<1>1. z \in Nat /\ Len(cam) \in Nat /\ Len(cam) = m + 1 /\ m \in Nat
  BY LenProperties, HeadTailProperties DEF Packets
<1>2. Head(cam) = cam[1] /\ \A j \in 1..m : Tail(cam)[j] = cam[j + 1]
  BY HeadTailProperties
<1>3. /\ (c + z + 0) + Len(cam) = Len(times)
      /\ \A q \in 1..z : sent[q].cam = times[c + q]
      /\ \A j \in 1..Len(cam) : cam[j] = times[(c + z + 0) + j]
  BY DEF FramesOK
<1>4. /\ Head(cam) = times[c + z + 1] /\ (c + z + 1) + m = Len(times)
      /\ \A j \in 1..m : Tail(cam)[j] = times[(c + z + 1) + j]
  <2>1. c + z + 0 + 1 = c + z + 1
    BY <1>1
  <2>2. ASSUME NEW j \in 1..m PROVE Tail(cam)[j] = times[(c + z + 1) + j]
    <3>1. j + 1 \in 1..Len(cam) /\ (c + z + 0) + (j + 1) = (c + z + 1) + j
      BY <1>1
    <3>. QED
      BY <1>2, <1>3, <3>1
  <2>3. Head(cam) = times[c + z + 1]
    <3>1. 1 \in 1..Len(cam)
      BY <1>1
    <3>. QED
      BY <1>2, <1>3, <2>1, <3>1
  <2>. QED
    BY <1>1, <1>3, <2>2, <2>3
<1>. QED
  BY <1>3, <1>4 DEF FramesOK

\* The assignments to the fields of device_tx, each with what it leaves alone.
LEMMA BufferAssignedOf ==
  ASSUME NEW T, NEW d \in DevicesOf(T), NEW x \in T
  PROVE  LET e == [d EXCEPT !.data_buffer = Append(@, x)]
         IN  /\ e \in DevicesOf(T) /\ e.data_buffer = Append(d.data_buffer, x)
             /\ e.latest_cam = d.latest_cam /\ e.cam = d.cam /\ e.sent = d.sent
<1>1. PICK b \in Seq(T) : b = Append(d.data_buffer, x)
  BY AppendProperties DEF DevicesOf
<1>2. PICK e : e = [d EXCEPT !.data_buffer = b]
  OBVIOUS
<1>3. /\ e \in DevicesOf(T) /\ e.data_buffer = b
      /\ e.latest_cam = d.latest_cam /\ e.cam = d.cam /\ e.sent = d.sent
  BY <1>2 DEF DevicesOf
<1>4. [d EXCEPT !.data_buffer = Append(@, x)] = e
  BY <1>1, <1>2, Zenon
<1>. QED
  BY <1>1, <1>3, <1>4, Zenon

LEMMA BufferAssigned ==
  ASSUME NEW d \in Devices, NEW x \in Nat
  PROVE  LET e == [d EXCEPT !.data_buffer = Append(@, x)]
         IN  /\ e \in Devices /\ e.data_buffer = Append(d.data_buffer, x)
             /\ e.latest_cam = d.latest_cam /\ e.cam = d.cam /\ e.sent = d.sent
BY BufferAssignedOf DEF Devices, Packets, DevicesOf

LEMMA CamTakenOf ==
  ASSUME NEW T, NEW d \in DevicesOf(T), d.cam # <<>>
  PROVE  LET e == [d EXCEPT !.cam = Tail(@)]
         IN  /\ e \in DevicesOf(T) /\ e.cam = Tail(d.cam)
             /\ e.data_buffer = d.data_buffer /\ e.latest_cam = d.latest_cam /\ e.sent = d.sent
<1>1. PICK b \in Seq(T) : b = Tail(d.cam)
  BY HeadTailProperties DEF DevicesOf
<1>2. PICK e : e = [d EXCEPT !.cam = b]
  OBVIOUS
<1>3. /\ e \in DevicesOf(T) /\ e.cam = b
      /\ e.data_buffer = d.data_buffer /\ e.latest_cam = d.latest_cam /\ e.sent = d.sent
  BY <1>2 DEF DevicesOf
<1>4. [d EXCEPT !.cam = Tail(@)] = e
  BY <1>1, <1>2, Zenon
<1>. QED
  BY <1>1, <1>3, <1>4, Zenon

LEMMA CamTaken ==
  ASSUME NEW d \in Devices, d.cam # <<>>
  PROVE  LET e == [d EXCEPT !.cam = Tail(@)]
         IN  /\ e \in Devices /\ e.cam = Tail(d.cam)
             /\ e.data_buffer = d.data_buffer /\ e.latest_cam = d.latest_cam /\ e.sent = d.sent
BY CamTakenOf DEF Devices, Packets, DevicesOf

LEMMA LatestAssignedOf ==
  ASSUME NEW T, NEW d \in DevicesOf(T), NEW x \in T
  PROVE  LET e == [d EXCEPT !.latest_cam = x]
         IN  /\ e \in DevicesOf(T) /\ e.latest_cam = x
             /\ e.data_buffer = d.data_buffer /\ e.cam = d.cam /\ e.sent = d.sent
BY DEF DevicesOf

LEMMA LatestAssigned ==
  ASSUME NEW d \in Devices, NEW x \in Nat
  PROVE  LET e == [d EXCEPT !.latest_cam = x]
         IN  /\ e \in Devices /\ e.latest_cam = x
             /\ e.data_buffer = d.data_buffer /\ e.cam = d.cam /\ e.sent = d.sent
BY LatestAssignedOf DEF Devices, Packets, DevicesOf

LEMMA PacketAssignedOf ==
  ASSUME NEW T, NEW d \in DevicesOf(T), NEW x \in T, None \in T
  PROVE  /\ Sent(d, x) \in DevicesOf(T)
         /\ Sent(d, x).data_buffer = <<>> /\ Sent(d, x).latest_cam = None
         /\ Sent(d, x).cam = d.cam
         /\ Sent(d, x).sent = Append(d.sent, [imu |-> d.data_buffer, cam |-> x])
<1>1. PICK p \in Seq([imu : Seq(T), cam : T]) : p = Append(d.sent, [imu |-> d.data_buffer, cam |-> x])
  <2>1. d.sent \in Seq([imu : Seq(T), cam : T]) /\ d.data_buffer \in Seq(T)
    BY DEF DevicesOf
  <2>2. [imu |-> d.data_buffer, cam |-> x] \in [imu : Seq(T), cam : T]
    BY <2>1
  <2>. QED
    BY <2>1, <2>2, AppendProperties
<1>2. PICK b \in Seq(T) : b = <<>>
  BY EmptySeq
<1>3. PICK n \in T : n = None
  OBVIOUS
<1>4. PICK e : e = [d EXCEPT !.data_buffer = b, !.latest_cam = n, !.sent = p]
  OBVIOUS
<1>5. /\ e \in DevicesOf(T) /\ e.data_buffer = b /\ e.latest_cam = n /\ e.cam = d.cam /\ e.sent = p
  BY <1>4 DEF DevicesOf
<1>6. Sent(d, x) = e
  BY <1>1, <1>2, <1>3, <1>4, Zenon DEF Sent
<1>. QED
  BY <1>1, <1>2, <1>3, <1>5, <1>6, Zenon

LEMMA PacketAssigned ==
  ASSUME NEW d \in Devices, NEW x \in Nat
  PROVE  /\ Sent(d, x) \in Devices
         /\ Sent(d, x).data_buffer = <<>> /\ Sent(d, x).latest_cam = None
         /\ Sent(d, x).cam = d.cam
         /\ Sent(d, x).sent = Append(d.sent, [imu |-> d.data_buffer, cam |-> x])
<1>1. Devices = DevicesOf(Nat) /\ None \in Nat
  BY DEF Devices, Packets, DevicesOf, None
<1>2. d \in DevicesOf(Nat)
  BY <1>1, Zenon
<1>3. /\ Sent(d, x) \in DevicesOf(Nat)
      /\ Sent(d, x).data_buffer = <<>> /\ Sent(d, x).latest_cam = None
      /\ Sent(d, x).cam = d.cam
      /\ Sent(d, x).sent = Append(d.sent, [imu |-> d.data_buffer, cam |-> x])
  BY <1>1, <1>2, PacketAssignedOf
<1>. QED
  BY <1>1, <1>3, Zenon

\* send_imu_cam_data with the frame held back.
LEMMA PacketSent ==
  ASSUME NEW d \in Devices, NEW a \in Nat, NEW c \in Nat, NEW n \in Nat,
         NEW times \in Seq(Nat), DeviceOK(d, a, c, n, times),
         d.latest_cam # None, d.data_buffer # <<>>, Last(d.data_buffer) > d.latest_cam,
         NEW e \in Devices, e.data_buffer = <<>>, e.latest_cam = None, e.cam = d.cam,
         e.sent = Append(d.sent, [imu |-> d.data_buffer, cam |-> d.latest_cam])
  PROVE  DeviceOK(e, a, c, n, times)
<1>1. /\ d.data_buffer \in Seq(Nat) /\ d.latest_cam \in Nat /\ d.cam \in Seq(Nat)
      /\ d.sent \in Packets
  BY DEF Devices
<1>0. PICK p : p = [imu |-> d.data_buffer, cam |-> d.latest_cam]
  OBVIOUS
<1>2. /\ p \in [imu : Seq(Nat), cam : Nat]
      /\ p.imu = d.data_buffer /\ p.cam = d.latest_cam
  BY ONLY <1>0, <1>1
<1>3. e.sent = Append(d.sent, p)
  BY <1>0, Zenon
<1>4. SamplesOK(a, e.sent, e.data_buffer, n)
  BY <1>1, <1>2, <1>3, SamplesSent DEF DeviceOK
<1>5. FramesOK(c, e.sent, e.latest_cam, e.cam, times)
  BY <1>1, <1>2, <1>3, FrameSent, SMTT(30) DEF DeviceOK
<1>6. PacketsOK(e.sent)
  <2>1. /\ Len(d.sent) \in Nat /\ Len(e.sent) = Len(d.sent) + 1
        /\ e.sent[Len(d.sent) + 1] = p
        /\ \A q \in 1..Len(d.sent) : e.sent[q] = d.sent[q]
    BY <1>1, <1>2, <1>3, AppendProperties, LenProperties DEF Packets
  <2>. SUFFICES ASSUME NEW q \in 1..Len(e.sent)
                PROVE  e.sent[q].imu # <<>> /\ Last(e.sent[q].imu) > e.sent[q].cam
    BY DEF PacketsOK
  <2>2. CASE q \in 1..Len(d.sent)
    BY <2>1, <2>2 DEF DeviceOK, PacketsOK
  <2>3. CASE q = Len(d.sent) + 1
    BY <1>2, <2>1, <2>3
  <2>. QED
    BY <2>1, <2>2, <2>3
<1>. QED
  BY <1>4, <1>5, <1>6 DEF DeviceOK

\* The next frame of cam_ becomes latest_cam_time_.
LEMMA FrameTakenBack ==
  ASSUME NEW d \in Devices, NEW a \in Nat, NEW c \in Nat, NEW n \in Nat,
         NEW times \in Seq(Nat), DeviceOK(d, a, c, n, times),
         d.latest_cam = None, d.cam # <<>>, Head(d.cam) # None,
         NEW e \in Devices, e.data_buffer = d.data_buffer, e.sent = d.sent,
         e.cam = Tail(d.cam), e.latest_cam = Head(d.cam)
  PROVE  DeviceOK(e, a, c, n, times)
<1>1. d.cam \in Seq(Nat) /\ d.sent \in Packets
  BY DEF Devices
<1>2. FramesOK(c, d.sent, None, d.cam, times)
  BY DEF DeviceOK
<1>3. FramesOK(c, e.sent, e.latest_cam, e.cam, times)
  BY <1>1, <1>2, FrameHeld
<1>. QED
  BY <1>3 DEF DeviceOK

LEMMA FramePositive ==
  ASSUME NEW times \in Seq(Nat), Gaps(times), NEW i \in 1..Len(times)
  PROVE  times[i] >= 1
<1>1. CASE i = 1
  BY <1>1 DEF Gaps
<1>2. CASE i # 1
  <2>1. i - 1 \in 1..(Len(times) - 1) /\ (i - 1) + 1 = i /\ Len(times) \in Nat
    BY <1>2
  <2>2. PICK k \in Nat : times[i - 1] < 2 * k /\ 2 * k <= times[i]
    BY <2>1 DEF Gaps
  <2>3. times[i - 1] \in Nat /\ times[i] \in Nat
    BY <2>1, ElementOfSeq
  <2>. QED
    BY <2>2, <2>3
<1>. QED
  BY <1>1, <1>2

\* The frames of cam_ are frames.
LEMMA FrameOfCam ==
  ASSUME NEW d \in Devices, NEW a \in Nat, NEW c \in Nat, NEW n \in Nat,
         NEW times \in Seq(Nat), DeviceOK(d, a, c, n, times), Gaps(times), d.cam # <<>>
  PROVE  /\ Head(d.cam) \in Nat /\ Head(d.cam) # None
         /\ d.latest_cam # None => \E k \in Nat : d.latest_cam < 2 * k /\ 2 * k <= Head(d.cam)
<1>. DEFINE m == c + Len(d.sent) + (IF d.latest_cam = None THEN 0 ELSE 1)
<1>1. /\ d.latest_cam \in Nat /\ d.cam \in Seq(Nat) /\ d.sent \in Packets
      /\ Len(d.sent) \in Nat /\ Len(times) \in Nat /\ Len(d.cam) \in Nat /\ Len(d.cam) >= 1
  <2>1. d.latest_cam \in Nat /\ d.cam \in Seq(Nat) /\ d.sent \in Packets
    BY DEF Devices
  <2>. QED
    BY <2>1, LenProperties, EmptySeq DEF Packets
<1>2. m \in Nat /\ m + 1 \in 1..Len(times) /\ Head(d.cam) = times[m + 1]
  <2>1. /\ m + Len(d.cam) = Len(times)
        /\ \A j \in 1..Len(d.cam) : d.cam[j] = times[m + j]
    BY DEF DeviceOK, FramesOK
  <2>2. m \in Nat /\ 1 \in 1..Len(d.cam) /\ Head(d.cam) = d.cam[1]
    <3>1. (IF d.latest_cam = None THEN 0 ELSE 1) \in Nat
      OBVIOUS
    <3>. DEFINE y == IF d.latest_cam = None THEN 0 ELSE 1
    <3>4. m = c + Len(d.sent) + y /\ y \in Nat
      BY <3>1
    <3>. HIDE DEF m, y
    <3>2. m \in Nat
      BY ONLY <1>1, <3>4, c \in Nat
    <3>3. Head(d.cam) = d.cam[1]
      BY <1>1
    <3>. QED
      BY <1>1, <3>2, <3>3
  <2>. HIDE DEF m
  <2>3. d.cam[1] = times[m + 1]
    BY ONLY <2>1, <2>2
  <2>4. m + 1 \in 1..Len(times)
    BY ONLY <1>1, <2>1, <2>2
  <2>. QED
    BY ONLY <2>2, <2>3, <2>4
<1>3. Head(d.cam) \in Nat /\ Head(d.cam) # None
  <2>. HIDE DEF m
  <2>1. times[m + 1] >= 1 /\ times[m + 1] \in Nat
    BY <1>2, FramePositive, ElementOfSeq
  <2>. QED
    BY <1>2, <2>1 DEF None
<1>4. ASSUME d.latest_cam # None
      PROVE  \E k \in Nat : d.latest_cam < 2 * k /\ 2 * k <= Head(d.cam)
  <2>1. d.latest_cam = times[m] /\ m >= 1
    <3>1. m = c + Len(d.sent) + 1
      BY ONLY <1>4
    <3>2. d.latest_cam = times[m]
      BY ONLY <1>4, DeviceOK(d, a, c, n, times) DEF DeviceOK, FramesOK
    <3>. HIDE DEF m
    <3>. QED
      BY ONLY <1>1, <3>1, <3>2, c \in Nat
  <2>. HIDE DEF m
  <2>2. m \in 1..(Len(times) - 1)
    BY <1>1, <1>2, <2>1
  <2>. QED
    BY <1>2, <2>1, <2>2 DEF Gaps
<1>. QED
  BY <1>3, <1>4

\* prepare_imu_cam_data for the sample after the n-th.
LEMMA SamplePrepared ==
  ASSUME NEW d \in Devices, NEW a \in Nat, NEW c \in Nat, NEW n \in Nat,
         NEW times \in Seq(Nat), DeviceOK(d, a, c, n, times), Gaps(times),
         HeldOK(d.latest_cam, n),
         NEW t \in Nat, t = 2 * n + 2,
         NEW b, b = [d EXCEPT !.data_buffer = Append(@, t)]
  PROVE  /\ FrameTaken(HeldSent(b, t), t) \in Devices
         /\ DeviceOK(FrameTaken(HeldSent(b, t), t), a, c, n + 1, times)
         /\ HeldOK(FrameTaken(HeldSent(b, t), t).latest_cam, n + 1)
<1>1. /\ d.data_buffer \in Seq(Nat) /\ d.sent \in Packets /\ d.latest_cam \in Nat
      /\ n + 1 \in Nat
  BY DEF Devices
<1>2. /\ b \in Devices /\ b.data_buffer = Append(d.data_buffer, t)
      /\ b.latest_cam = d.latest_cam /\ b.cam = d.cam /\ b.sent = d.sent
  BY BufferAssigned, Zenon
<1>3. b.data_buffer # <<>> /\ Last(b.data_buffer) = t
  <2>1. /\ Append(d.data_buffer, t) \in Seq(Nat)
        /\ Len(Append(d.data_buffer, t)) = Len(d.data_buffer) + 1
        /\ Append(d.data_buffer, t)[Len(d.data_buffer) + 1] = t
        /\ Len(d.data_buffer) \in Nat
    BY ONLY <1>1, t \in Nat, AppendProperties, LenProperties
  <2>2. Len(<<>>) = 0
    BY EmptySeq
  <2>3. Last(b.data_buffer) = b.data_buffer[Len(b.data_buffer)]
    BY DEF Last
  <2>4. b.data_buffer # <<>>
    <3>1. Len(b.data_buffer) # 0
      BY ONLY <1>2, <2>1
    <3>. QED
      BY ONLY <2>2, <3>1
  <2>5. b.data_buffer[Len(b.data_buffer)] = t
    BY ONLY <1>2, <2>1
  <2>. QED
    BY ONLY <2>3, <2>4, <2>5
<1>4. DeviceOK(b, a, c, n + 1, times)
  <2>1. t = 2 * (n + 1)
    OBVIOUS
  <2>2. SamplesOK(a, d.sent, Append(d.data_buffer, t), n + 1)
    BY <1>1, <2>1, SampleBuffered DEF DeviceOK
  <2>. QED
    BY ONLY <1>2, <2>2, DeviceOK(d, a, c, n, times) DEF DeviceOK
<1>5. PICK h : h = HeldSent(b, t)
  OBVIOUS
<1>6. /\ h \in Devices /\ DeviceOK(h, a, c, n + 1, times) /\ HeldOK(h.latest_cam, n + 1)
      /\ \/ h.data_buffer # <<>> /\ Last(h.data_buffer) = t
         \/ h.cam # <<>> => t <= Head(h.cam)
  <2>1. CASE b.latest_cam # None /\ t > b.latest_cam
    <3>1. h = Sent(b, b.latest_cam)
      BY <1>5, <2>1 DEF HeldSent
    <3>2. /\ h \in Devices /\ h.data_buffer = <<>> /\ h.latest_cam = None /\ h.cam = b.cam
          /\ h.sent = Append(b.sent, [imu |-> b.data_buffer, cam |-> b.latest_cam])
      <4>1. b \in Devices /\ b.latest_cam \in Nat
        BY <1>1, <1>2
      <4>. QED
        BY ONLY <3>1, <4>1, PacketAssigned, Zenon
    <3>3. DeviceOK(h, a, c, n + 1, times)
      BY <1>1, <1>2, <1>3, <1>4, <2>1, <3>2, PacketSent
    <3>4. ASSUME b.cam # <<>> PROVE t <= Head(b.cam)
      <4>1. Head(d.cam) \in Nat /\ \E k \in Nat : d.latest_cam < 2 * k /\ 2 * k <= Head(d.cam)
        BY <1>2, <2>1, <3>4, FrameOfCam
      <4>2. 2 * n <= d.latest_cam
        BY <1>2, <2>1 DEF HeldOK
      <4>3. PICK k \in Nat : d.latest_cam < 2 * k /\ 2 * k <= Head(d.cam)
        BY <4>1
      <4>4. 2 * n + 2 <= 2 * k
        BY <1>1, <4>2, <4>3
      <4>. QED
        BY ONLY <1>2, <4>1, <4>3, <4>4, t = 2 * n + 2, n \in Nat
    <3>. QED
      BY <3>2, <3>3, <3>4 DEF HeldOK
  <2>2. CASE ~(b.latest_cam # None /\ t > b.latest_cam)
    <3>1. h = b
      BY <1>5, <2>2 DEF HeldSent
    <3>2. HeldOK(b.latest_cam, n + 1)
      BY <1>1, <1>2, <2>2 DEF HeldOK
    <3>. QED
      BY <1>2, <1>3, <1>4, <3>1, <3>2
  <2>. QED
    BY <2>1, <2>2
<1>7. SUFFICES ASSUME NEW e, e = FrameTaken(h, t)
               PROVE  e \in Devices /\ DeviceOK(e, a, c, n + 1, times)
                      /\ HeldOK(e.latest_cam, n + 1)
  BY <1>5
<1>8. CASE h.cam = <<>> \/ h.latest_cam # None
  BY <1>6, <1>7, <1>8 DEF FrameTaken
<1>9. CASE h.cam # <<>> /\ h.latest_cam = None
  <2>1. Head(h.cam) \in Nat /\ Head(h.cam) # None
    BY <1>1, <1>6, <1>9, FrameOfCam
  <2>2. PICK f \in Nat : f = Head(h.cam)
    BY <2>1
  <2>3. PICK k : k = [h EXCEPT !.cam = Tail(@)]
    OBVIOUS
  <2>4. /\ k \in Devices /\ k.cam = Tail(h.cam)
        /\ k.data_buffer = h.data_buffer /\ k.latest_cam = h.latest_cam /\ k.sent = h.sent
    BY <1>6, <1>9, <2>3, CamTaken, Zenon
  <2>5. PICK g : g = [k EXCEPT !.latest_cam = f]
    OBVIOUS
  <2>6. /\ g \in Devices /\ g.latest_cam = f /\ g.cam = Tail(h.cam)
        /\ g.data_buffer = h.data_buffer /\ g.sent = h.sent
    BY <2>4, <2>5, LatestAssigned, Zenon
  <2>7. DeviceOK(g, a, c, n + 1, times)
    BY <1>1, <1>6, <1>9, <2>1, <2>2, <2>6, FrameTakenBack
  <2>8. CASE t <= f
    <3>1. e = g
      BY <1>7, <1>9, <2>2, <2>3, <2>5, <2>8 DEF FrameTaken, HeldBack
    <3>. QED
      BY <2>6, <2>7, <2>8, <3>1 DEF HeldOK
  <2>9. CASE ~(t <= f)
    <3>1. e = Sent(k, f)
      BY <1>7, <1>9, <2>2, <2>3, <2>9 DEF FrameTaken, HeldBack
    <3>2. /\ e \in Devices /\ e.data_buffer = <<>> /\ e.latest_cam = None /\ e.cam = k.cam
          /\ e.sent = Append(k.sent, [imu |-> k.data_buffer, cam |-> f])
      BY <2>4, <3>1, PacketAssigned
    <3>3. h.data_buffer # <<>> /\ Last(h.data_buffer) = t /\ t > f /\ f # None
      BY <1>6, <1>9, <2>1, <2>2, <2>9
    <3>4. DeviceOK(e, a, c, n + 1, times)
      BY <1>1, <2>4, <2>6, <2>7, <3>2, <3>3, PacketSent
    <3>. QED
      BY <3>2, <3>4 DEF HeldOK
  <2>. QED
    BY <2>8, <2>9
<1>. QED
  BY <1>8, <1>9

\* A frame that arrives in cam_.
LEMMA FrameArrived ==
  ASSUME NEW c \in Nat, NEW sent \in Packets, NEW held \in Nat, NEW cam \in Seq(Nat),
         NEW times \in Seq(Nat), NEW t \in Nat, FramesOK(c, sent, held, cam, times)
  PROVE  FramesOK(c, sent, held, Append(cam, t), Append(times, t))
<1>1. PICK y \in {0, 1} : y = IF held = None THEN 0 ELSE 1
  OBVIOUS
<1>2. PICK z \in Nat : z = Len(sent)
  BY LenProperties DEF Packets
<1>3. PICK m \in Nat : m = c + z + y
  BY <1>1, <1>2
<1>4. PICK l \in Nat : l = Len(cam)
  BY LenProperties
<1>5. /\ m + l = Len(times)
      /\ \A q \in 1..z : sent[q].cam = times[c + q]
      /\ held # None => held = times[m]
      /\ \A j \in 1..l : cam[j] = times[m + j]
  BY <1>1, <1>2, <1>3, <1>4 DEF FramesOK
<1>6. /\ Len(Append(cam, t)) = l + 1 /\ Append(cam, t)[l + 1] = t
      /\ \A j \in 1..l : Append(cam, t)[j] = cam[j]
  BY <1>4, AppendProperties
<1>7. /\ Len(Append(times, t)) = m + l + 1 /\ Append(times, t)[m + l + 1] = t
      /\ \A j \in 1..(m + l) : Append(times, t)[j] = times[j]
  BY <1>5, AppendProperties, SMTT(30)
<1>8. \A q \in 1..z : sent[q].cam = Append(times, t)[c + q]
  <2>. SUFFICES ASSUME NEW q \in 1..z PROVE sent[q].cam = Append(times, t)[c + q]
    OBVIOUS
  <2>1. c + q \in 1..(m + l)
    BY ONLY <1>1, <1>2, <1>3, <1>4, c \in Nat, q \in 1..z
  <2>. QED
    BY <1>5, <1>7, <2>1
<1>9. held # None => held = Append(times, t)[m]
  <2>1. held # None => m \in 1..(m + l)
    BY ONLY <1>1, <1>2, <1>3, <1>4, c \in Nat
  <2>. QED
    BY <1>5, <1>7, <2>1
<1>10. ASSUME NEW j \in 1..(l + 1) PROVE Append(cam, t)[j] = Append(times, t)[m + j]
  <2>1. CASE j = l + 1
    <3>1. m + j = m + l + 1
      BY <2>1
    <3>. QED
      BY ONLY <1>6, <1>7, <2>1, <3>1
  <2>2. CASE j \in 1..l
    <3>1. m + j \in 1..(m + l)
      BY <2>2
    <3>. QED
      BY <1>5, <1>6, <1>7, <2>2, <3>1
  <2>3. j = l + 1 \/ j \in 1..l
    BY ONLY l \in Nat, j \in 1..(l + 1)
  <2>. QED
    BY ONLY <2>1, <2>2, <2>3
<1>11. m + (l + 1) = m + l + 1
  OBVIOUS
<1>. QED
  BY <1>1, <1>2, <1>3, <1>6, <1>7, <1>8, <1>9, <1>10, <1>11 DEF FramesOK

LEMMA GapsGrow ==
  ASSUME NEW times \in Seq(Nat), Gaps(times), NEW t \in Nat, NEW n \in Nat, 2 * n <= t,
         n >= 1, times # <<>> => times[Len(times)] < 2 * n
  PROVE  Gaps(Append(times, t))
<1>. DEFINE after == Append(times, t)
<1>1. PICK l \in Nat : l = Len(times)
  BY LenProperties
<1>2. /\ Len(after) = l + 1 /\ after[l + 1] = t
      /\ \A j \in 1..l : after[j] = times[j]
  BY <1>1, AppendProperties
<1>3. times = <<>> <=> l = 0
  BY <1>1, EmptySeq
<1>. HIDE DEF after
<1>4. after[1] >= 2
  <2>1. CASE l = 0
    BY <1>2, <2>1
  <2>2. CASE l # 0
    BY <1>2, <1>3, <2>2 DEF Gaps
  <2>. QED
    BY <2>1, <2>2
<1>5. ASSUME NEW i \in 1..l
      PROVE  \E k \in Nat : after[i] < 2 * k /\ 2 * k <= after[i + 1]
  <2>1. CASE i = l
    BY <1>1, <1>2, <1>3, <2>1
  <2>2. CASE i # l
    BY <1>1, <1>2, <2>2, SMTT(30) DEF Gaps
  <2>. QED
    BY <2>1, <2>2
<1>6. (l + 1) - 1 = l
  OBVIOUS
<1>. QED
  BY <1>2, <1>4, <1>5, <1>6 DEF Gaps, after

\* The first packet under way: its samples and its frame are the next, and what is under
\* way after it follows them.
\* The packet holds the samples after the a-th and the frame after the c-th.
Carries(p, a, c, times) ==
  /\ \A j \in 1..Len(p.imu) : p.imu[j] = 2 * (a + j)
  /\ p.cam = times[c + 1]
  /\ 2 * (a + Len(p.imu)) > p.cam

LEMMA PacketOfDevice ==
  ASSUME NEW d \in Devices, PacketsOK(d.sent), d.sent # <<>>
  PROVE  /\ Head(d.sent) \in [imu : Seq(Nat), cam : Nat]
         /\ Len(Head(d.sent).imu) \in Nat \ {0}
<1>1. d.sent \in Packets
  BY DEF Devices
<1>2. Head(d.sent) = d.sent[1] /\ 1 \in 1..Len(d.sent)
  BY <1>1, LenProperties, EmptySeq DEF Packets
<1>3. PICK p \in [imu : Seq(Nat), cam : Nat] : p = Head(d.sent)
  BY <1>1, HeadTailProperties DEF Packets
<1>4. p.imu # <<>> /\ p.imu \in Seq(Nat)
  BY <1>2, <1>3 DEF PacketsOK
<1>5. Len(p.imu) \in Nat \ {0}
  BY ONLY <1>4, LenProperties, EmptySeq
<1>. QED
  BY <1>3, <1>5

LEMMA PacketTaken ==
  ASSUME NEW d \in Devices, NEW a \in Nat, NEW c \in Nat, NEW n \in Nat,
         NEW times \in Seq(Nat), DeviceOK(d, a, c, n, times), d.sent # <<>>,
         NEW p \in [imu : Seq(Nat), cam : Nat], p = Head(d.sent),
         NEW l \in Nat \ {0}, Len(p.imu) = l,
         NEW e, e.data_buffer = d.data_buffer, e.latest_cam = d.latest_cam, e.cam = d.cam,
         e.sent = Tail(d.sent)
  PROVE  Carries(p, a, c, times) /\ DeviceOK(e, a + l, c + 1, n, times)
<1>1. /\ d.sent \in Packets /\ d.data_buffer \in Seq(Nat)
  BY DEF Devices
<1>0. /\ Tail(d.sent) \in Packets /\ Len(Tail(d.sent)) = Len(d.sent) - 1
      /\ Head(d.sent) \in [imu : Seq(Nat), cam : Nat]
      /\ \A q \in 1..Len(Tail(d.sent)) : Tail(d.sent)[q] = d.sent[q + 1]
      /\ Len(d.sent) \in Nat /\ Len(Tail(d.sent)) \in Nat
  BY <1>1, HeadTailProperties, LenProperties DEF Packets
<1>r. PICK z : z = Len(Tail(d.sent))
  OBVIOUS
<1>2. z \in Nat /\ z + 1 = Len(d.sent) /\ z = Len(Tail(d.sent))
  BY ONLY <1>0, <1>r
<1>3. /\ p = d.sent[1] /\ p \in [imu : Seq(Nat), cam : Nat]
      /\ \A q \in 1..z : Tail(d.sent)[q] = d.sent[q + 1]
  <2>1. Head(d.sent) = d.sent[1]
    OBVIOUS
  <2>. QED
    BY ONLY <1>0, <1>2, <2>1, p = Head(d.sent)
<1>4. 1 \in 1..Len(d.sent)
  BY <1>2
<1>5. l \in Nat \ {0} /\ Last(p.imu) = p.imu[l] /\ Last(p.imu) > p.cam
  <2>1. p.imu # <<>> /\ Last(p.imu) > p.cam
    BY <1>3, <1>4 DEF DeviceOK, PacketsOK
  <2>2. p.imu \in Seq(Nat)
    BY <1>3
  <2>. QED
    BY ONLY l = Len(p.imu), <2>1, <2>2, EmptySeq DEF Last
<1>6. ASSUME NEW j \in 1..l PROVE p.imu[j] = 2 * (a + j) /\ p.imu[j] \in Nat
  <2>1. p.imu[j] + 2 = StartOf(a, d.sent, 1) + 2 * j
    BY <1>3, <1>4 DEF DeviceOK, SamplesOK
  <2>2. StartOf(a, d.sent, 1) = 2 * a + 2
    BY DEF StartOf
  <2>3. p.imu[j] \in Nat
    BY <1>3, <1>5, ElementOfSeq
  <2>. QED
    <3>1. PICK x \in Nat : x = p.imu[j]
      BY <2>3
    <3>2. x + 2 = (2 * a + 2) + 2 * j
      BY <2>1, <2>2, <3>1
    <3>3. x = 2 * (a + j)
      BY ONLY <3>2, x \in Nat, a \in Nat, j \in 1..l, l \in Nat \ {0}
    <3>. QED
      BY <3>1, <3>3
<1>7. Last(p.imu) = 2 * (a + l)
  <2>1. l \in 1..l
    BY ONLY <1>5
  <2>. QED
    BY ONLY <1>5, <1>6, <2>1
<1>8. \A q \in 1..(z + 1) : StartOf(a + l, Tail(d.sent), q) = StartOf(a, d.sent, q + 1)
  <2>. SUFFICES ASSUME NEW q \in 1..(z + 1)
                PROVE  StartOf(a + l, Tail(d.sent), q) = StartOf(a, d.sent, q + 1)
    OBVIOUS
  <2>1. CASE q = 1
    <3>1. StartOf(a + l, Tail(d.sent), q) = 2 * (a + l) + 2
      BY <2>1 DEF StartOf
    <3>2. StartOf(a, d.sent, q + 1) = Last(p.imu) + 2
      <4>1. q + 1 # 1 /\ (q + 1) - 1 = 1
        BY <2>1
      <4>. QED
        BY <1>3, <4>1 DEF StartOf
    <3>. QED
      BY ONLY <1>7, <3>1, <3>2
  <2>2. CASE q # 1
    <3>1. q + 1 # 1 /\ (q + 1) - 1 = q /\ q - 1 \in 1..z /\ (q - 1) + 1 = q
      BY <1>2, <2>2
    <3>2. Tail(d.sent)[q - 1] = d.sent[q]
      BY <1>3, <3>1
    <3>. QED
      BY ONLY <1>2, <2>2, <3>1, <3>2 DEF StartOf
  <2>. QED
    BY <2>1, <2>2
<1>9. SamplesOK(a + l, Tail(d.sent), d.data_buffer, n)
  <2>1. /\ \A q \in 1..(z + 1) : \A j \in 1..Len(d.sent[q].imu) :
             d.sent[q].imu[j] + 2 = StartOf(a, d.sent, q) + 2 * j
        /\ \A j \in 1..Len(d.data_buffer) :
             d.data_buffer[j] + 2 = StartOf(a, d.sent, (z + 1) + 1) + 2 * j
        /\ StartOf(a, d.sent, (z + 1) + 1) = 2 * n + 2 - 2 * Len(d.data_buffer)
    BY <1>2 DEF DeviceOK, SamplesOK
  <2>2. ASSUME NEW q \in 1..z, NEW j \in 1..Len(Tail(d.sent)[q].imu)
        PROVE  Tail(d.sent)[q].imu[j] + 2 = StartOf(a + l, Tail(d.sent), q) + 2 * j
    <3>1. q + 1 \in 1..(z + 1) /\ q \in 1..(z + 1)
      BY <1>2
    <3>2. Tail(d.sent)[q] = d.sent[q + 1]
      BY <1>3
    <3>3. StartOf(a + l, Tail(d.sent), q) = StartOf(a, d.sent, q + 1)
      BY <1>8, <3>1
    <3>4. j \in 1..Len(d.sent[q + 1].imu)
      BY <3>2
    <3>. QED
      BY ONLY <2>1, <3>1, <3>2, <3>3, <3>4
  <2>3. StartOf(a + l, Tail(d.sent), z + 1) = StartOf(a, d.sent, (z + 1) + 1)
    <3>1. z + 1 \in 1..(z + 1)
      BY <1>2
    <3>. QED
      BY <1>8, <3>1
  <2>. QED
    BY ONLY <1>2, <2>1, <2>2, <2>3 DEF SamplesOK
<1>10. PICK y \in {0, 1} : y = IF d.latest_cam = None THEN 0 ELSE 1
  OBVIOUS
<1>11. /\ c + (z + 1) + y + Len(d.cam) = Len(times)
       /\ \A q \in 1..(z + 1) : d.sent[q].cam = times[c + q]
       /\ d.latest_cam # None => d.latest_cam = times[c + (z + 1) + y]
       /\ \A j \in 1..Len(d.cam) : d.cam[j] = times[c + (z + 1) + y + j]
  BY <1>2, <1>10 DEF DeviceOK, FramesOK
<1>12. p.cam = times[c + 1]
  BY <1>2, <1>3, <1>4, <1>11
<1>13. FramesOK(c + 1, Tail(d.sent), d.latest_cam, d.cam, times)
  <2>1. c + (z + 1) + y = (c + 1) + z + y
    <3>1. z \in Nat /\ y \in Nat /\ c \in Nat
      BY <1>2, <1>10
    <3>. QED
      BY ONLY <3>1
  <2>2. ASSUME NEW q \in 1..z PROVE Tail(d.sent)[q].cam = times[(c + 1) + q]
    <3>1. q + 1 \in 1..(z + 1) /\ c + (q + 1) = (c + 1) + q
      BY ONLY <1>2, c \in Nat, q \in 1..z
    <3>. QED
      BY <1>3, <1>11, <3>1
  <2>. QED
    BY ONLY <1>2, <1>10, <1>11, <2>1, <2>2 DEF FramesOK
<1>14. PacketsOK(Tail(d.sent))
  <2>. SUFFICES ASSUME NEW q \in 1..z
                PROVE  Tail(d.sent)[q].imu # <<>> /\ Last(Tail(d.sent)[q].imu) > Tail(d.sent)[q].cam
    BY <1>2 DEF PacketsOK
  <2>1. q + 1 \in 1..Len(d.sent)
    BY <1>2
  <2>. QED
    BY <1>3, <2>1 DEF DeviceOK, PacketsOK
<1>15. DeviceOK(e, a + l, c + 1, n, times)
  BY <1>9, <1>13, <1>14, Zenon DEF DeviceOK
<1>16. Carries(p, a, c, times)
  <2>1. l = Len(p.imu)
    OBVIOUS
  <2>2. 2 * (a + l) > p.cam
    BY ONLY <1>5, <1>7
  <2>. QED
    BY ONLY <1>6, <1>12, <2>1, <2>2 DEF Carries
<1>. QED
  BY <1>15, <1>16

\* Where the tracker is in the two streams.
ImuPublished == CountOf("imu", Len(published))
CamPublished == CountOf("cam", Len(published))

VioTypes ==
  /\ imus \in Nat
  /\ frameTimes \in Seq(Nat)
  /\ device \in Devices
  /\ published \in Seq(Entry)

\* StreamsIntact and CameraCaptured with what is still to come: the samples and frames
\* under way go on where the published ones end.
VioInv ==
  /\ VioTypes
  /\ Gaps(frameTimes)
  /\ HeldOK(device.latest_cam, imus)
  /\ DeviceOK(device, ImuPublished, CamPublished, imus, frameTimes)
  /\ StreamsIntact
  /\ CameraCaptured

LEMMA VioInitial == VioInit => VioInv
<1>. SUFFICES ASSUME VioInit PROVE VioInv
  OBVIOUS
<1>1. Len(<<>>) = 0 /\ \A S : <<>> \in Seq(S)
  BY EmptySeq
<1>2. /\ device.data_buffer = <<>> /\ device.latest_cam = None
      /\ device.cam = <<>> /\ device.sent = <<>>
      /\ imus = 0 /\ frameTimes = <<>> /\ published = <<>>
  BY DEF VioInit
<1>3. device \in Devices
  <2>1. <<>> \in Seq(Nat) /\ <<>> \in Packets /\ None \in Nat
    BY <1>1 DEF Packets, None
  <2>2. [data_buffer |-> <<>>, latest_cam |-> None, cam |-> <<>>, sent |-> <<>>] \in Devices
    BY <2>1 DEF Devices
  <2>. QED
    BY <2>2 DEF VioInit
<1>4. VioTypes
  BY <1>1, <1>2, <1>3 DEF VioTypes
<1>5. Gaps(frameTimes) /\ HeldOK(device.latest_cam, imus)
  BY <1>1, <1>2 DEF Gaps, HeldOK
<1>6. ImuPublished = 0 /\ CamPublished = 0
  <2>1. \A kind : {j \in 1..0 : published[j].kind = kind} = {}
    OBVIOUS
  <2>. QED
    BY <1>1, <1>2, <2>1, FS_EmptySet DEF ImuPublished, CamPublished, CountOf
<1>7. SamplesOK(0, <<>>, <<>>, 0)
  <2>1. StartOf(0, <<>>, Len(<<>>) + 1) = 2
    BY <1>1 DEF StartOf
  <2>. QED
    BY <1>1, <2>1 DEF SamplesOK
<1>8. FramesOK(0, <<>>, None, <<>>, <<>>)
  BY <1>1 DEF FramesOK, None
<1>9. PacketsOK(<<>>)
  BY <1>1 DEF PacketsOK
<1>10. DeviceOK(device, ImuPublished, CamPublished, imus, frameTimes)
  BY <1>2, <1>6, <1>7, <1>8, <1>9 DEF DeviceOK
<1>11. StreamsIntact /\ CameraCaptured
  BY <1>1, <1>2 DEF StreamsIntact, CameraCaptured
<1>. QED
  BY <1>4, <1>5, <1>10, <1>11 DEF VioInv

\* The sequence has a samples and c frames.
Totals(s, a, c) == Count(s, "imu", Len(s)) = a /\ Count(s, "cam", Len(s)) = c

\* StreamsIntact and CameraCaptured, of any sequence.
Streams(s, times) ==
  \A i \in 1..Len(s) : s[i] = IF s[i].kind = "imu" THEN Imu(2 * Count(s, "imu", i))
                                                   ELSE Cam(times[Count(s, "cam", i)])
Captured(s) ==
  \A i \in 1..Len(s) : s[i].kind = "cam" =>
    i < Len(s) /\ s[i + 1].kind = "imu" /\ s[i + 1].time > s[i].time

LEMMA CountBounds ==
  ASSUME NEW s, NEW kind, NEW n \in Nat, NEW i \in 1..n, s[i].kind = kind
  PROVE  Count(s, kind, i) \in 1..Count(s, kind, n)
<1>. DEFINE A == {j \in 1..i : s[j].kind = kind}
            B == {j \in 1..n : s[j].kind = kind}
<1>1. A \subseteq B /\ i \in A
  OBVIOUS
<1>2. i \in Nat /\ IsFiniteSet(B) /\ IsFiniteSet(A)
  <2>1. i \in Nat
    OBVIOUS
  <2>. QED
    BY <2>1, CountFinite, ZenonT(40)
<1>3. Cardinality(A) <= Cardinality(B) /\ Cardinality(A) \in Nat /\ Cardinality(B) \in Nat
  BY <1>1, <1>2, FS_Subset, FS_CardinalityType
<1>4. Cardinality(A) # 0
  BY <1>1, <1>2, FS_EmptySet
<1>. QED
  BY <1>3, <1>4 DEF Count

LEMMA StreamsWithFrame ==
  ASSUME NEW s \in Seq(Entry), NEW times \in Seq(Nat), NEW t \in Nat, Streams(s, times),
         Count(s, "cam", Len(s)) <= Len(times)
  PROVE  Streams(s, Append(times, t))
<1>1. Len(s) \in Nat /\ Len(times) \in Nat
  BY LenProperties
<1>2. \A j \in 1..Len(times) : Append(times, t)[j] = times[j]
  BY AppendProperties
<1>3. ASSUME NEW i \in 1..Len(s)
      PROVE  s[i] = IF s[i].kind = "imu" THEN Imu(2 * Count(s, "imu", i))
                                         ELSE Cam(Append(times, t)[Count(s, "cam", i)])
  <2>1. CASE s[i].kind = "imu"
    BY <2>1 DEF Streams
  <2>2. CASE s[i].kind = "cam"
    <3>1. Count(s, "cam", i) \in 1..Count(s, "cam", Len(s)) /\ Count(s, "cam", Len(s)) \in Nat
      BY <1>1, <2>2, CountBounds, CountFinite
    <3>2. Count(s, "cam", i) \in 1..Len(times)
      BY <1>1, <3>1
    <3>3. s[i] = Cam(times[Count(s, "cam", i)])
      BY <2>2 DEF Streams
    <3>. QED
      BY <1>2, <2>2, <3>2, <3>3
  <2>3. s[i].kind \in {"imu", "cam"}
    <3>1. s[i] \in Entry
      BY ElementOfSeq
    <3>. QED
      BY <3>1 DEF Entry
  <2>. QED
    BY <2>1, <2>2, <2>3
<1>. QED
  BY <1>3 DEF Streams

LEMMA CamAssignedOf ==
  ASSUME NEW T, NEW d \in DevicesOf(T), NEW x \in T
  PROVE  LET e == [d EXCEPT !.cam = Append(@, x)]
         IN  /\ e \in DevicesOf(T) /\ e.cam = Append(d.cam, x)
             /\ e.data_buffer = d.data_buffer /\ e.latest_cam = d.latest_cam /\ e.sent = d.sent
<1>1. PICK b \in Seq(T) : b = Append(d.cam, x)
  BY AppendProperties DEF DevicesOf
<1>2. PICK e : e = [d EXCEPT !.cam = b]
  OBVIOUS
<1>3. /\ e \in DevicesOf(T) /\ e.cam = b
      /\ e.data_buffer = d.data_buffer /\ e.latest_cam = d.latest_cam /\ e.sent = d.sent
  BY <1>2 DEF DevicesOf
<1>4. [d EXCEPT !.cam = Append(@, x)] = e
  BY <1>1, <1>2, Zenon
<1>. QED
  BY <1>1, <1>3, <1>4, Zenon

LEMMA CamAssigned ==
  ASSUME NEW d \in Devices, NEW x \in Nat
  PROVE  LET e == [d EXCEPT !.cam = Append(@, x)]
         IN  /\ e \in Devices /\ e.cam = Append(d.cam, x)
             /\ e.data_buffer = d.data_buffer /\ e.latest_cam = d.latest_cam /\ e.sent = d.sent
BY CamAssignedOf DEF Devices, Packets, DevicesOf

\* What has been published of each kind is a number, and frames no more than arrived.
LEMMA PublishedBounds ==
  ASSUME VioInv
  PROVE  ImuPublished \in Nat /\ CamPublished \in Nat /\ CamPublished <= Len(frameTimes)
<1>1. Len(published) \in Nat /\ Len(frameTimes) \in Nat /\ device \in Devices
  BY LenProperties DEF VioInv, VioTypes
<1>2. ImuPublished \in Nat /\ CamPublished \in Nat
  BY <1>1, CountFinite DEF ImuPublished, CamPublished, CountOf, Count
<1>3. FramesOK(CamPublished, device.sent, device.latest_cam, device.cam, frameTimes)
  BY DEF VioInv, DeviceOK
<1>4. Len(device.sent) \in Nat /\ Len(device.cam) \in Nat
  BY <1>1, LenProperties DEF Devices, Packets
<1>5. PICK y \in {0, 1} : y = IF device.latest_cam = None THEN 0 ELSE 1
  OBVIOUS
<1>6. CamPublished + Len(device.sent) + y + Len(device.cam) = Len(frameTimes)
  BY <1>3, <1>5 DEF FramesOK
<1>7. PICK c \in Nat, z \in Nat, l \in Nat :
        c = CamPublished /\ z = Len(device.sent) /\ l = Len(device.cam)
  BY <1>2, <1>4
<1>8. c <= c + z + y + l
  BY ONLY c \in Nat, z \in Nat, l \in Nat, y \in {0, 1}
<1>. QED
  BY <1>2, <1>6, <1>7, <1>8

LEMMA CamArrivesStep ==
  ASSUME VioInv, NEW t \in 1..(2 * MaxImu + 1), CamArrives(t)
  PROVE  VioInv'
<1>1. PICK a \in Nat, c \in Nat : a = ImuPublished /\ c = CamPublished /\ c <= Len(frameTimes)
  BY PublishedBounds
<1>2. PICK n \in 1..MaxImu : LastFrame < 2 * n /\ 2 * n <= t
  BY DEF CamArrives
<1>3. t \in Nat /\ n \in Nat /\ n >= 1 /\ 2 * n <= t
  BY <1>2, VioAssumption
<1>4. /\ imus \in Nat /\ frameTimes \in Seq(Nat) /\ device \in Devices /\ published \in Seq(Entry)
      /\ Gaps(frameTimes) /\ HeldOK(device.latest_cam, imus)
      /\ DeviceOK(device, a, c, imus, frameTimes)
  BY <1>1 DEF VioInv, VioTypes
<1>5. PICK r : r = Append(frameTimes, t)
  OBVIOUS
<1>6. /\ frameTimes' = r /\ imus' = imus /\ published' = published
      /\ device' = [device EXCEPT !.cam = Append(@, t)]
  BY <1>5 DEF CamArrives
<1>7. /\ device' \in Devices /\ device'.cam = Append(device.cam, t)
      /\ device'.data_buffer = device.data_buffer
      /\ device'.latest_cam = device.latest_cam /\ device'.sent = device.sent
  BY <1>3, <1>4, <1>6, CamAssigned, Zenon
<1>8. r \in Seq(Nat)
  BY <1>3, <1>4, <1>5, AppendProperties
<1>9. Gaps(r)
  <2>1. frameTimes # <<>> => frameTimes[Len(frameTimes)] < 2 * n
    BY <1>2 DEF LastFrame, Last
  <2>. QED
    BY <1>3, <1>4, <1>5, <2>1, GapsGrow
<1>10. FramesOK(c, device'.sent, device'.latest_cam, device'.cam, r)
  <2>1. /\ device.sent \in Packets /\ device.latest_cam \in Nat /\ device.cam \in Seq(Nat)
        /\ FramesOK(c, device.sent, device.latest_cam, device.cam, frameTimes)
    BY <1>4 DEF Devices, DeviceOK
  <2>2. FramesOK(c, device.sent, device.latest_cam, Append(device.cam, t), Append(frameTimes, t))
    BY <1>3, <1>4, <2>1, FrameArrived
  <2>. QED
    BY <1>5, <1>7, <2>2
<1>11. DeviceOK(device', a, c, imus, r)
  <2>1. SamplesOK(a, device.sent, device.data_buffer, imus) /\ PacketsOK(device.sent)
    BY <1>4 DEF DeviceOK
  <2>. QED
    BY <1>7, <1>10, <2>1 DEF DeviceOK
<1>12. Streams(published, r)
  <2>1. Streams(published, frameTimes)
    BY DEF VioInv, StreamsIntact, Streams, CountOf, Count
  <2>2. Count(published, "cam", Len(published)) <= Len(frameTimes)
    BY <1>1 DEF CamPublished, CountOf, Count
  <2>. QED
    BY <1>3, <1>4, <1>5, <2>1, <2>2, StreamsWithFrame
<1>13. StreamsIntact'
  BY <1>6, <1>12 DEF StreamsIntact, Streams, CountOf, Count
<1>14. CameraCaptured'
  BY <1>6 DEF VioInv, CameraCaptured
<1>15. ImuPublished' = a /\ CamPublished' = c
  BY <1>1, <1>6 DEF ImuPublished, CamPublished, CountOf
<1>16. DeviceOK(device, ImuPublished, CamPublished, imus, frameTimes)'
  BY <1>6, <1>11, <1>15
<1>. QED
  BY <1>4, <1>6, <1>7, <1>8, <1>9, <1>13, <1>14, <1>16 DEF VioInv, VioTypes, HeldOK

LEMMA PrepareImuCamStep ==
  ASSUME VioInv, PrepareImuCam
  PROVE  VioInv'
<1>1. PICK a \in Nat, c \in Nat : a = ImuPublished /\ c = CamPublished
  BY PublishedBounds
<1>2. /\ imus \in Nat /\ frameTimes \in Seq(Nat) /\ device \in Devices /\ published \in Seq(Entry)
      /\ Gaps(frameTimes) /\ HeldOK(device.latest_cam, imus)
      /\ DeviceOK(device, a, c, imus, frameTimes)
  BY <1>1 DEF VioInv, VioTypes
<1>3. PICK t \in Nat : t = 2 * (imus + 1) /\ t = 2 * imus + 2
  BY <1>2
<1>4. PICK b : b = [device EXCEPT !.data_buffer = Append(@, t)]
  OBVIOUS
<1>5. /\ imus' = imus + 1 /\ device' = FrameTaken(HeldSent(b, t), t)
      /\ frameTimes' = frameTimes /\ published' = published
  BY <1>3, <1>4, Zenon DEF PrepareImuCam
<1>6. /\ device' \in Devices /\ DeviceOK(device', a, c, imus + 1, frameTimes)
      /\ HeldOK(device'.latest_cam, imus + 1)
  BY <1>2, <1>3, <1>4, <1>5, SamplePrepared
<1>7. StreamsIntact' /\ CameraCaptured'
  BY <1>5 DEF VioInv, StreamsIntact, CameraCaptured, CountOf
<1>8. ImuPublished' = a /\ CamPublished' = c
  BY <1>1, <1>5 DEF ImuPublished, CamPublished, CountOf
<1>9. DeviceOK(device, ImuPublished, CamPublished, imus, frameTimes)'
  BY <1>5, <1>6, <1>8
<1>10. VioTypes' /\ Gaps(frameTimes)' /\ HeldOK(device.latest_cam, imus)'
  BY <1>2, <1>5, <1>6 DEF VioTypes
<1>. QED
  BY <1>7, <1>9, <1>10 DEF VioInv

\* A packet of l samples, published after the a samples and c frames before it.
LEMMA StreamsWithPacket ==
  ASSUME NEW s \in Seq(Entry), NEW times \in Seq(Nat), Streams(s, times), Captured(s),
         NEW a \in Nat, NEW c \in Nat, Totals(s, a, c),
         NEW p \in [imu : Seq(Nat), cam : Nat], NEW l \in Nat \ {0}, Len(p.imu) = l,
         Carries(p, a, c, times),
         NEW r, r = s \o Unpacked(p)
  PROVE  /\ r \in Seq(Entry) /\ Streams(r, times) /\ Captured(r)
         /\ Totals(r, a + l, c + 1)
<1>0. /\ Count(s, "imu", Len(s)) = a /\ Count(s, "cam", Len(s)) = c
      /\ \A j \in 1..l : p.imu[j] = 2 * (a + j)
      /\ p.cam = times[c + 1] /\ 2 * (a + l) > p.cam
  BY DEF Carries, Totals
<1>1. PICK u \in Seq(Entry) :
        /\ u = Unpacked(p) /\ Len(u) = l + 1
        /\ \A j \in 1..(l - 1) : u[j] = Imu(p.imu[j])
        /\ u[l] = Cam(p.cam) /\ u[l + 1] = Imu(p.imu[l])
  BY UnpackedElements
<1>2. /\ \A j \in 1..(l - 1) : Count(u, "imu", j) = j
      /\ Count(u, "imu", l + 1) = l
      /\ Count(u, "cam", l) = 1 /\ Count(u, "cam", l + 1) = 1
  BY <1>1, CountOfUnpacked
<1>3. PICK n \in Nat : n = Len(s)
  BY LenProperties
<1>4. /\ r \in Seq(Entry) /\ Len(r) = n + (l + 1)
      /\ \A j \in 1..n : r[j] = s[j]
      /\ \A j \in 1..(l + 1) : r[n + j] = u[j]
  <2>1. /\ r \in Seq(Entry) /\ Len(r) = Len(s) + Len(u)
        /\ \A k \in 1..(Len(s) + Len(u)) : r[k] = IF k <= Len(s) THEN s[k] ELSE u[k - Len(s)]
    <3>1. r = s \o u
      BY <1>1, Zenon
    <3>. QED
      BY ONLY <3>1, ConcatProperties, s \in Seq(Entry), u \in Seq(Entry)
  <2>2. \A k \in 1..(n + (l + 1)) : r[k] = IF k <= n THEN s[k] ELSE u[k - n]
    BY <1>1, <1>3, <2>1
  <2>3. ASSUME NEW j \in 1..(l + 1) PROVE r[n + j] = u[j]
    <3>1. n + j \in 1..(n + (l + 1)) /\ ~(n + j <= n) /\ (n + j) - n = j
      BY ONLY n \in Nat, j \in 1..(l + 1), l \in Nat \ {0}
    <3>. QED
      BY <2>2, <3>1
  <2>. QED
    <3>1. Len(r) = n + (l + 1) /\ r \in Seq(Entry)
      BY ONLY <1>1, <1>3, <2>1
    <3>2. ASSUME NEW j \in 1..n PROVE r[j] = s[j]
      <4>1. j \in 1..(n + (l + 1)) /\ j <= n
        BY ONLY n \in Nat, j \in 1..n, l \in Nat \ {0}
      <4>. QED
        BY ONLY <2>2, <4>1
    <3>. QED
      BY ONLY <2>3, <3>1, <3>2
<1>5. \A kind : \A j \in 1..n : Count(r, kind, j) = Count(s, kind, j)
  BY <1>1, <1>3, CountOfPrefix
<1>6. \A kind : \A m \in 0..(l + 1) : Count(r, kind, n + m) = Count(s, kind, n) + Count(u, kind, m)
  <2>1. r = s \o u /\ u \in Seq(Entry) /\ s \in Seq(Entry)
    BY <1>1, Zenon
  <2>. QED
    BY ONLY <1>1, <1>3, <2>1, CountOfConcat
<1>7. \A x : Imu(x).kind = "imu" /\ Imu(x).time = x /\ Cam(x).kind = "cam" /\ Cam(x).time = x
  BY DEF Imu, Cam
<1>8. ASSUME NEW i \in 1..(n + (l + 1))
      PROVE  \/ i \in 1..n
             \/ \E m \in 1..(l - 1) : i = n + m
             \/ i = n + l
             \/ i = n + (l + 1)
  <2>1. CASE i > n
    <3>1. i - n \in 1..(l + 1) /\ i = n + (i - n)
      BY ONLY i \in 1..(n + (l + 1)), n \in Nat, l \in Nat \ {0}, <2>1
    <3>2. i - n \in 1..(l - 1) \/ i - n = l \/ i - n = l + 1
      BY ONLY <3>1, l \in Nat \ {0}
    <3>. QED
      BY <3>1, <3>2
  <2>. QED
    BY <2>1
<1>9. /\ \A m \in 1..(l - 1) : r[n + m] = Imu(2 * (a + m)) /\ Count(r, "imu", n + m) = a + m
      /\ r[n + l] = Cam(times[c + 1]) /\ Count(r, "cam", n + l) = c + 1
      /\ r[n + (l + 1)] = Imu(2 * (a + l)) /\ Count(r, "imu", n + (l + 1)) = a + l
      /\ Count(r, "cam", n + (l + 1)) = c + 1
  <2>1. l \in 1..(l + 1) /\ l + 1 \in 1..(l + 1) /\ l \in 1..l
    BY ONLY l \in Nat \ {0}
  <2>2. \A m \in 1..(l + 1) : m \in 0..(l + 1)
    OBVIOUS
  <2>3. /\ r[n + l] = u[l] /\ Count(r, "cam", n + l) = c + Count(u, "cam", l)
        /\ r[n + (l + 1)] = u[l + 1]
        /\ Count(r, "imu", n + (l + 1)) = a + Count(u, "imu", l + 1)
        /\ Count(r, "cam", n + (l + 1)) = c + Count(u, "cam", l + 1)
    BY <1>0, <1>3, <1>4, <1>6, <2>1, <2>2
  <2>4. ASSUME NEW m \in 1..(l - 1)
        PROVE  r[n + m] = Imu(2 * (a + m)) /\ Count(r, "imu", n + m) = a + m
    <3>1. m \in 1..(l + 1) /\ m \in 0..(l + 1) /\ m \in 1..l
      BY ONLY m \in 1..(l - 1), l \in Nat \ {0}
    <3>2. r[n + m] = u[m] /\ Count(r, "imu", n + m) = a + Count(u, "imu", m)
      BY <1>0, <1>3, <1>4, <1>6, <3>1
    <3>. QED
      BY <1>0, <1>1, <1>2, <3>1, <3>2
  <2>. QED
    BY <1>0, <1>1, <1>2, <2>1, <2>3, <2>4
<1>10. Streams(r, times)
  <2>. SUFFICES ASSUME NEW i \in 1..(n + (l + 1))
                PROVE  r[i] = IF r[i].kind = "imu" THEN Imu(2 * Count(r, "imu", i))
                                                  ELSE Cam(times[Count(r, "cam", i)])
    BY <1>4 DEF Streams
  <2>1. CASE i \in 1..n
    <3>1. i \in 1..Len(s) /\ r[i] = s[i] /\ \A kind : Count(r, kind, i) = Count(s, kind, i)
      BY ONLY <1>3, <1>4, <1>5, <2>1
    <3>2. s[i] = IF s[i].kind = "imu" THEN Imu(2 * Count(s, "imu", i))
                                      ELSE Cam(times[Count(s, "cam", i)])
      BY ONLY <3>1, Streams(s, times) DEF Streams
    <3>. QED
      BY ONLY <3>1, <3>2
  <2>2. ASSUME NEW m \in 1..(l - 1), i = n + m
        PROVE  r[i] = Imu(2 * Count(r, "imu", i)) /\ r[i].kind = "imu"
    <3>1. r[i] = Imu(2 * (a + m)) /\ Count(r, "imu", i) = a + m
      BY <1>9, <2>2
    <3>. QED
      BY <1>7, <3>1
  <2>3. CASE i = n + l
    <3>1. r[i] = Cam(times[c + 1]) /\ Count(r, "cam", i) = c + 1
      BY <1>9, <2>3
    <3>. QED
      BY <1>7, <3>1
  <2>4. CASE i = n + (l + 1)
    <3>1. r[i] = Imu(2 * (a + l)) /\ Count(r, "imu", i) = a + l
      BY <1>9, <2>4
    <3>. QED
      BY <1>7, <3>1
  <2>. QED
    BY ONLY <1>8, <2>1, <2>2, <2>3, <2>4
<1>11. Captured(r)
  <2>. SUFFICES ASSUME NEW i \in 1..(n + (l + 1)), r[i].kind = "cam"
                PROVE  /\ i < n + (l + 1)
                       /\ r[i + 1].kind = "imu" /\ r[i + 1].time > r[i].time
    BY <1>4 DEF Captured
  <2>1. CASE i \in 1..n
    <3>1. i < n /\ s[i + 1].kind = "imu" /\ s[i + 1].time > s[i].time
      <4>1. i \in 1..Len(s) /\ s[i].kind = "cam"
        BY ONLY <1>3, <1>4, <2>1, r[i].kind = "cam"
      <4>. QED
        BY ONLY <1>3, <4>1, Captured(s) DEF Captured
    <3>2. i + 1 \in 1..n /\ i < n + (l + 1)
      BY ONLY i \in 1..n, n \in Nat, l \in Nat \ {0}, <2>1, <3>1
    <3>. QED
      BY ONLY <1>4, <2>1, <3>1, <3>2
  <2>2. CASE i = n + l
    <3>1. i + 1 = n + (l + 1) /\ i < n + (l + 1)
      BY ONLY n \in Nat, l \in Nat \ {0}, <2>2
    <3>2. r[i] = Cam(p.cam) /\ r[i + 1] = Imu(2 * (a + l))
      BY <1>0, <1>9, <2>2, <3>1
    <3>3. 2 * (a + l) > p.cam
      BY <1>0
    <3>. QED
      BY ONLY <1>7, <3>1, <3>2, <3>3
  <2>3. ASSUME NEW m \in 1..(l - 1), i = n + m PROVE FALSE
    BY <1>7, <1>9, <2>3
  <2>4. i # n + (l + 1)
    BY <1>7, <1>9
  <2>5. i \in 1..(n + (l + 1))
    OBVIOUS
  <2>. QED
    BY ONLY <1>8, <2>1, <2>2, <2>3, <2>4, <2>5
<1>. QED
  BY <1>4, <1>9, <1>10, <1>11 DEF Totals

LEMMA ReceiveVioInputStep ==
  ASSUME VioInv, ReceiveVioInput
  PROVE  VioInv'
<1>1. PICK a \in Nat, c \in Nat : a = ImuPublished /\ c = CamPublished
  BY PublishedBounds
<1>2. /\ imus \in Nat /\ frameTimes \in Seq(Nat) /\ device \in Devices /\ published \in Seq(Entry)
      /\ DeviceOK(device, a, c, imus, frameTimes) /\ device.sent # <<>>
  BY <1>1 DEF VioInv, VioTypes, ReceiveVioInput
<1>3. PICK p \in [imu : Seq(Nat), cam : Nat] : p = Head(device.sent)
  BY <1>2, PacketOfDevice DEF DeviceOK
<1>4. PICK l \in Nat \ {0} : l = Len(p.imu)
  BY <1>2, <1>3, PacketOfDevice DEF DeviceOK
<1>5. PICK e : e = [device EXCEPT !.sent = Tail(@)]
  OBVIOUS
<1>6. PICK r : r = published \o Unpacked(p)
  OBVIOUS
<1>7. device' = e /\ published' = r /\ imus' = imus /\ frameTimes' = frameTimes
  BY <1>3, <1>5, <1>6, Zenon DEF ReceiveVioInput
<1>8. /\ e \in Devices /\ e.sent = Tail(device.sent) /\ e.data_buffer = device.data_buffer
      /\ e.latest_cam = device.latest_cam /\ e.cam = device.cam
  <2>1. PICK b \in Packets : b = Tail(device.sent)
    BY <1>2, HeadTailProperties DEF Devices, Packets
  <2>2. PICK x : x = [device EXCEPT !.sent = b]
    OBVIOUS
  <2>3. /\ x \in Devices /\ x.sent = b /\ x.data_buffer = device.data_buffer
        /\ x.latest_cam = device.latest_cam /\ x.cam = device.cam
    BY <1>2, <2>2 DEF Devices
  <2>4. x = e
    BY <1>5, <2>1, <2>2, Zenon
  <2>. QED
    BY <2>1, <2>3, <2>4, Zenon
<1>9. Carries(p, a, c, frameTimes) /\ DeviceOK(e, a + l, c + 1, imus, frameTimes)
  BY <1>2, <1>3, <1>4, <1>8, PacketTaken
<1>10. Streams(published, frameTimes) /\ Captured(published)
  BY DEF VioInv, StreamsIntact, CameraCaptured, Streams, Captured, CountOf, Count
<1>11. Totals(published, a, c)
  BY <1>1 DEF ImuPublished, CamPublished, CountOf, Count, Totals
<1>12. /\ r \in Seq(Entry) /\ Streams(r, frameTimes) /\ Captured(r)
       /\ Totals(r, a + l, c + 1)
  <2>1. Streams(r, frameTimes)
    BY <1>2, <1>4, <1>6, <1>9, <1>10, <1>11, StreamsWithPacket
  <2>2. Captured(r) /\ r \in Seq(Entry)
    BY <1>2, <1>4, <1>6, <1>9, <1>10, <1>11, StreamsWithPacket
  <2>3. Totals(r, a + l, c + 1)
    BY <1>2, <1>4, <1>6, <1>9, <1>10, <1>11, StreamsWithPacket
  <2>. QED
    BY <2>1, <2>2, <2>3
<1>13. StreamsIntact' /\ CameraCaptured'
  BY <1>7, <1>12 DEF StreamsIntact, CameraCaptured, Streams, Captured, CountOf, Count
<1>14. ImuPublished' = a + l /\ CamPublished' = c + 1
  BY <1>7, <1>12 DEF ImuPublished, CamPublished, CountOf, Count, Totals
<1>15. DeviceOK(device, ImuPublished, CamPublished, imus, frameTimes)'
  BY <1>7, <1>9, <1>14
<1>16. VioTypes' /\ Gaps(frameTimes)' /\ HeldOK(device.latest_cam, imus)'
  BY <1>2, <1>7, <1>8, <1>12 DEF VioInv, VioTypes
<1>. QED
  BY <1>13, <1>15, <1>16 DEF VioInv

LEMMA VioStepKeeps == VioInv /\ [VioNext]_vioVars => VioInv'
<1>. SUFFICES ASSUME VioInv, [VioNext]_vioVars PROVE VioInv'
  OBVIOUS
<1>1. ASSUME NEW t \in 1..(2 * MaxImu + 1), CamArrives(t) PROVE VioInv'
  BY <1>1, CamArrivesStep
<1>2. CASE PrepareImuCam
  BY <1>2, PrepareImuCamStep
<1>3. CASE ReceiveVioInput
  BY <1>3, ReceiveVioInputStep
<1>4. CASE VioFinished \/ UNCHANGED vioVars
  <2>1. UNCHANGED <<imus, frameTimes, device, published>>
    BY <1>4 DEF VioFinished, vioVars
  <2>. QED
    BY <2>1 DEF VioInv, VioTypes, ImuPublished, CamPublished, CountOf, StreamsIntact,
                CameraCaptured
<1>. QED
  BY <1>1, <1>2, <1>3, <1>4 DEF VioNext

\* The inductive invariant of offloaded odometry: what device_tx holds and what is on the
\* link continues the published streams without a gap.
THEOREM VioInductive == VioSpec => []VioInv
BY VioInitial, VioStepKeeps, PTL DEF VioSpec

\* receive_vio_input gives the tracker the device's IMU samples and camera frames each in
\* the order of their times, none lost and none twice, for any number of both and however
\* late a frame reached device_tx.
THEOREM VioStreams == VioSpec => []StreamsIntact
<1>1. VioInv => StreamsIntact
  BY DEF VioInv
<1>. QED
  BY <1>1, VioInductive, PTL

\* receive_vio_input puts an IMU sample newer than the frame right after every camera frame.
THEOREM VioCamera == VioSpec => []CameraCaptured
<1>1. VioInv => CameraCaptured
  BY DEF VioInv
<1>. QED
  BY <1>1, VioInductive, PTL
----------------------------------------------------------------------------
(* The times of the device, with the bounds of the model.                  *)

\* send_imu_cam_data and the two lines around it, for times of any set.
LEMMA PreparedTyped ==
  ASSUME NEW T, None \in T, NEW d \in DevicesOf(T), NEW t \in T,
         NEW b, b = [d EXCEPT !.data_buffer = Append(@, t)]
  PROVE  FrameTaken(HeldSent(b, t), t) \in DevicesOf(T)
<1>1. b \in DevicesOf(T)
  BY BufferAssignedOf, Zenon
<1>2. PICK h : h = HeldSent(b, t)
  OBVIOUS
<1>3. h \in DevicesOf(T)
  <2>1. CASE b.latest_cam # None /\ t > b.latest_cam
    <3>1. b.latest_cam \in T
      BY <1>1 DEF DevicesOf
    <3>2. h = Sent(b, b.latest_cam)
      BY <1>2, <2>1 DEF HeldSent
    <3>. QED
      BY <1>1, <3>1, <3>2, PacketAssignedOf
  <2>2. CASE ~(b.latest_cam # None /\ t > b.latest_cam)
    BY <1>1, <1>2, <2>2 DEF HeldSent
  <2>. QED
    BY <2>1, <2>2
<1>4. CASE h.cam = <<>> \/ h.latest_cam # None
  BY <1>2, <1>3, <1>4 DEF FrameTaken
<1>5. CASE h.cam # <<>> /\ h.latest_cam = None
  <2>1. PICK e : e = [h EXCEPT !.cam = Tail(@)]
    OBVIOUS
  <2>2. e \in DevicesOf(T)
    BY <1>3, <1>5, <2>1, CamTakenOf, Zenon
  <2>3. PICK x \in T : x = Head(h.cam)
    <3>1. h.cam \in Seq(T)
      BY <1>3 DEF DevicesOf
    <3>. QED
      BY <1>5, <3>1, HeadTailProperties
  <2>4. FrameTaken(h, t) = IF HeldBack(t, x) THEN [e EXCEPT !.latest_cam = x] ELSE Sent(e, x)
    BY <1>5, <2>1, <2>3, Zenon DEF FrameTaken
  <2>5. [e EXCEPT !.latest_cam = x] \in DevicesOf(T)
    BY <2>2, <2>3, LatestAssignedOf
  <2>6. Sent(e, x) \in DevicesOf(T)
    BY <2>2, <2>3, PacketAssignedOf
  <2>. QED
    BY <1>2, <2>4, <2>5, <2>6
<1>. QED
  BY <1>4, <1>5

VioBounded ==
  /\ imus \in 0..MaxImu
  /\ frameTimes \in Seq(Times)
  /\ device \in DevicesOf(Times)
  /\ published \in Seq(EntryOf(Times))

LEMMA VioBoundedStep == VioInv /\ VioBounded /\ [VioNext]_vioVars => VioBounded'
<1>. SUFFICES ASSUME VioInv, VioBounded, [VioNext]_vioVars PROVE VioBounded'
  OBVIOUS
<1>1. /\ imus \in 0..MaxImu /\ frameTimes \in Seq(Times) /\ device \in DevicesOf(Times)
      /\ published \in Seq(EntryOf(Times)) /\ None \in Times
  BY VioAssumption DEF VioBounded, Times, None
<1>2. ASSUME NEW t \in 1..(2 * MaxImu + 1), CamArrives(t) PROVE VioBounded'
  <2>1. t \in Times
    BY VioAssumption DEF Times
  <2>2. /\ frameTimes' = Append(frameTimes, t) /\ imus' = imus /\ published' = published
        /\ device' = [device EXCEPT !.cam = Append(@, t)]
    BY <1>2 DEF CamArrives
  <2>3. device' \in DevicesOf(Times)
    BY <1>1, <2>1, <2>2, CamAssignedOf, Zenon
  <2>4. frameTimes' \in Seq(Times)
    BY <1>1, <2>1, <2>2, AppendProperties
  <2>. QED
    BY <1>1, <2>2, <2>3, <2>4 DEF VioBounded
<1>3. CASE PrepareImuCam
  <2>1. PICK t : t = 2 * (imus + 1)
    OBVIOUS
  <2>2. imus < MaxImu
    BY <1>3 DEF PrepareImuCam
  <2>3. t \in Times /\ imus + 1 \in 0..MaxImu
    BY <1>1, <2>1, <2>2, VioAssumption DEF Times
  <2>4. PICK b : b = [device EXCEPT !.data_buffer = Append(@, t)]
    OBVIOUS
  <2>5. /\ imus' = imus + 1 /\ device' = FrameTaken(HeldSent(b, t), t)
        /\ frameTimes' = frameTimes /\ published' = published
    BY <1>3, <2>1, <2>4, Zenon DEF PrepareImuCam
  <2>6. device' \in DevicesOf(Times)
    BY <1>1, <2>3, <2>4, <2>5, PreparedTyped
  <2>. QED
    BY <1>1, <2>3, <2>5, <2>6 DEF VioBounded
<1>4. CASE ReceiveVioInput
  <2>1. device.sent # <<>> /\ device.sent \in Seq([imu : Seq(Times), cam : Times])
    BY <1>1, <1>4 DEF ReceiveVioInput, DevicesOf
  <2>2. PICK b \in Seq([imu : Seq(Times), cam : Times]) : b = Tail(device.sent)
    BY <2>1, HeadTailProperties
  <2>3. PICK p \in [imu : Seq(Times), cam : Times] : p = Head(device.sent)
    BY <2>1, HeadTailProperties
  <2>4. p.imu \in Seq(Times) /\ p.imu # <<>>
    <3>1. device.sent[1] = p /\ 1 \in 1..Len(device.sent)
      BY <2>1, <2>3, HeadTailProperties, LenProperties, EmptySeq
    <3>2. PacketsOK(device.sent)
      BY DEF VioInv, DeviceOK
    <3>. QED
      BY <2>3, <3>1, <3>2 DEF PacketsOK
  <2>5. PICK l \in Nat \ {0} : l = Len(p.imu)
    BY <2>4, EmptySeq, LenProperties
  <2>6. Unpacked(p) \in Seq(EntryOf(Times))
    BY <2>5, UnpackedElementsOf
  <2>7. PICK e : e = [device EXCEPT !.sent = b]
    OBVIOUS
  <2>8. e \in DevicesOf(Times)
    BY <1>1, <2>7 DEF DevicesOf
  <2>9. /\ imus' = imus /\ frameTimes' = frameTimes
        /\ device' = e /\ published' = published \o Unpacked(p)
    BY <1>4, <2>2, <2>3, <2>7, Zenon DEF ReceiveVioInput
  <2>10. published' \in Seq(EntryOf(Times))
    BY <1>1, <2>6, <2>9, ConcatProperties
  <2>. QED
    BY <1>1, <2>8, <2>9, <2>10 DEF VioBounded
<1>5. CASE VioFinished \/ UNCHANGED vioVars
  BY <1>1, <1>5 DEF VioFinished, vioVars, VioBounded
<1>. QED
  BY <1>2, <1>3, <1>4, <1>5 DEF VioNext

LEMMA VioBoundedInitial == VioInit => VioBounded
<1>. SUFFICES ASSUME VioInit PROVE VioBounded
  OBVIOUS
<1>1. \A S : <<>> \in Seq(S)
  BY EmptySeq
<1>2. None \in Times /\ 0 \in 0..MaxImu
  BY VioAssumption DEF Times, None
<1>3. [data_buffer |-> <<>>, latest_cam |-> None, cam |-> <<>>, sent |-> <<>>] \in DevicesOf(Times)
  BY <1>1, <1>2 DEF DevicesOf
<1>. QED
  BY <1>1, <1>2, <1>3 DEF VioInit, VioBounded

LEMMA VioTypesOfBounded == VioInv /\ VioBounded => VioTypeOK
<1>. SUFFICES ASSUME VioInv, VioBounded PROVE VioTypeOK
  OBVIOUS
<1>1. \A i \in 1..Len(device.sent) : device.sent[i].imu # <<>>
  BY DEF VioInv, DeviceOK, PacketsOK
<1>. QED
  BY <1>1 DEF VioBounded, VioTypeOK, DevicesOf, EntryOf

\* No sample or frame of device_tx, of the link or of the tracker's topics has a time that
\* the sensors did not give, and no packet is without samples.
THEOREM VioTimesBounded == VioSpec => []VioTypeOK
BY VioInductive, VioBoundedInitial, VioBoundedStep, VioTypesOfBounded, PTL DEF VioSpec

=============================================================================
