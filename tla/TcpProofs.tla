----------------------------- MODULE TcpProofs ------------------------------
(***************************************************************************)
(* The stream of frames between two endpoints: types for any number of     *)
(* senders; and, when no two of them share a host, that frames arrive      *)
(* whole, in order and once, that an event finds its topic configured, and *)
(* that the two ends implement NetworkedTopics.                            *)
(***************************************************************************)
EXTENDS TcpBackend, SequenceTheorems, TLAPS

\* A send_to_peer runs by itself: the code takes no lock.
OneSender == \A t, u \in Senders : HostOf[t] = HostOf[u] => t = u

LEMMA SizesPositive == \A f \in Frame : SizeOf(f) \in Nat /\ SizeOf(f) >= 3
BY TcpAssumption DEF Frame, SizeOf

LEMMA KindSizes == ASSUME NEW f, f.kind \in Kinds PROVE SizeOf(f) \in Nat /\ SizeOf(f) >= 3
BY TcpAssumption DEF SizeOf

LEMMA PeerOfPeer == \A h \in Hosts : Peer(h) \in Hosts /\ Peer(h) # h /\ Peer(Peer(h)) = h
BY DEF Hosts, Peer

----------------------------------------------------------------------------
(* Streams.  The frames of fs from the first on are laid out in stream,    *)
(* each n of them from its start[n], and after them the beginning of f.    *)

Streams == Seq([of : Frame, at : Nat])

\* The starts, one frame after the other.
StartsOK(fs, first, start) ==
  /\ first \in 1..(Len(fs) + 1)
  /\ start \in [first..(Len(fs) + 1) -> Nat]
  /\ start[first] = 0
  /\ \A n \in first..Len(fs) : start[n + 1] = start[n] + SizeOf(fs[n])
  /\ \A n \in first..Len(fs) : \A p \in (n + 1)..(Len(fs) + 1) :
       start[n] + SizeOf(fs[n]) <= start[p]

\* The units of stream from one start to the next, and those after the last.
Laid(stream, fs, first, start, f) ==
  /\ StartsOK(fs, first, start)
  /\ \A n \in first..Len(fs) : \A j \in 1..SizeOf(fs[n]) :
       stream[start[n] + j] = [of |-> fs[n], at |-> j]
  /\ start[Len(fs) + 1] <= Len(stream)
  /\ Len(stream) - start[Len(fs) + 1] < SizeOf(f)
  /\ \A j \in 1..(Len(stream) - start[Len(fs) + 1]) :
       stream[start[Len(fs) + 1] + j] = [of |-> f, at |-> j]
  /\ \A i \in 1..Len(stream) : \E n \in first..(Len(fs) + 1) :
       start[n] < i /\ (n <= Len(fs) => i <= start[n + 1])

\* Units is a sequence of the units it names.
LEMMA UnitsElements ==
  ASSUME NEW f \in Frame, NEW i \in Nat, NEW n \in Nat \ {0}
  PROVE  /\ Units(f, i + 1, i + n) \in Streams
         /\ Len(Units(f, i + 1, i + n)) = n
         /\ \A j \in 1..n : Units(f, i + 1, i + n)[j] = [of |-> f, at |-> i + j]
<1>. DEFINE u == Units(f, i + 1, i + n)
<1>1. u = [j \in 1..n |-> [of |-> f, at |-> i + j]]
  <2>1. (i + n) - (i + 1) + 1 = n
    OBVIOUS
  <2>2. \A j \in 1..n : i + 1 + j - 1 = i + j
    OBVIOUS
  <2>. QED
    BY <2>1, <2>2 DEF Units
<1>. HIDE DEF u
<1>2. \A j \in 1..n : [of |-> f, at |-> i + j] \in [of : Frame, at : Nat]
  OBVIOUS
<1>3. u \in Streams
  BY <1>1, <1>2, IsASeq DEF Streams
<1>4. Len(u) = n
  <2>1. DOMAIN u = 1..n
    BY <1>1
  <2>. QED
    BY <1>3, <2>1, LenProperties DEF Streams
<1>5. \A j \in 1..n : u[j] = [of |-> f, at |-> i + j]
  BY <1>1
<1>. QED
  BY <1>3, <1>4, <1>5 DEF u

\* What a write appends to a stream.
LEMMA WriteAppends ==
  ASSUME NEW stream \in Streams, NEW f \in Frame, NEW i \in Nat, NEW n \in Nat \ {0}
  PROVE  /\ stream \o Units(f, i + 1, i + n) \in Streams
         /\ Len(stream \o Units(f, i + 1, i + n)) = Len(stream) + n
         /\ \A x \in 1..Len(stream) : (stream \o Units(f, i + 1, i + n))[x] = stream[x]
         /\ \A j \in 1..n :
              (stream \o Units(f, i + 1, i + n))[Len(stream) + j] = [of |-> f, at |-> i + j]
<1>1. /\ Units(f, i + 1, i + n) \in Streams
      /\ Len(Units(f, i + 1, i + n)) = n
      /\ \A j \in 1..n : Units(f, i + 1, i + n)[j] = [of |-> f, at |-> i + j]
  BY UnitsElements
<1>. DEFINE u == Units(f, i + 1, i + n)
            after == stream \o u
<1>0. after = stream \o u
  OBVIOUS
<1>. HIDE DEF u, after
<1>2. u \in Streams /\ Len(u) = n /\ \A j \in 1..n : u[j] = [of |-> f, at |-> i + j]
  BY <1>1 DEF u
<1>3. after \in Streams /\ Len(after) = Len(stream) + n
  BY ONLY <1>0, <1>2, stream \in Streams, ConcatProperties DEF Streams
<1>4. \A x \in 1..Len(stream) : after[x] = stream[x]
  BY ONLY <1>0, <1>2, stream \in Streams DEF Streams
<1>5. ASSUME NEW j \in 1..n PROVE after[Len(stream) + j] = [of |-> f, at |-> i + j]
  BY ONLY <1>0, <1>2, stream \in Streams, n \in Nat DEF Streams
<1>. QED
  BY <1>3, <1>4, <1>5 DEF after, u

\* Where the starts and the frames they stand for lie.
LEMMA LaidBounds ==
  ASSUME NEW stream \in Streams, NEW fs \in Seq(Frame), NEW first, NEW start, NEW f,
         Laid(stream, fs, first, start, f)
  PROVE  /\ Len(fs) \in Nat /\ Len(stream) \in Nat /\ first \in 1..(Len(fs) + 1)
         /\ \A p \in first..(Len(fs) + 1) : start[p] \in Nat
         /\ start[Len(fs) + 1] \in Nat /\ start[Len(fs) + 1] <= Len(stream)
         /\ \A p \in first..Len(fs) :
              /\ fs[p] \in Frame /\ SizeOf(fs[p]) \in Nat \ {0}
              /\ start[p] + SizeOf(fs[p]) <= start[Len(fs) + 1]
              /\ start[p] + SizeOf(fs[p]) = start[p + 1]
<1>. DEFINE last == Len(fs) + 1
<1>1. Len(fs) \in Nat /\ Len(stream) \in Nat
  BY LenProperties DEF Streams
<1>2. first \in 1..last /\ start \in [first..last -> Nat] /\ start[last] <= Len(stream)
  BY DEF Laid, StartsOK
<1>3. last \in first..last
  BY <1>1, <1>2
<1>4. ASSUME NEW p \in first..Len(fs)
      PROVE  /\ fs[p] \in Frame /\ SizeOf(fs[p]) \in Nat \ {0}
             /\ start[p] + SizeOf(fs[p]) <= start[last]
             /\ start[p] + SizeOf(fs[p]) = start[p + 1]
  <2>1. fs[p] \in Frame
    BY <1>1, <1>2
  <2>2. last \in (p + 1)..last
    BY <1>1, <1>2
  <2>3. SizeOf(fs[p]) \in Nat \ {0}
    BY <2>1, SizesPositive
  <2>4. start[p] + SizeOf(fs[p]) <= start[last] /\ start[p] + SizeOf(fs[p]) = start[p + 1]
    BY <2>2 DEF Laid, StartsOK
  <2>. QED
    BY <2>1, <2>3, <2>4
<1>. QED
  BY <1>1, <1>2, <1>3, <1>4

\* A unit of a frame before the last lies in the stream.
LEMMA LaidInside ==
  ASSUME NEW stream \in Streams, NEW fs \in Seq(Frame), NEW first, NEW start, NEW f,
         Laid(stream, fs, first, start, f),
         NEW p \in first..Len(fs), NEW j \in 1..SizeOf(fs[p])
  PROVE  start[p] + j \in 1..start[Len(fs) + 1] /\ start[p] + j \in 1..Len(stream)
<1>. DEFINE z == SizeOf(fs[p])
            last == Len(fs) + 1
<1>1. /\ z \in Nat /\ j \in 1..z /\ start[p] + z <= start[last]
      /\ start[last] \in Nat /\ start[last] <= Len(stream) /\ Len(stream) \in Nat
      /\ start[p] \in Nat
  <2>1. p \in first..last
    BY LaidBounds
  <2>. QED
    BY <2>1, LaidBounds
<1>. HIDE DEF z, last
<1>2. start[p] + j \in 1..start[last] /\ start[p] + j \in 1..Len(stream)
  BY ONLY <1>1
<1>. QED
  BY <1>2 DEF last

\* A write that does not complete the frame.
LEMMA LaidGrows ==
  ASSUME NEW stream \in Streams, NEW fs \in Seq(Frame), NEW first, NEW start, NEW f \in Frame,
         Laid(stream, fs, first, start, f),
         NEW w \in Nat, start[Len(fs) + 1] + w = Len(stream),
         NEW n \in Nat \ {0}, w + n < SizeOf(f)
  PROVE  Laid(stream \o Units(f, w + 1, w + n), fs, first, start, f)
<1>. DEFINE after == stream \o Units(f, w + 1, w + n)
            last == Len(fs) + 1
<1>. HIDE DEF after
<1>1. /\ after \in Streams
      /\ Len(after) = Len(stream) + n
      /\ \A x \in 1..Len(stream) : after[x] = stream[x]
      /\ \A j \in 1..n : after[Len(stream) + j] = [of |-> f, at |-> w + j]
  BY WriteAppends, ZenonT(40) DEF after
<1>2. /\ first \in 1..last /\ last \in Nat \ {0} /\ Len(stream) \in Nat
      /\ start[last] \in Nat /\ start[last] + w = Len(stream)
  BY LaidBounds
<1>3. ASSUME NEW p \in first..Len(fs), NEW j \in 1..SizeOf(fs[p])
      PROVE  after[start[p] + j] = [of |-> fs[p], at |-> j]
  <2>1. start[p] + j \in 1..Len(stream)
    BY LaidInside
  <2>. QED
    BY <1>1, <2>1 DEF Laid
<1>4. ASSUME NEW j \in 1..(w + n) PROVE after[start[last] + j] = [of |-> f, at |-> j]
  <2>1. CASE j <= w
    <3>1. start[last] + j \in 1..Len(stream) /\ j \in 1..(Len(stream) - start[last])
      BY <1>2, <2>1
    <3>2. stream[start[last] + j] = [of |-> f, at |-> j]
      BY <3>1 DEF Laid
    <3>. QED
      BY <1>1, <3>1, <3>2
  <2>2. CASE j > w
    <3>1. j - w \in 1..n /\ Len(stream) + (j - w) = start[last] + j /\ w + (j - w) = j
      BY <1>2, <2>2, SMTT(30)
    <3>. QED
      BY <1>1, <3>1
  <2>. QED
    BY <2>1, <2>2
<1>5. ASSUME NEW i \in 1..Len(after)
      PROVE  \E p \in first..last : start[p] < i /\ (p <= Len(fs) => i <= start[p + 1])
  <2>1. CASE i <= Len(stream)
    BY <1>1, <1>2, <2>1 DEF Laid
  <2>2. CASE i > Len(stream)
    BY <1>1, <1>2, <2>2
  <2>. QED
    BY <1>1, <1>2, <2>1, <2>2
<1>6. Len(after) - start[last] = w + n /\ start[last] <= Len(after)
  <2>1. Len(after) = Len(stream) + n
    BY <1>1
  <2>2. Len(stream) \in Nat /\ start[last] \in Nat /\ start[last] + w = Len(stream)
    BY <1>2
  <2>3. n \in Nat /\ w \in Nat
    OBVIOUS
  <2>. HIDE DEF last
  <2>. QED
    BY ONLY <2>1, <2>2, <2>3
<1>7. Laid(after, fs, first, start, f)
  BY <1>2, <1>3, <1>4, <1>5, <1>6 DEF Laid
<1>. QED
  BY <1>7 DEF after

\* A write that completes it: nothing is written of the next one, whatever it is.
LEMMA LaidCompletes ==
  ASSUME NEW stream \in Streams, NEW fs \in Seq(Frame), NEW first, NEW start, NEW f \in Frame,
         Laid(stream, fs, first, start, f), NEW g \in Frame,
         NEW w \in Nat, start[Len(fs) + 1] + w = Len(stream),
         NEW n \in Nat \ {0}, w + n = SizeOf(f)
  PROVE  \E begin :
           /\ Laid(stream \o Units(f, w + 1, w + n), Append(fs, f), first, begin, g)
           /\ begin[Len(fs) + 2] = Len(stream) + n
<1>. DEFINE after == stream \o Units(f, w + 1, w + n)
            last == Len(fs) + 1
            gs == Append(fs, f)
            begin == [p \in first..(last + 1) |->
                        IF p = last + 1 THEN Len(stream) + n ELSE start[p]]
<1>. HIDE DEF after
<1>1. /\ after \in Streams
      /\ Len(after) = Len(stream) + n
      /\ \A x \in 1..Len(stream) : after[x] = stream[x]
      /\ \A j \in 1..n : after[Len(stream) + j] = [of |-> f, at |-> w + j]
  BY WriteAppends, ZenonT(40) DEF after
<1>2. /\ first \in 1..last /\ last \in Nat \ {0} /\ Len(stream) \in Nat
      /\ start[last] \in Nat /\ start[last] + w = Len(stream)
      /\ \A p \in first..last : start[p] \in Nat
  BY LaidBounds
<1>3. /\ gs \in Seq(Frame) /\ Len(gs) = last /\ gs[last] = f
      /\ \A p \in first..Len(fs) : gs[p] = fs[p]
  BY <1>2, AppendProperties
<1>4. /\ begin \in [first..(last + 1) -> Nat]
      /\ begin[last + 1] = Len(stream) + n
      /\ \A p \in first..last : begin[p] = start[p]
  BY <1>2, SMTT(30)
<1>. HIDE DEF gs, begin
<1>5. SizeOf(f) = w + n /\ start[last] + SizeOf(f) = Len(stream) + n /\ SizeOf(f) \in Nat
  <2>1. start[last] \in Nat /\ Len(stream) \in Nat /\ start[last] + w = Len(stream)
    BY <1>2
  <2>2. w + n = SizeOf(f) /\ w \in Nat /\ n \in Nat
    OBVIOUS
  <2>. HIDE DEF last
  <2>. QED
    BY ONLY <2>1, <2>2
<1>6. \A p \in first..last : p # last => p \in first..Len(fs) /\ p + 1 \in first..last
  BY <1>2
<1>7. ASSUME NEW p \in first..last PROVE begin[p + 1] = begin[p] + SizeOf(gs[p])
  <2>1. CASE p = last
    BY <1>2, <1>3, <1>4, <1>5, <2>1
  <2>2. CASE p # last
    <3>1. gs[p] = fs[p] /\ begin[p + 1] = start[p + 1] /\ begin[p] = start[p]
      BY <1>3, <1>4, <1>6, <2>2
    <3>2. start[p] + SizeOf(fs[p]) = start[p + 1]
      BY <1>6, <2>2, LaidBounds
    <3>. QED
      BY <3>1, <3>2
  <2>. QED
    BY <2>1, <2>2
<1>8. ASSUME NEW p \in first..last, NEW q \in (p + 1)..(last + 1)
      PROVE  begin[p] + SizeOf(gs[p]) <= begin[q]
  <2>1. CASE p = last
    <3>1. q = last + 1
      BY <1>2, <2>1
    <3>. QED
      BY <1>2, <1>3, <1>4, <1>5, <2>1, <3>1, SMTT(30)
  <2>2. CASE p # last /\ q = last + 1
    <3>1. start[p] + SizeOf(fs[p]) <= start[last]
      BY <1>6, <2>2, LaidBounds
    <3>2. begin[p] = start[p] /\ gs[p] = fs[p] /\ begin[q] = Len(stream) + n
      BY <1>3, <1>4, <1>6, <2>2
    <3>3. SizeOf(fs[p]) \in Nat /\ start[p] \in Nat
      BY <1>6, <2>2, LaidBounds
    <3>. DEFINE z == SizeOf(fs[p])
    <3>4. z \in Nat /\ start[p] + z <= start[last] /\ SizeOf(gs[p]) = z
      BY <3>1, <3>2, <3>3
    <3>5. start[last] \in Nat /\ start[last] + w = Len(stream)
      BY <1>2
    <3>. HIDE DEF z, last
    <3>. QED
      BY ONLY <3>2, <3>3, <3>4, <3>5, w \in Nat, n \in Nat, Len(stream) \in Nat
  <2>3. CASE p # last /\ q # last + 1
    <3>1. p \in first..Len(fs) /\ q \in (p + 1)..last /\ q \in first..last
      <4>1. last = Len(fs) + 1 /\ Len(fs) \in Nat /\ first \in 1..last
        BY <1>2
      <4>. HIDE DEF last
      <4>. QED
        BY ONLY <4>1, <2>3, p \in first..last, q \in (p + 1)..(last + 1)
    <3>. QED
      BY <1>3, <1>4, <3>1 DEF Laid, StartsOK
  <2>. QED
    BY <2>1, <2>2, <2>3
<1>9. StartsOK(gs, first, begin)
  <2>1. first \in 1..(last + 1) /\ begin[first] = 0
    BY <1>2, <1>4 DEF Laid, StartsOK
  <2>. QED
    BY <1>3, <1>4, <1>7, <1>8, <2>1 DEF StartsOK
<1>10. ASSUME NEW p \in first..last, NEW j \in 1..SizeOf(gs[p])
       PROVE  after[begin[p] + j] = [of |-> gs[p], at |-> j]
  <2>1. CASE p # last
    <3>1. p \in first..Len(fs) /\ gs[p] = fs[p] /\ begin[p] = start[p]
      BY <1>3, <1>4, <1>6, <2>1
    <3>2. j \in 1..SizeOf(fs[p])
      BY <3>1
    <3>3. start[p] + j \in 1..Len(stream)
      BY <3>1, <3>2, LaidInside
    <3>4. stream[start[p] + j] = [of |-> fs[p], at |-> j]
      BY <3>1, <3>2 DEF Laid
    <3>. QED
      BY <1>1, <3>1, <3>3, <3>4
  <2>2. CASE p = last /\ j <= w
    <3>1. start[last] + j \in 1..Len(stream) /\ j \in 1..(Len(stream) - start[last])
      BY <1>2, <2>2, SMTT(30)
    <3>2. stream[start[last] + j] = [of |-> f, at |-> j]
      BY <3>1 DEF Laid
    <3>. QED
      BY <1>1, <1>3, <1>4, <2>2, <3>1, <3>2
  <2>3. CASE p = last /\ j > w
    <3>1. j \in 1..(w + n)
      BY <1>3, <1>5, <2>3
    <3>2. j - w \in 1..n /\ Len(stream) + (j - w) = start[last] + j /\ w + (j - w) = j
      <4>1. start[last] \in Nat /\ Len(stream) \in Nat /\ start[last] + w = Len(stream)
        BY <1>2
      <4>2. w \in Nat /\ n \in Nat
        OBVIOUS
      <4>3. j \in 1..(w + n) /\ j > w
        BY <2>3, <3>1
      <4>. HIDE DEF last
      <4>4. j - w \in 1..n /\ w + (j - w) = j
        BY ONLY <4>2, <4>3
      <4>5. (start[last] + w) + (j - w) = start[last] + j
        BY ONLY <4>1, <4>2, <4>3
      <4>. QED
        BY ONLY <4>1, <4>4, <4>5, Zenon
    <3>3. after[Len(stream) + (j - w)] = [of |-> f, at |-> w + (j - w)]
      BY <1>1, <3>2
    <3>4. begin[p] = start[last] /\ gs[p] = f
      BY <1>2, <1>3, <1>4, <2>3
    <3>. QED
      BY <3>2, <3>3, <3>4
  <2>4. j <= w \/ j > w
    BY <1>3, <1>5
  <2>. QED
    BY <2>1, <2>2, <2>3, <2>4
<1>11. ASSUME NEW i \in 1..Len(after)
       PROVE  \E p \in first..(last + 1) : begin[p] < i /\ (p <= last => i <= begin[p + 1])
  <2>1. CASE i <= Len(stream)
    <3>1. PICK p \in first..last : start[p] < i /\ (p <= Len(fs) => i <= start[p + 1])
      BY <1>1, <1>2, <2>1 DEF Laid
    <3>2. i <= begin[p + 1]
      <4>1. CASE p = last
        BY <1>2, <1>4, <2>1, <4>1
      <4>2. CASE p # last
        BY <1>4, <1>6, <3>1, <4>2
      <4>. QED
        BY <4>1, <4>2
    <3>. QED
      BY <1>2, <1>4, <3>1, <3>2
  <2>2. CASE i > Len(stream)
    <3>1. begin[last] < i /\ i <= begin[last + 1]
      <4>1. last \in first..last
        BY <1>2
      <4>2. begin[last] = start[last] /\ begin[last + 1] = Len(stream) + n
        BY <1>4, <4>1
      <4>3. start[last] \in Nat /\ Len(stream) \in Nat /\ start[last] + w = Len(stream)
        BY <1>2
      <4>4. w \in Nat /\ n \in Nat
        OBVIOUS
      <4>5. Len(after) = Len(stream) + n
        BY <1>1
      <4>. HIDE DEF last
      <4>. QED
        BY ONLY <4>2, <4>3, <4>4, <4>5, <2>2, i \in 1..Len(after)
    <3>. QED
      BY <1>2, <3>1
  <2>. QED
    BY <1>1, <1>2, <2>1, <2>2
<1>12. Len(after) - begin[last + 1] = 0 /\ begin[last + 1] <= Len(after)
  BY <1>1, <1>2, <1>4
<1>13. Len(after) - begin[last + 1] < SizeOf(g)
  <2>1. SizeOf(g) \in Nat /\ SizeOf(g) >= 3
    BY SizesPositive
  <2>. QED
    BY <1>12, <2>1
<1>14. \A j \in 1..(Len(after) - begin[last + 1]) :
          after[begin[last + 1] + j] = [of |-> g, at |-> j]
  BY <1>12
<1>15. Laid(after, gs, first, begin, g)
  <2>1. Len(gs) = last
    BY <1>3
  <2>. HIDE DEF last
  <2>. QED
    BY ONLY <1>9, <1>10, <1>11, <1>12, <1>13, <1>14, <2>1 DEF Laid
<1>. QED
  BY <1>2, <1>4, <1>15 DEF after, gs

\* While nothing is written of the frame after the last, it may be any.
LEMMA LaidRetitled ==
  ASSUME NEW stream, NEW fs, NEW first, NEW start, NEW f, NEW g \in Frame,
         Laid(stream, fs, first, start, f), Len(stream) - start[Len(fs) + 1] = 0
  PROVE  Laid(stream, fs, first, start, g)
<1>1. 0 < SizeOf(g)
  <2>1. SizeOf(g) \in Nat /\ SizeOf(g) >= 3
    BY SizesPositive
  <2>. QED
    BY <2>1
<1>. QED
  BY <1>1 DEF Laid

\* A stream starts with the first frame.
LEMMA LaidHead ==
  ASSUME NEW stream \in Streams, NEW fs \in Seq(Frame), NEW first, NEW start, NEW f,
         Laid(stream, fs, first, start, f), stream # <<>>
  PROVE  stream[1] = [of |-> IF first <= Len(fs) THEN fs[first] ELSE f, at |-> 1]
<1>1. Len(stream) \in Nat \ {0}
  BY EmptySeq, LenProperties DEF Streams
<1>2. start[first] = 0
  BY DEF Laid, StartsOK
<1>3. CASE first <= Len(fs)
  <2>1. first \in first..Len(fs) /\ SizeOf(fs[first]) \in Nat \ {0}
    BY <1>3, LaidBounds
  <2>2. 1 \in 1..SizeOf(fs[first])
    BY <2>1
  <2>3. stream[start[first] + 1] = [of |-> fs[first], at |-> 1]
    BY <2>1, <2>2 DEF Laid
  <2>. QED
    BY <1>2, <1>3, <2>3
<1>4. CASE ~(first <= Len(fs))
  <2>1. first = Len(fs) + 1
    BY <1>4, LaidBounds
  <2>2. start[Len(fs) + 1] = 0
    BY <1>2, <2>1
  <2>3. 1 \in 1..(Len(stream) - start[Len(fs) + 1])
    BY <1>1, <2>2
  <2>4. stream[start[Len(fs) + 1] + 1] = [of |-> f, at |-> 1]
    BY <2>3 DEF Laid
  <2>. QED
    BY <1>4, <2>2, <2>4
<1>. QED
  BY <1>3, <1>4

\* It goes on as a stream of whole frames.
LEMMA LaidFollows ==
  ASSUME NEW stream \in Streams, NEW fs \in Seq(Frame), NEW first, NEW start, NEW f,
         Laid(stream, fs, first, start, f), f.kind \in Kinds,
         NEW i \in 1..(Len(stream) - 1)
  PROVE  Follows(stream[i], stream[i + 1])
<1>. DEFINE last == Len(fs) + 1
<1>1. PICK p \in first..last : start[p] < i /\ (p <= Len(fs) => i <= start[p + 1])
  <2>1. i \in 1..Len(stream)
    BY LaidBounds
  <2>. QED
    BY <2>1 DEF Laid
<1>2. start[p] \in Nat /\ i \in Nat /\ i < Len(stream) /\ Len(stream) \in Nat
  BY <1>1, LaidBounds
<1>. DEFINE j == i - start[p]
<1>3. j \in Nat \ {0} /\ start[p] + j = i /\ start[p] + (j + 1) = i + 1
  BY <1>1, <1>2
<1>. HIDE DEF j
<1>4. CASE p = last
  <2>1. j \in 1..(Len(stream) - start[last]) /\ j + 1 \in 1..(Len(stream) - start[last])
    BY <1>2, <1>3, <1>4
  <2>2. start[last] + (j + 1) = i + 1
    BY <1>3, <1>4, Zenon
  <2>3. stream[i] = [of |-> f, at |-> j] /\ stream[i + 1] = [of |-> f, at |-> j + 1]
    BY <1>3, <1>4, <2>1, <2>2 DEF Laid
  <2>4. j # SizeOf(f)
    <3>1. Len(stream) - start[last] < SizeOf(f) /\ SizeOf(f) \in Nat
      BY KindSizes DEF Laid
    <3>. QED
      BY <1>2, <1>4, <2>1, <3>1
  <2>. QED
    BY <2>3, <2>4 DEF Follows
<1>5. CASE p # last
  <2>. DEFINE z == SizeOf(fs[p])
  <2>1. p \in first..Len(fs)
    BY <1>5, LaidBounds
  <2>2. z \in Nat \ {0} /\ start[p] + z = start[p + 1]
    BY <2>1, LaidBounds
  <2>3. i <= start[p + 1]
    BY <1>1, <2>1
  <2>4. j \in 1..z
    <3>. HIDE DEF z
    <3>. QED
      BY <1>2, <1>3, <2>2, <2>3, SMTT(30)
  <2>5. stream[i] = [of |-> fs[p], at |-> j]
    BY <1>3, <2>1, <2>4 DEF Laid
  <2>6. CASE j # z
    <3>1. j + 1 \in 1..z /\ start[p] + (j + 1) = i + 1
      <4>1. j + 1 \in 1..z
        <5>. HIDE DEF z
        <5>. QED
          BY ONLY <2>2, <2>4, <2>6
      <4>. QED
        BY <1>3, <4>1
    <3>2. stream[start[p] + (j + 1)] = [of |-> fs[p], at |-> j + 1]
      BY <2>1, <3>1 DEF Laid
    <3>. QED
      BY <2>5, <2>6, <3>1, <3>2 DEF Follows
  <2>7. CASE j = z
    <3>1. i = start[p + 1]
      BY <1>3, <2>2, <2>7
    <3>2. CASE p + 1 = last
      <4>1. 1 \in 1..(Len(stream) - start[last])
        BY <1>2, <3>1, <3>2
      <4>2. stream[start[last] + 1] = [of |-> f, at |-> 1]
        BY <4>1 DEF Laid
      <4>. QED
        BY <2>5, <2>7, <3>1, <3>2, <4>2 DEF Follows
    <3>3. CASE p + 1 # last
      <4>1. p + 1 \in first..Len(fs)
        BY <2>1, <3>3, LaidBounds
      <4>2. 1 \in 1..SizeOf(fs[p + 1])
        BY <4>1, LaidBounds
      <4>3. stream[start[p + 1] + 1] = [of |-> fs[p + 1], at |-> 1]
        BY <4>1, <4>2 DEF Laid
      <4>. QED
        BY <2>5, <2>7, <3>1, <4>3 DEF Follows
    <3>. QED
      BY <3>2, <3>3
  <2>. QED
    BY <2>6, <2>7
<1>. QED
  BY <1>4, <1>5

\* The starts when the first frame, of z units, is erased.
Shifted(fs, first, start, z) == [p \in (first + 1)..(Len(fs) + 1) |-> start[p] - z]

\* A stream that holds its first frame whole goes on with the second.
LEMMA LaidErased ==
  ASSUME NEW stream \in Streams, NEW fs \in Seq(Frame), NEW first, NEW start, NEW f,
         Laid(stream, fs, first, start, f), f.kind \in Kinds,
         stream # <<>>, SizeOf(stream[1].of) <= Len(stream)
  PROVE  /\ first \in 1..Len(fs)
         /\ stream[1].of = fs[first]
         /\ Laid(SubSeq(stream, SizeOf(fs[first]) + 1, Len(stream)), fs, first + 1,
                 Shifted(fs, first, start, SizeOf(fs[first])), f)
<1>. DEFINE last == Len(fs) + 1
            z == SizeOf(fs[first])
            begin == Shifted(fs, first, start, z)
            after == SubSeq(stream, z + 1, Len(stream))
<1>1. /\ Len(fs) \in Nat /\ Len(stream) \in Nat /\ first \in 1..last
      /\ start[first] = 0 /\ start[last] \in Nat /\ start[last] <= Len(stream)
  BY LaidBounds DEF Laid, StartsOK
<1>2. first \in first..Len(fs) /\ first \in 1..Len(fs)
  <2>. SUFFICES ASSUME ~(first <= Len(fs)) PROVE FALSE
    BY <1>1
  <2>0. stream[1] = [of |-> IF first <= Len(fs) THEN fs[first] ELSE f, at |-> 1]
    BY LaidHead
  <2>1. stream[1].of = f
    BY <2>0
  <2>2. first = last
    BY <1>1
  <2>3. Len(stream) < SizeOf(f)
    BY <1>1, <2>2 DEF Laid
  <2>4. SizeOf(f) \in Nat
    BY KindSizes
  <2>. QED
    BY <1>1, <2>1, <2>3, <2>4
<1>3. stream[1].of = fs[first]
  <2>1. stream[1] = [of |-> IF first <= Len(fs) THEN fs[first] ELSE f, at |-> 1]
    BY LaidHead
  <2>. QED
    BY <1>2, <2>1
<1>4. z \in Nat \ {0} /\ start[first + 1] = z /\ z <= Len(stream)
  <2>1. z \in Nat \ {0} /\ start[first] + z = start[first + 1]
    BY <1>2, LaidBounds
  <2>. QED
    BY <1>1, <1>3, <2>1
<1>5. \A p \in (first + 1)..last : start[p] \in Nat /\ z <= start[p]
  <2>. SUFFICES ASSUME NEW p \in (first + 1)..last PROVE start[p] \in Nat /\ z <= start[p]
    OBVIOUS
  <2>1. start[first] + z <= start[p]
    BY <1>2 DEF Laid, StartsOK
  <2>2. start[p] \in Nat
    BY <1>1, LaidBounds
  <2>. QED
    BY <1>1, <1>4, <2>1, <2>2
<1>. HIDE DEF z
<1>6. /\ begin \in [(first + 1)..last -> Nat]
      /\ \A p \in (first + 1)..last : begin[p] = start[p] - z
  BY <1>4, <1>5 DEF Shifted
<1>7. /\ after \in Streams /\ Len(after) = Len(stream) - z
      /\ \A i \in 1..Len(after) : after[i] = stream[i + z]
  <2>1. z + 1 \in 1..(Len(stream) + 1) /\ Len(stream) \in (z + 1 - 1)..Len(stream)
    BY <1>1, <1>4
  <2>2. /\ after \in Streams
        /\ Len(after) = Len(stream) - (z + 1) + 1
        /\ \A i \in 1..(Len(stream) - (z + 1) + 1) : after[i] = stream[(z + 1) + i - 1]
    <3>1. \A i \in (z + 1)..Len(stream) : stream[i] \in [of : Frame, at : Nat]
      <4>1. \A i \in (z + 1)..Len(stream) : i \in 1..Len(stream)
        BY <1>4
      <4>. QED
        BY <4>1, ElementOfSeq DEF Streams
    <3>2. z + 1 \in Int /\ Len(stream) \in Int /\ z + 1 <= Len(stream) + 1
      BY <1>1, <1>4
    <3>. QED
      BY <2>1, <3>1, <3>2, SubSeqProperties, SMTT(30) DEF Streams
  <2>3. Len(stream) - (z + 1) + 1 = Len(stream) - z
    BY <1>1, <1>4
  <2>4. \A i \in 1..(Len(stream) - z) : (z + 1) + i - 1 = i + z
    BY <1>1, <1>4
  <2>. QED
    BY <2>2, <2>3, <2>4
<1>. HIDE DEF begin, after
<1>8. \A p \in (first + 1)..Len(fs) :
        /\ p \in first..Len(fs) /\ p \in (first + 1)..last /\ p + 1 \in (first + 1)..last
        /\ SizeOf(fs[p]) \in Nat \ {0}
  BY <1>1, LaidBounds
<1>9. StartsOK(fs, first + 1, begin)
  <2>1. begin[first + 1] = 0
    <3>1. first + 1 \in (first + 1)..last
      BY <1>1, <1>2
    <3>. QED
      BY <1>4, <1>6, <3>1
  <2>2. ASSUME NEW p \in (first + 1)..Len(fs)
        PROVE  begin[p + 1] = begin[p] + SizeOf(fs[p])
    <3>1. start[p + 1] = start[p] + SizeOf(fs[p])
      BY <1>8, LaidBounds
    <3>2. /\ begin[p + 1] = start[p + 1] - z /\ begin[p] = start[p] - z
          /\ start[p] \in Nat /\ start[p + 1] \in Nat
      BY <1>5, <1>6, <1>8
    <3>3. SizeOf(fs[p]) \in Nat
      BY <1>8
    <3>. QED
      BY <1>4, <3>1, <3>2, <3>3
  <2>3. ASSUME NEW p \in (first + 1)..Len(fs), NEW q \in (p + 1)..last
        PROVE  begin[p] + SizeOf(fs[p]) <= begin[q]
    <3>1. start[p] + SizeOf(fs[p]) <= start[q]
      BY <1>8 DEF Laid, StartsOK
    <3>2. q \in (first + 1)..last
      BY <1>1
    <3>. QED
      BY <1>4, <1>5, <1>6, <1>8, <3>1, <3>2, SMTT(30)
  <2>4. first + 1 \in 1..last
    BY <1>1, <1>2
  <2>. QED
    BY <1>6, <2>1, <2>2, <2>3, <2>4 DEF StartsOK
<1>10. ASSUME NEW p \in (first + 1)..Len(fs), NEW j \in 1..SizeOf(fs[p])
       PROVE  after[begin[p] + j] = [of |-> fs[p], at |-> j]
  <2>1. start[p] + j \in 1..Len(stream)
    BY <1>8, LaidInside
  <2>2. begin[p] = start[p] - z /\ start[p] \in Nat /\ z <= start[p] /\ j \in Nat \ {0}
    BY <1>5, <1>6, <1>8
  <2>3. begin[p] + j \in 1..Len(after) /\ (begin[p] + j) + z = start[p] + j
    <3>1. Len(after) = Len(stream) - z /\ Len(stream) \in Nat /\ z \in Nat
      BY <1>1, <1>4, <1>7
    <3>. QED
      BY ONLY <2>1, <2>2, <3>1, SMTT(30)
  <2>4. stream[start[p] + j] = [of |-> fs[p], at |-> j]
    BY <1>8 DEF Laid
  <2>. QED
    BY <1>7, <2>3, <2>4
<1>11. last \in (first + 1)..last
  BY <1>1, <1>2
<1>12. /\ begin[last] <= Len(after)
       /\ Len(after) - begin[last] = Len(stream) - start[last]
  <2>1. begin[last] = start[last] - z /\ Len(after) = Len(stream) - z
    BY <1>6, <1>7, <1>11
  <2>. QED
    BY <1>1, <1>4, <2>1
<1>13. ASSUME NEW j \in 1..(Len(after) - begin[last])
       PROVE  after[begin[last] + j] = [of |-> f, at |-> j]
  <2>1. j \in 1..(Len(stream) - start[last])
    BY <1>12
  <2>2. stream[start[last] + j] = [of |-> f, at |-> j]
    BY <2>1 DEF Laid
  <2>3. begin[last] = start[last] - z /\ Len(after) = Len(stream) - z /\ z <= start[last]
    BY <1>5, <1>6, <1>7, <1>11
  <2>4. begin[last] + j \in 1..Len(after) /\ (begin[last] + j) + z = start[last] + j
    BY <1>1, <1>4, <2>1, <2>3, SMTT(30)
  <2>. QED
    BY <1>7, <2>2, <2>4
<1>14. ASSUME NEW i \in 1..Len(after)
       PROVE  \E p \in (first + 1)..last : begin[p] < i /\ (p <= Len(fs) => i <= begin[p + 1])
  <2>1. i + z \in 1..Len(stream) /\ i \in Nat \ {0}
    BY <1>1, <1>4, <1>7
  <2>2. PICK p \in first..last : start[p] < i + z /\ (p <= Len(fs) => i + z <= start[p + 1])
    BY <2>1 DEF Laid
  <2>3. p # first
    BY <1>2, <1>4, <2>1, <2>2
  <2>4. p \in (first + 1)..last
    BY <1>1, <2>3
  <2>5. begin[p] < i
    BY <1>4, <1>5, <1>6, <2>1, <2>2, <2>4
  <2>6. p <= Len(fs) => i <= begin[p + 1]
    <3>. SUFFICES ASSUME p <= Len(fs) PROVE i <= begin[p + 1]
      OBVIOUS
    <3>1. p + 1 \in (first + 1)..last
      BY <1>1, <2>4
    <3>. QED
      BY <1>4, <1>5, <1>6, <2>1, <2>2, <3>1
  <2>. QED
    BY <2>4, <2>5, <2>6
<1>15. Laid(after, fs, first + 1, begin, f)
  <2>1. Len(stream) - start[last] < SizeOf(f)
    BY DEF Laid
  <2>. QED
    BY <1>9, <1>10, <1>12, <1>13, <1>14, <2>1 DEF Laid
<1>. QED
  BY <1>2, <1>3, <1>15 DEF after, begin, z

----------------------------------------------------------------------------
(* Types.                                                                  *)

\* A frame that is being written has been counted.
Counted == \A t \in Senders : pc[t] \in {"announce", "send"} => count[t] >= 1

TypeInv == TypeOK /\ Counted

LEMMA ConstantsTyped ==
  ASSUME NEW t \in Senders
  PROVE  /\ HostOf[t] \in Hosts /\ Peer(HostOf[t]) \in Hosts
         /\ TopicOf[t] \in Topics /\ Method[TopicOf[t]] \in Methods
BY TcpAssumption DEF Hosts, Peer

LEMMA FrameOfTyped ==
  ASSUME TypeOK, NEW t \in Senders, count[t] >= 1
  PROVE  FrameOf(t) \in Frame
BY ConstantsTyped DEF FrameOf, Frame, Kinds, TypeOK

\* What a host has yet to parse.
Stream(h) == buffer[h] \o wire[h]

LEMMA UnitsAreStreams == Seq(Unit) \subseteq Streams
<1>1. Unit \subseteq [of : Frame, at : Nat]
  BY DEF Unit
<1>. QED
  BY <1>1, SeqMonotonic DEF Streams

LEMMA TypeInitial == Init => TypeInv
BY DEF Init, TypeInv, TypeOK, Counted

\* The actions of connecting, registering and stopping.
LEMMA TypeOthers ==
  ASSUME TypeInv,
         \/ Listen \/ Connect \/ Accept
         \/ \E h \in Hosts : ParseEnd(h) \/ ReadEnd(h) \/ Stop(h)
         \/ \E h \in Hosts, k \in Topics : Register(h, k)
         \/ \E t \in Senders : GetNetworkWriter(t) \/ RegisterTopic(t) \/ WriteToClosed(t)
         \/ Finished \/ UNCHANGED vars
  PROVE  TypeInv'
<1>. USE DEF TypeInv, TypeOK, Counted
<1>1. CASE Listen \/ Connect \/ Accept
  BY <1>1 DEF Listen, Connect, Accept, registryVars, senderVars, historyVars
<1>2. ASSUME NEW h \in Hosts, ParseEnd(h) \/ ReadEnd(h) \/ Stop(h) PROVE TypeInv'
  BY <1>2 DEF ParseEnd, ReadEnd, Stop, registryVars, senderVars, streamVars, historyVars
<1>3. ASSUME NEW h \in Hosts, NEW k \in Topics, Register(h, k) PROVE TypeInv'
  BY <1>3 DEF Register, senderVars, streamVars, historyVars
<1>4. ASSUME NEW t \in Senders, GetNetworkWriter(t) PROVE TypeInv'
  BY <1>4 DEF GetNetworkWriter, registryVars, streamVars, historyVars
<1>5. ASSUME NEW t \in Senders, RegisterTopic(t) PROVE TypeInv'
  BY <1>5, ConstantsTyped DEF RegisterTopic, streamVars, historyVars
<1>6. ASSUME NEW t \in Senders, WriteToClosed(t) PROVE TypeInv'
  BY <1>6, ConstantsTyped
  DEF WriteToClosed, Written, registryVars, streamVars, historyVars
<1>7. CASE Finished \/ UNCHANGED vars
  BY <1>7 DEF Finished, vars, registryVars, senderVars, streamVars, historyVars
<1>. QED
  BY <1>1, <1>2, <1>3, <1>4, <1>5, <1>6, <1>7

LEMMA TypePuts ==
  ASSUME TypeInv, NEW t \in Senders, TopicCreate(t) \/ PutRemote(t) \/ PutHere(t)
  PROVE  TypeInv'
<1>. USE DEF TypeInv, TypeOK, Counted
<1>0. /\ HostOf[t] \in Hosts /\ TopicOf[t] \in Topics /\ Method[TopicOf[t]] \in Methods
      /\ count[t] \in Nat
  BY ConstantsTyped
<1>1. CASE TopicCreate(t)
  <2>1. /\ networked' \in [Hosts -> SUBSET Topics]
        /\ configs' \in [Hosts -> [Topics -> Methods \cup {NoMethod}]]
    BY <1>0, <1>1 DEF TopicCreate
  <2>2. /\ count' \in [Senders -> Nat] /\ written' \in [Senders -> Nat]
        /\ pc' \in [Senders -> {"idle", "create", "announce", "register", "ready", "send"}]
    BY <1>0, <1>1 DEF TopicCreate
  <2>3. Counted'
    BY <1>0, <1>1 DEF TopicCreate
  <2>. QED
    BY <1>1, <2>1, <2>2, <2>3 DEF TopicCreate, streamVars, historyVars
<1>2. CASE PutRemote(t)
  <2>1. /\ count' \in [Senders -> Nat] /\ written' \in [Senders -> Nat]
        /\ pc' \in [Senders -> {"idle", "create", "announce", "register", "ready", "send"}]
    BY <1>0, <1>2 DEF PutRemote
  <2>2. Counted'
    BY <1>0, <1>2 DEF PutRemote
  <2>. QED
    BY <1>2, <2>1, <2>2 DEF PutRemote, registryVars, streamVars, historyVars
<1>3. CASE PutHere(t)
  <2>. DEFINE g == [FrameOf(t) EXCEPT !.no = count'[t]]
  <2>1. count' = [count EXCEPT ![t] = @ + 1]
    BY <1>3 DEF PutHere
  <2>2. count'[t] \in Nat \ {0} /\ count' \in [Senders -> Nat] /\ Counted'
    BY <1>0, <1>3, <2>1 DEF PutHere
  <2>3. g \in Frame
    BY <1>0, <2>2 DEF FrameOf, Frame, Kinds
  <2>4. kept' = [kept EXCEPT ![HostOf[t]] = Append(@, g)]
    BY <1>3 DEF PutHere
  <2>. HIDE DEF g
  <2>5. kept[HostOf[t]] \in Seq(Frame)
    BY <1>0
  <2>6. Append(kept[HostOf[t]], g) \in Seq(Frame)
    BY <2>3, <2>5, AppendProperties
  <2>7. kept' \in [Hosts -> Seq(Frame)]
    BY <2>4, <2>6
  <2>. QED
    BY <1>3, <2>2, <2>7 DEF PutHere, registryVars, streamVars, historyVars
<1>. QED
  BY <1>1, <1>2, <1>3

LEMMA TypeWrite ==
  ASSUME TypeInv, NEW t \in Senders, Write(t)
  PROVE  TypeInv'
<1>. DEFINE h == HostOf[t]
            f == FrameOf(t)
<1>1. f \in Frame /\ SizeOf(f) \in Nat
  BY FrameOfTyped, SizesPositive DEF Write, TypeInv, Counted
<1>2. PICK n \in 1..(SizeOf(f) - written[t]) :
        /\ written' = [written EXCEPT ![t] = @ + n]
        /\ wire' = [wire EXCEPT ![Peer(h)] = @ \o Units(f, written[t] + 1, written[t] + n)]
        /\ IF written[t] + n = SizeOf(f)
           THEN /\ sent' = [sent EXCEPT ![Peer(h)] = Append(@, f)]
                /\ pc' = [pc EXCEPT ![t] = Written(t)]
           ELSE UNCHANGED <<sent, pc>>
  BY DEF Write
<1>3. UNCHANGED <<registryVars, count, buffer, reader, process, received, delivered, kept>>
  BY DEF Write
<1>. USE DEF TypeInv, TypeOK, Counted
<1>4. n \in Nat \ {0} /\ written[t] \in Nat /\ Peer(h) \in Hosts
  BY <1>1, <1>2, ConstantsTyped
<1>5. Units(f, written[t] + 1, written[t] + n) \in Seq(Unit)
  <2>1. (written[t] + n) - (written[t] + 1) + 1 = n
    BY <1>4
  <2>2. \A i \in 1..n : [of |-> f, at |-> written[t] + 1 + i - 1] \in Unit
    BY <1>1, <1>4, SMTT(30) DEF Unit
  <2>3. [i \in 1..n |-> [of |-> f, at |-> written[t] + 1 + i - 1]] \in Seq(Unit)
    BY <1>4, <2>2, IsASeq
  <2>. QED
    BY <2>1, <2>3 DEF Units
<1>. HIDE DEF f, h
<1>6. wire' \in [Hosts -> Seq(Unit)]
  BY <1>2, <1>4, <1>5, ConcatProperties
<1>7. sent' \in [Hosts -> Seq(Frame)]
  <2>1. Append(sent[Peer(h)], f) \in Seq(Frame)
    BY <1>1, <1>4, AppendProperties
  <2>. QED
    BY <1>2, <1>4, <2>1
<1>8. written' \in [Senders -> Nat]
  BY <1>2, <1>4, SMTT(30)
<1>9. /\ pc' \in [Senders -> {"idle", "create", "announce", "register", "ready", "send"}]
      /\ Counted'
  BY <1>2, <1>3 DEF Written
<1>. QED
  BY <1>3, <1>6, <1>7, <1>8, <1>9 DEF registryVars

LEMMA TypeReceives ==
  ASSUME TypeInv, NEW h \in Hosts, Read(h) \/ Receive(h)
  PROVE  TypeInv'
<1>. USE DEF TypeInv, TypeOK, Counted
<1>1. CASE Read(h)
  <2>1. PICK n \in 1..Len(wire[h]) :
          /\ buffer' = [buffer EXCEPT ![h] = @ \o SubSeq(wire[h], 1, n)]
          /\ wire' = [wire EXCEPT ![h] = SubSeq(@, n + 1, Len(@))]
    BY <1>1 DEF Read
  <2>2. wire[h] \in Seq(Unit) /\ buffer[h] \in Seq(Unit)
    OBVIOUS
  <2>3. SubSeq(wire[h], 1, n) \in Seq(Unit) /\ SubSeq(wire[h], n + 1, Len(wire[h])) \in Seq(Unit)
    BY <2>2
  <2>4. buffer[h] \o SubSeq(wire[h], 1, n) \in Seq(Unit)
    BY <2>2, <2>3, ConcatProperties
  <2>. QED
    BY <1>1, <2>1, <2>3, <2>4 DEF Read, registryVars, senderVars, historyVars
<1>2. CASE Receive(h)
  <2>. DEFINE f == buffer[h][1].of
  <2>1. buffer[h] \in Seq(Unit) /\ Len(buffer[h]) >= 2
    BY <1>2 DEF Receive, Complete
  <2>2. buffer[h][1] \in Unit
    BY <2>1, ElementOfSeq
  <2>3. f \in Frame
    BY <2>2 DEF Unit
  <2>4. f.topic \in Topics /\ f.method \in Methods /\ SizeOf(f) \in Nat
    BY <2>3, SizesPositive DEF Frame
  <2>5. ConfigFound(h, f.topic) \in Methods
    BY <2>4, TcpAssumption DEF ConfigFound
  <2>6. Erased(buffer[h]) \in Seq(Unit)
    BY <2>1, <2>4 DEF Erased
  <2>7. buffer' = [buffer EXCEPT ![h] = Erased(@)] /\ received' = [received EXCEPT ![h] = Append(@, f)]
    BY <1>2 DEF Receive
  <2>8. buffer' \in [Hosts -> Seq(Unit)] /\ received' \in [Hosts -> Seq(Frame)]
    BY <2>3, <2>6, <2>7, AppendProperties
  <2>9. [event |-> f, with |-> ConfigFound(h, f.topic)] \in [event : Frame, with : Methods]
    BY <2>3, <2>5
  <2>10. \/ delivered' = delivered
         \/ delivered' = [delivered EXCEPT ![h] =
                            Append(@, [event |-> f, with |-> ConfigFound(h, f.topic)])]
    BY <1>2 DEF Receive
  <2>11. delivered' \in [Hosts -> Seq([event : Frame, with : Methods])]
    <3>1. delivered[h] \in Seq([event : Frame, with : Methods])
      OBVIOUS
    <3>2. Append(delivered[h], [event |-> f, with |-> ConfigFound(h, f.topic)])
            \in Seq([event : Frame, with : Methods])
      BY <2>9, <3>1, AppendProperties
    <3>. QED
      BY <2>10, <3>2
  <2>12. \/ networked' = networked
         \/ networked' = [networked EXCEPT ![h] = @ \cup {f.topic}]
    BY <1>2 DEF Receive, WithNetworked
  <2>13. \/ configs' = configs
         \/ configs' = [configs EXCEPT ![h][f.topic] = f.method]
         \/ configs' = [configs EXCEPT ![h][f.topic] = ConfigFound(h, f.topic)]
    BY <1>2 DEF Receive, WithConfig
  <2>14. UNCHANGED <<registry, senderVars, wire, reader, process, sent, kept>>
    BY <1>2 DEF Receive
  <2>. HIDE DEF f
  <2>15. networked' \in [Hosts -> SUBSET Topics]
    <3>1. networked \in [Hosts -> SUBSET Topics] /\ f.topic \in Topics
      BY <2>4
    <3>. QED
      BY ONLY <2>12, <3>1, h \in Hosts
  <2>16. configs' \in [Hosts -> [Topics -> Methods \cup {NoMethod}]]
    <3>1. configs \in [Hosts -> [Topics -> Methods \cup {NoMethod}]]
      OBVIOUS
    <3>2. \E k \in Topics, m \in Methods :
            configs' = configs \/ configs' = [configs EXCEPT ![h][k] = m]
      BY <2>4, <2>5, <2>13
    <3>. QED
      BY ONLY <3>1, <3>2, h \in Hosts
  <2>. QED
    BY <2>8, <2>11, <2>14, <2>15, <2>16 DEF senderVars
<1>. QED
  BY <1>1, <1>2

LEMMA TypeStep == TypeInv /\ [Next]_vars => TypeInv'
BY TypeOthers, TypePuts, TypeWrite, TypeReceives DEF Next, SenderStep

\* The values of the state are what they are declared to be, for any number of senders,
\* two of which may write to one socket at once.
THEOREM TcpTypes == Spec => []TypeOK
<1>1. TypeInv => TypeOK
  BY DEF TypeInv
<1>. QED
  BY <1>1, TypeInitial, TypeStep, PTL DEF Spec

----------------------------------------------------------------------------
(* Frames arrive whole, in their order and once.                           *)

\* While h runs, the units after the last frame sent to it, which start at from, are
\* those its peer has written of the frame f it is writing.
WriterAt(h, from, f) ==
  process[h] = "running" =>
    \A t \in Senders : HostOf[t] = Peer(h) =>
      IF pc[t] \in {"announce", "send"}
      THEN from + written[t] = Len(Stream(h)) /\ f = FrameOf(t)
      ELSE Len(Stream(h)) - from = 0

\* What h has yet to parse are the frames it has not handled, and the beginning of the
\* next.
StreamOK(h) ==
  \E start, f :
    /\ f.kind \in Kinds
    /\ Laid(Stream(h), sent[h], Len(received[h]) + 1, start, f)
    /\ WriterAt(h, start[Len(sent[h]) + 1], f)

StreamInv == TypeInv /\ ReceivedIsPrefix /\ \A h \in Hosts : StreamOK(h)

LEMMA StreamTyped == ASSUME TypeOK, NEW h \in Hosts PROVE Stream(h) \in Streams
<1>1. buffer[h] \in Seq(Unit) /\ wire[h] \in Seq(Unit)
  BY DEF TypeOK
<1>2. Stream(h) \in Seq(Unit)
  BY <1>1, ConcatProperties DEF Stream
<1>. QED
  BY <1>2, UnitsAreStreams

LEMMA StreamInitial == Init => StreamInv
<1>. SUFFICES ASSUME Init PROVE StreamInv
  OBVIOUS
<1>1. ReceivedIsPrefix
  <2>1. \A h \in Hosts : received[h] = <<>> /\ sent[h] = <<>>
    BY DEF Init
  <2>2. SubSeq(<<>>, 1, 0) = <<>> /\ Len(<<>>) = 0
    BY SubSeqEmpty
  <2>3. ASSUME NEW h \in Hosts
        PROVE  /\ Len(received[h]) <= Len(sent[h])
               /\ received[h] = SubSeq(sent[h], 1, Len(received[h]))
    <3>1. received[h] = <<>> /\ sent[h] = <<>>
      BY <2>1
    <3>2. SubSeq(sent[h], 1, Len(received[h])) = SubSeq(<<>>, 1, 0)
      BY <2>2, <3>1, Zenon
    <3>. QED
      BY <2>2, <3>1, <3>2
  <2>. QED
    BY <2>3 DEF ReceivedIsPrefix
<1>2. ASSUME NEW h \in Hosts PROVE StreamOK(h)
  <2>. DEFINE f == [kind |-> "data"]
              start == [p \in 1..1 |-> 0]
  <2>1. /\ Stream(h) = <<>> /\ sent[h] = <<>> /\ received[h] = <<>>
        /\ \A t \in Senders : pc[t] = "idle"
    BY DEF Init, Stream
  <2>2. f.kind \in Kinds /\ 0 < SizeOf(f)
    <3>1. f.kind \in Kinds
      BY DEF Kinds
    <3>2. SizeOf(f) \in Nat /\ SizeOf(f) >= 3
      BY <3>1, KindSizes
    <3>. QED
      BY <3>1, <3>2
  <2>3. start \in [1..1 -> Nat] /\ start[1] = 0
    OBVIOUS
  <2>. HIDE DEF f, start
  <2>4. StartsOK(<<>>, 1, start)
    BY <2>3 DEF StartsOK
  <2>5. Laid(<<>>, <<>>, 1, start, f)
    BY <2>2, <2>3, <2>4 DEF Laid
  <2>6. WriterAt(h, 0, f)
    BY <2>1 DEF WriterAt
  <2>. QED
    BY <2>1, <2>2, <2>3, <2>5, <2>6 DEF StreamOK
<1>. QED
  BY <1>1, <1>2, TypeInitial DEF StreamInv

\* A stream stays as it is when nobody reads from it or writes to it.
LEMMA StreamKept ==
  ASSUME NEW h \in Hosts, StreamOK(h),
         Stream(h)' = Stream(h), sent'[h] = sent[h], received'[h] = received[h],
         process'[h] = "running" =>
           /\ process[h] = "running"
           /\ \A t \in Senders : HostOf[t] = Peer(h) =>
                /\ pc'[t] \in {"announce", "send"} <=> pc[t] \in {"announce", "send"}
                /\ pc[t] \in {"announce", "send"} =>
                     FrameOf(t)' = FrameOf(t) /\ written'[t] = written[t]
  PROVE  StreamOK(h)'
<1>1. PICK start, f :
        /\ f.kind \in Kinds
        /\ Laid(Stream(h), sent[h], Len(received[h]) + 1, start, f)
        /\ WriterAt(h, start[Len(sent[h]) + 1], f)
  BY DEF StreamOK
<1>2. WriterAt(h, start[Len(sent[h]) + 1], f)'
  BY <1>1 DEF WriterAt
<1>3. Laid(Stream(h), sent[h], Len(received[h]) + 1, start, f)'
  BY <1>1
<1>. QED
  BY <1>1, <1>2, <1>3 DEF StreamOK

LEMMA StreamOthers ==
  ASSUME StreamInv,
         \/ Listen \/ Connect \/ Accept
         \/ \E h \in Hosts : ParseEnd(h) \/ ReadEnd(h) \/ Stop(h)
         \/ \E h \in Hosts, k \in Topics : Register(h, k)
         \/ \E t \in Senders : GetNetworkWriter(t) \/ RegisterTopic(t) \/ PutHere(t)
         \/ Finished \/ UNCHANGED vars,
         NEW h \in Hosts
  PROVE  StreamOK(h)'
<1>1. UNCHANGED <<wire, buffer, sent, received, written>>
  BY DEF Listen, Connect, Accept, ParseEnd, ReadEnd, Stop, Register, GetNetworkWriter,
     RegisterTopic, PutHere, Finished, vars, registryVars, senderVars, streamVars, historyVars
<1>2. process'[h] = "running" => process[h] = "running"
  BY DEF StreamInv, TypeInv, TypeOK, Listen, Connect, Accept, ParseEnd, ReadEnd, Stop, Register,
     GetNetworkWriter, RegisterTopic, PutHere, Finished, vars, registryVars, senderVars,
     streamVars, historyVars
<1>3. ASSUME NEW t \in Senders
      PROVE  /\ pc'[t] \in {"announce", "send"} <=> pc[t] \in {"announce", "send"}
             /\ pc[t] \in {"announce", "send"} => FrameOf(t)' = FrameOf(t)
  <2>1. CASE UNCHANGED <<pc, count>>
    BY <2>1 DEF FrameOf
  <2>2. ASSUME NEW u \in Senders, GetNetworkWriter(u) \/ RegisterTopic(u) \/ PutHere(u)
        PROVE  /\ pc'[t] \in {"announce", "send"} <=> pc[t] \in {"announce", "send"}
               /\ pc[t] \in {"announce", "send"} => FrameOf(t)' = FrameOf(t)
    BY <2>2 DEF GetNetworkWriter, RegisterTopic, PutHere, FrameOf, StreamInv, TypeInv, TypeOK
  <2>. QED
    BY <2>1, <2>2 DEF Listen, Connect, Accept, ParseEnd, ReadEnd, Stop, Register, Finished, vars,
       registryVars, senderVars, streamVars, historyVars
<1>. QED
  BY <1>1, <1>2, <1>3, StreamKept DEF StreamInv, Stream

LEMMA StreamClosed ==
  ASSUME StreamInv, NEW t \in Senders, WriteToClosed(t), NEW h \in Hosts
  PROVE  StreamOK(h)'
<1>1. UNCHANGED <<wire, buffer, sent, received, written, count>>
  BY DEF WriteToClosed, senderVars, streamVars, historyVars
<1>2. process'[h] = "running" => process[h] = "running"
  BY DEF WriteToClosed, StreamInv, TypeInv, TypeOK
<1>3. CASE h = Peer(HostOf[t])
  <2>1. process'[h] # "running"
    BY <1>3, ConstantsTyped, PeerOfPeer DEF WriteToClosed, StreamInv, TypeInv, TypeOK
  <2>. QED
    BY <1>1, <2>1, StreamKept DEF StreamInv, Stream
<1>4. CASE h # Peer(HostOf[t])
  <2>1. ASSUME NEW u \in Senders, HostOf[u] = Peer(h)
        PROVE  pc'[u] = pc[u] /\ FrameOf(u)' = FrameOf(u)
    <3>1. u # t
      BY <1>4, <2>1, PeerOfPeer
    <3>2. pc'[u] = pc[u]
      BY <3>1 DEF WriteToClosed, StreamInv, TypeInv, TypeOK
    <3>. QED
      BY <1>1, <3>2 DEF FrameOf
  <2>. QED
    BY <1>1, <1>2, <2>1, StreamKept DEF StreamInv, Stream
<1>. QED
  BY <1>3, <1>4

\* Cutting w in two and appending both to b is appending w.
LEMMA ConcatOfCut ==
  ASSUME NEW S, NEW b \in Seq(S), NEW w \in Seq(S), NEW n \in 1..Len(w)
  PROVE  (b \o SubSeq(w, 1, n)) \o SubSeq(w, n + 1, Len(w)) = b \o w
<1>. DEFINE x == SubSeq(w, 1, n)
            y == SubSeq(w, n + 1, Len(w))
<1>1. x \in Seq(S) /\ y \in Seq(S)
  OBVIOUS
<1>2. x \o y = w
  OBVIOUS
<1>. HIDE DEF x, y
<1>3. (b \o x) \o y = b \o (x \o y)
  <2>1. b \in Seq(S)
    OBVIOUS
  <2>. QED
    BY ONLY <1>1, <2>1, SMTT(30)
<1>4. (b \o x) \o y = b \o w
  BY <1>2, <1>3, Zenon
<1>. QED
  BY <1>4 DEF x, y

\* Appending w to a sequence that is not empty leaves its first element.
LEMMA ConcatHead ==
  ASSUME NEW S, NEW b \in Seq(S), NEW w \in Seq(S), Len(b) >= 1
  PROVE  /\ Len(b \o w) = Len(b) + Len(w) /\ Len(b) \in Nat /\ Len(w) \in Nat
         /\ Len(b) <= Len(b \o w)
         /\ (b \o w)[1] = b[1] /\ b \o w # <<>>
<1>1. Len(b \o w) = Len(b) + Len(w) /\ Len(b) \in Nat /\ Len(w) \in Nat /\ Len(b) <= Len(b \o w)
  OBVIOUS
<1>2. b \o w # <<>>
  <2>1. Len(<<>>) = 0
    OBVIOUS
  <2>. QED
    BY <1>1, <2>1
<1>3. (b \o w)[1] = b[1]
  OBVIOUS
<1>. QED
  BY <1>1, <1>2, <1>3

\* Erasing the beginning of b is erasing it from b with w appended.
LEMMA ErasedOfConcat ==
  ASSUME NEW S, NEW b \in Seq(S), NEW w \in Seq(S), NEW z \in Nat, z <= Len(b)
  PROVE  SubSeq(b, z + 1, Len(b)) \o w = SubSeq(b \o w, z + 1, Len(b \o w))
<1>. DEFINE x == SubSeq(b, z + 1, Len(b))
            c == b \o w
            p == x \o w
            q == SubSeq(c, z + 1, Len(c))
<1>1. Len(b) \in Nat /\ Len(w) \in Nat
  OBVIOUS
<1>2. /\ x \in Seq(S) /\ Len(x) = Len(b) - z
      /\ \A i \in 1..(Len(b) - z) : x[i] = b[i + z]
  OBVIOUS
<1>3. /\ c \in Seq(S) /\ Len(c) = Len(b) + Len(w)
      /\ \A i \in 1..Len(c) : c[i] = IF i <= Len(b) THEN b[i] ELSE w[i - Len(b)]
  BY <1>1, ConcatProperties
<1>. HIDE DEF x, c
<1>4. /\ p \in Seq(S) /\ Len(p) = Len(x) + Len(w)
      /\ \A i \in 1..Len(p) : p[i] = IF i <= Len(x) THEN x[i] ELSE w[i - Len(x)]
  <2>1. /\ p \in Seq(S) /\ Len(p) = Len(x) + Len(w)
        /\ \A i \in 1..(Len(x) + Len(w)) : p[i] = IF i <= Len(x) THEN x[i] ELSE w[i - Len(x)]
    BY <1>1, <1>2, ConcatProperties
  <2>. HIDE DEF p
  <2>. QED
    BY <2>1
<1>5. /\ q \in Seq(S) /\ Len(q) = Len(c) - z
      /\ \A i \in 1..(Len(c) - z) : q[i] = c[i + z]
  BY <1>1, <1>3
<1>. HIDE DEF p, q
<1>6. Len(p) = Len(b) + Len(w) - z /\ Len(q) = Len(b) + Len(w) - z
  BY <1>1, <1>2, <1>3, <1>4, <1>5
<1>7. ASSUME NEW i \in 1..Len(p) PROVE p[i] = q[i]
  <2>1. q[i] = c[i + z]
    BY <1>1, <1>3, <1>5, <1>6
  <2>2. CASE i <= Len(b) - z
    <3>1. p[i] = b[i + z]
      BY <1>2, <1>4, <1>6, <2>2
    <3>2. c[i + z] = b[i + z]
      BY <1>1, <1>3, <1>6, <2>2
    <3>. QED
      BY <2>1, <3>1, <3>2
  <2>3. CASE i > Len(b) - z
    <3>1. p[i] = w[i - (Len(b) - z)]
      BY <1>1, <1>2, <1>4, <1>6, <2>3
    <3>2. c[i + z] = w[i + z - Len(b)]
      BY <1>1, <1>3, <1>6, <2>3
    <3>3. i - (Len(b) - z) = i + z - Len(b)
      BY <1>1
    <3>. QED
      BY <2>1, <3>1, <3>2, <3>3
  <2>. QED
    BY <1>1, <1>6, <2>2, <2>3
<1>8. p = q
  BY ONLY <1>4, <1>5, <1>6, <1>7, SeqEqual
<1>. QED
  BY <1>8 DEF p, q, x, c

LEMMA StreamRead ==
  ASSUME StreamInv, NEW g \in Hosts, Read(g), NEW h \in Hosts
  PROVE  StreamOK(h)'
<1>1. UNCHANGED <<sent, received, pc, count, written, process>>
  BY DEF Read, senderVars, historyVars
<1>2. Stream(h)' = Stream(h)
  <2>1. PICK n \in 1..Len(wire[g]) :
          /\ buffer' = [buffer EXCEPT ![g] = @ \o SubSeq(wire[g], 1, n)]
          /\ wire' = [wire EXCEPT ![g] = SubSeq(@, n + 1, Len(@))]
    BY DEF Read
  <2>2. CASE h # g
    BY <2>1, <2>2 DEF Stream, StreamInv, TypeInv, TypeOK
  <2>3. CASE h = g
    <3>1. buffer[g] \in Seq(Unit) /\ wire[g] \in Seq(Unit)
      BY DEF StreamInv, TypeInv, TypeOK
    <3>2. /\ buffer'[g] = buffer[g] \o SubSeq(wire[g], 1, n)
          /\ wire'[g] = SubSeq(wire[g], n + 1, Len(wire[g]))
      BY <2>1 DEF StreamInv, TypeInv, TypeOK
    <3>5. (buffer[g] \o SubSeq(wire[g], 1, n)) \o SubSeq(wire[g], n + 1, Len(wire[g]))
            = buffer[g] \o wire[g]
      BY <3>1, ConcatOfCut
    <3>. QED
      BY <2>3, <3>2, <3>5 DEF Stream
  <2>. QED
    BY <2>2, <2>3
<1>3. \A t \in Senders : FrameOf(t)' = FrameOf(t)
  BY <1>1 DEF FrameOf
<1>. QED
  BY <1>1, <1>2, <1>3, StreamKept DEF StreamInv

\* A send begins where the one before it ended.
LEMMA StreamPuts ==
  ASSUME OneSender, StreamInv, NEW t \in Senders, TopicCreate(t) \/ PutRemote(t),
         NEW h \in Hosts
  PROVE  StreamOK(h)'
<1>1. UNCHANGED <<wire, buffer, sent, received, process>>
  BY DEF TopicCreate, PutRemote, streamVars, historyVars
<1>2. /\ pc[t] \notin {"announce", "send"} /\ pc'[t] \in {"announce", "send"}
      /\ count'[t] >= 1 /\ written'[t] = 0
      /\ \A u \in Senders : u # t => pc'[u] = pc[u] /\ count'[u] = count[u] /\ written'[u] = written[u]
  BY SMTT(30) DEF TopicCreate, PutRemote, StreamInv, TypeInv, TypeOK
<1>3. CASE h # Peer(HostOf[t]) \/ process[h] # "running"
  <2>1. ASSUME NEW u \in Senders, HostOf[u] = Peer(h), process[h] = "running"
        PROVE  pc'[u] = pc[u] /\ FrameOf(u)' = FrameOf(u) /\ written'[u] = written[u]
    <3>1. u # t
      BY <1>3, <2>1, PeerOfPeer
    <3>. QED
      BY <1>2, <3>1 DEF FrameOf
  <2>. QED
    BY <1>1, <2>1, StreamKept DEF StreamInv, Stream
<1>4. CASE h = Peer(HostOf[t]) /\ process[h] = "running"
  <2>1. PICK start, f :
          /\ f.kind \in Kinds
          /\ Laid(Stream(h), sent[h], Len(received[h]) + 1, start, f)
          /\ WriterAt(h, start[Len(sent[h]) + 1], f)
    BY DEF StreamInv, StreamOK
  <2>. DEFINE from == start[Len(sent[h]) + 1]
  <2>2. HostOf[t] = Peer(h)
    BY <1>4, ConstantsTyped, PeerOfPeer
  <2>3. Len(Stream(h)) - from = 0
    BY <1>2, <1>4, <2>1, <2>2 DEF WriterAt
  <2>4. PICK g \in Frame : g = FrameOf(t)'
    <3>1. TypeInv'
      BY TypePuts DEF StreamInv
    <3>2. count'[t] \in Nat \ {0}
      BY <1>2, <3>1 DEF TypeInv, TypeOK
    <3>3. FrameOf(t)' \in Frame
      BY <3>2, ConstantsTyped DEF FrameOf, Frame, Kinds
    <3>. QED
      BY <3>3, Zenon
  <2>. HIDE DEF from
  <2>5. Laid(Stream(h), sent[h], Len(received[h]) + 1, start, g)
    BY <2>1, <2>3, <2>4, LaidRetitled DEF from
  <2>6. Stream(h) \in Streams /\ from \in Nat /\ Len(Stream(h)) \in Nat
    <3>1. Stream(h) \in Streams
      BY StreamTyped DEF StreamInv, TypeInv
    <3>2. sent[h] \in Seq(Frame)
      BY DEF StreamInv, TypeInv, TypeOK
    <3>. QED
      BY <2>1, <3>1, <3>2, LaidBounds DEF from
  <2>7. from + 0 = Len(Stream(h))
    BY <2>3, <2>6
  <2>8. WriterAt(h, start[Len(sent[h]) + 1], g)'
    <3>1. \A u \in Senders : HostOf[u] = Peer(h) => u = t
      BY <2>2 DEF OneSender
    <3>2. Stream(h)' = Stream(h)
      BY <1>1 DEF Stream
    <3>3. (start[Len(sent[h]) + 1] + written[t] = Len(Stream(h)) /\ g = FrameOf(t))'
      BY <1>1, <1>2, <2>4, <2>7, <3>2 DEF from
    <3>. QED
      BY <1>2, <3>1, <3>3 DEF WriterAt
  <2>9. Laid(Stream(h), sent[h], Len(received[h]) + 1, start, g)'
    BY <1>1, <2>5 DEF Stream
  <2>. QED
    BY <2>4, <2>8, <2>9 DEF StreamOK, Frame
<1>. QED
  BY <1>3, <1>4

\* A write takes the next units of the frame that its sender is writing.
LEMMA StreamWrite ==
  ASSUME OneSender, StreamInv, NEW t \in Senders, Write(t), NEW h \in Hosts
  PROVE  StreamOK(h)'
<1>1. pc[t] \in {"announce", "send"} /\ process[Peer(HostOf[t])] = "running"
  BY DEF Write
<1>2. PICK p \in Hosts : p = Peer(HostOf[t])
  BY ConstantsTyped
<1>3. PICK g \in Frame : g = FrameOf(t)
  BY <1>1, FrameOfTyped DEF StreamInv, TypeInv, Counted
<1>4. PICK w \in Nat : w = written[t]
  BY DEF StreamInv, TypeInv, TypeOK
<1>5. SizeOf(g) \in Nat /\ g.kind \in Kinds
  BY SizesPositive DEF Frame
<1>8. PICK n \in 1..(SizeOf(g) - w) :
        /\ written' = [written EXCEPT ![t] = @ + n]
        /\ wire' = [wire EXCEPT ![p] = @ \o Units(g, w + 1, w + n)]
        /\ IF w + n = SizeOf(g)
           THEN /\ sent' = [sent EXCEPT ![p] = Append(@, g)]
                /\ pc' = [pc EXCEPT ![t] = Written(t)]
           ELSE UNCHANGED <<sent, pc>>
  BY <1>2, <1>3, <1>4 DEF Write
<1>9. UNCHANGED <<count, buffer, process, received>>
  BY DEF Write
<1>10. n \in Nat \ {0} /\ w + n <= SizeOf(g)
  BY <1>5
<1>11. written'[t] = w + n
  BY <1>4, <1>8 DEF StreamInv, TypeInv, TypeOK
<1>6. CASE h # p
  <2>1. \A u \in Senders : HostOf[u] = Peer(h) => u # t
    BY <1>2, <1>6, PeerOfPeer
  <2>2. Stream(h)' = Stream(h) /\ sent'[h] = sent[h]
    BY <1>6, <1>8, <1>9 DEF Stream, StreamInv, TypeInv, TypeOK
  <2>3. \A u \in Senders : u # t => pc'[u] = pc[u] /\ written'[u] = written[u]
    BY <1>8 DEF StreamInv, TypeInv, TypeOK
  <2>4. \A u \in Senders : u # t => FrameOf(u)' = FrameOf(u)
    BY <1>9, <2>3 DEF FrameOf
  <2>. QED
    BY <1>9, <2>1, <2>2, <2>3, <2>4, StreamKept DEF StreamInv
<1>7. CASE h = p
  <2>1. PICK start, f :
          /\ f.kind \in Kinds
          /\ Laid(Stream(h), sent[h], Len(received[h]) + 1, start, f)
          /\ WriterAt(h, start[Len(sent[h]) + 1], f)
    BY DEF StreamInv, StreamOK
  <2>2. HostOf[t] = Peer(h) /\ \A u \in Senders : HostOf[u] = Peer(h) => u = t
    <3>1. HostOf[t] = Peer(h)
      BY <1>2, <1>7, ConstantsTyped, PeerOfPeer
    <3>. QED
      BY <3>1 DEF OneSender
  <2>3. start[Len(sent[h]) + 1] + w = Len(Stream(h)) /\ f = g
    BY <1>1, <1>2, <1>3, <1>4, <1>7, <2>1, <2>2 DEF WriterAt
  <2>4. Laid(Stream(h), sent[h], Len(received[h]) + 1, start, g)
    BY <2>1, <2>3
  <2>5. Stream(h) \in Streams /\ sent[h] \in Seq(Frame)
    BY StreamTyped DEF StreamInv, TypeInv, TypeOK
  <2>6. Stream(h)' = Stream(h) \o Units(g, w + 1, w + n)
    <3>1. wire'[h] = wire[h] \o Units(g, w + 1, w + n)
      BY <1>7, <1>8 DEF StreamInv, TypeInv, TypeOK
    <3>2. Units(g, w + 1, w + n) \in Streams
      BY <1>10, UnitsElements
    <3>3. buffer[h] \in Streams /\ wire[h] \in Streams
      BY UnitsAreStreams DEF StreamInv, TypeInv, TypeOK
    <3>4. \A b, x, y \in Streams : (b \o x) \o y = b \o (x \o y)
      <4>. SUFFICES ASSUME NEW b \in Streams, NEW x \in Streams, NEW y \in Streams
                    PROVE  (b \o x) \o y = b \o (x \o y)
        OBVIOUS
      <4>1. b \in Streams /\ x \in Streams /\ y \in Streams
        OBVIOUS
      <4>. QED
        BY ONLY <4>1, SMTT(30) DEF Streams
    <3>5. (buffer[h] \o wire[h]) \o Units(g, w + 1, w + n)
            = buffer[h] \o (wire[h] \o Units(g, w + 1, w + n))
      BY ONLY <3>2, <3>3, <3>4
    <3>. QED
      BY <1>9, <3>1, <3>5 DEF Stream
  <2>7. start[Len(sent[h]) + 1] \in Nat /\ Len(Stream(h)) \in Nat
    BY <2>1, <2>5, LaidBounds
  <2>8. Len(Stream(h) \o Units(g, w + 1, w + n)) = Len(Stream(h)) + n
    BY <1>10, <2>5, WriteAppends
  <2>9. CASE w + n # SizeOf(g)
    <3>1. UNCHANGED <<sent, pc>>
      BY <1>8, <2>9
    <3>2. w + n < SizeOf(g)
      BY <1>5, <1>10, <2>9
    <3>3. Laid(Stream(h) \o Units(g, w + 1, w + n), sent[h], Len(received[h]) + 1, start, g)
      BY <1>10, <2>3, <2>4, <2>5, <3>2, LaidGrows
    <3>4. Laid(Stream(h), sent[h], Len(received[h]) + 1, start, g)'
      BY <1>9, <2>6, <3>1, <3>3
    <3>5. start[Len(sent[h]) + 1] + (w + n) = Len(Stream(h)) + n
      BY <1>10, <2>3, <2>7, SMTT(30)
    <3>6. FrameOf(t)' = g
      BY <1>3, <1>9, <3>1 DEF FrameOf
    <3>7. WriterAt(h, start[Len(sent[h]) + 1], g)'
      BY <1>1, <1>11, <2>2, <2>6, <2>8, <3>1, <3>5, <3>6 DEF WriterAt
    <3>. QED
      BY <1>5, <3>4, <3>7 DEF StreamOK
  <2>10. CASE w + n = SizeOf(g)
    <3>1. sent'[h] = Append(sent[h], g) /\ pc'[t] \notin {"announce", "send"}
      BY <1>7, <1>8, <2>10 DEF Written, StreamInv, TypeInv, TypeOK
    <3>2. PICK begin :
            /\ Laid(Stream(h) \o Units(g, w + 1, w + n), Append(sent[h], g),
                    Len(received[h]) + 1, begin, g)
            /\ begin[Len(sent[h]) + 2] = Len(Stream(h)) + n
      <4>1. start[Len(sent[h]) + 1] + w = Len(Stream(h))
        BY <2>3
      <4>. QED
        <5>1. \A x \in Streams, fs \in Seq(Frame) : \A first, begin :
                Laid(x, fs, first, begin, g) /\ begin[Len(fs) + 1] + w = Len(x) =>
                  \E next : /\ Laid(x \o Units(g, w + 1, w + n), Append(fs, g), first, next, g)
                            /\ next[Len(fs) + 2] = Len(x) + n
          BY <1>10, <2>10, LaidCompletes
        <5>. QED
          BY ONLY <2>4, <2>5, <4>1, <5>1, Zenon
    <3>3. Len(sent'[h]) + 1 = Len(sent[h]) + 2
      BY <2>5, <3>1, AppendProperties
    <3>4. Len(Stream(h)') - begin[Len(sent'[h]) + 1] = 0
      BY <1>10, <2>6, <2>7, <2>8, <3>2, <3>3
    <3>5. WriterAt(h, begin[Len(sent[h]) + 1], g)'
      BY <2>2, <3>1, <3>4 DEF WriterAt
    <3>6. Laid(Stream(h), sent[h], Len(received[h]) + 1, begin, g)'
      BY <1>9, <2>6, <3>1, <3>2
    <3>. QED
      BY <1>5, <3>5, <3>6 DEF StreamOK
  <2>. QED
    BY <2>9, <2>10
<1>. QED
  BY <1>6, <1>7

\* Receive takes the next frame sent to its host, and leaves the others as they are.
LEMMA NextFrame ==
  ASSUME StreamInv, NEW h \in Hosts, Receive(h)
  PROVE  /\ Len(received[h]) + 1 \in 1..Len(sent[h])
         /\ buffer[h][1].of = sent[h][Len(received[h]) + 1]
         /\ received'[h] = Append(received[h], sent[h][Len(received[h]) + 1])
         /\ StreamOK(h)'
<1>1. PICK start, f :
        /\ f.kind \in Kinds
        /\ Laid(Stream(h), sent[h], Len(received[h]) + 1, start, f)
        /\ WriterAt(h, start[Len(sent[h]) + 1], f)
  BY DEF StreamInv, StreamOK
<1>2. Stream(h) \in Streams /\ sent[h] \in Seq(Frame) /\ received[h] \in Seq(Frame)
  BY StreamTyped DEF StreamInv, TypeInv, TypeOK
<1>3. /\ buffer[h] \in Seq(Unit) /\ wire[h] \in Seq(Unit)
      /\ Len(buffer[h]) >= 2 /\ Len(buffer[h]) >= SizeOf(buffer[h][1].of)
  BY DEF Receive, Complete, StreamInv, TypeInv, TypeOK
<1>4. /\ Len(Stream(h)) = Len(buffer[h]) + Len(wire[h])
      /\ Len(buffer[h]) \in Nat /\ Len(wire[h]) \in Nat
      /\ Len(buffer[h]) <= Len(Stream(h)) /\ Len(Stream(h)) \in Nat
      /\ Stream(h)[1] = buffer[h][1]
      /\ Stream(h) # <<>>
  <2>1. Len(buffer[h]) >= 1
    BY <1>3
  <2>2. Len(Stream(h)) \in Nat
    BY <1>2, LenProperties DEF Streams
  <2>3. /\ Len(Stream(h)) = Len(buffer[h]) + Len(wire[h])
        /\ Len(buffer[h]) \in Nat /\ Len(wire[h]) \in Nat
        /\ Len(buffer[h]) <= Len(Stream(h))
        /\ Stream(h)[1] = buffer[h][1] /\ Stream(h) # <<>>
    BY <1>3, <2>1, ConcatHead DEF Stream
  <2>. QED
    BY ONLY <2>2, <2>3
<1>5. SizeOf(Stream(h)[1].of) \in Nat /\ SizeOf(Stream(h)[1].of) <= Len(Stream(h))
  <2>1. buffer[h][1] \in Unit
    <3>1. 1 \in 1..Len(buffer[h])
      BY <1>3, <1>4
    <3>. QED
      BY <1>3, <3>1, ElementOfSeq
  <2>2. SizeOf(buffer[h][1].of) \in Nat
    BY <2>1, SizesPositive DEF Unit
  <2>3. SizeOf(buffer[h][1].of) <= Len(buffer[h])
    BY <1>3, <1>4, <2>2
  <2>. DEFINE size == SizeOf(buffer[h][1].of)
  <2>4. SizeOf(Stream(h)[1].of) = size
    BY <1>4
  <2>5. size \in Nat /\ size <= Len(buffer[h])
    BY <2>2, <2>3
  <2>. HIDE DEF size
  <2>6. size <= Len(Stream(h))
    <3>1. /\ Len(buffer[h]) \in Nat /\ Len(Stream(h)) \in Nat
          /\ Len(buffer[h]) <= Len(Stream(h))
      BY <1>4
    <3>. QED
      BY ONLY <2>5, <3>1
  <2>. QED
    BY <2>4, <2>5, <2>6
<1>. DEFINE k == Len(received[h]) + 1
            z == SizeOf(sent[h][k])
            shifted == Shifted(sent[h], k, start, z)
<1>6. /\ k \in 1..Len(sent[h])
      /\ Stream(h)[1].of = sent[h][k]
      /\ Laid(SubSeq(Stream(h), z + 1, Len(Stream(h))), sent[h], k + 1, shifted, f)
  <2>1. Laid(Stream(h), sent[h], k, start, f)
    BY <1>1
  <2>2. f.kind \in Kinds /\ Stream(h) # <<>> /\ SizeOf(Stream(h)[1].of) <= Len(Stream(h))
    BY <1>1, <1>4, <1>5
  <2>. HIDE DEF k
  <2>. QED
    <3>1. k \in 1..Len(sent[h])
      BY ONLY <1>2, <2>1, <2>2, LaidErased
    <3>2. Stream(h)[1].of = sent[h][k]
      BY ONLY <1>2, <2>1, <2>2, LaidErased
    <3>3. Laid(SubSeq(Stream(h), SizeOf(sent[h][k]) + 1, Len(Stream(h))), sent[h], k + 1,
               Shifted(sent[h], k, start, SizeOf(sent[h][k])), f)
      BY ONLY <1>2, <2>1, <2>2, LaidErased
    <3>. QED
      BY ONLY <3>1, <3>2, <3>3 DEF z, shifted
<1>7. buffer[h][1].of = sent[h][k]
  BY <1>4, <1>6
<1>8. /\ received'[h] = Append(received[h], sent[h][k])
      /\ Len(received'[h]) = k
      /\ UNCHANGED <<sent, wire, process, pc, count, written>>
      /\ buffer'[h] = SubSeq(buffer[h], z + 1, Len(buffer[h]))
  <2>1. received' = [received EXCEPT ![h] = Append(@, buffer[h][1].of)]
    BY DEF Receive
  <2>2. buffer' = [buffer EXCEPT ![h] = SubSeq(@, z + 1, Len(@))]
    BY <1>7 DEF Receive, Erased
  <2>3. received'[h] = Append(received[h], sent[h][k])
    BY <1>7, <2>1 DEF StreamInv, TypeInv, TypeOK
  <2>4. UNCHANGED <<sent, wire, process, pc, count, written>>
    BY DEF Receive, senderVars
  <2>5. sent[h][k] \in Frame
    BY <1>2, <1>6, ElementOfSeq
  <2>6. Len(received'[h]) = k
    BY <1>2, <2>3, <2>5, AppendProperties
  <2>. QED
    BY <2>2, <2>3, <2>4, <2>6 DEF StreamInv, TypeInv, TypeOK
<1>9. Stream(h)' = SubSeq(Stream(h), z + 1, Len(Stream(h)))
  <2>1. z \in Nat /\ z <= Len(buffer[h])
    BY <1>3, <1>4, <1>5, <1>7
  <2>. HIDE DEF z
  <2>2. SubSeq(buffer[h], z + 1, Len(buffer[h])) \o wire[h]
          = SubSeq(buffer[h] \o wire[h], z + 1, Len(buffer[h] \o wire[h]))
    BY ONLY <1>3, <2>1, ErasedOfConcat
  <2>. QED
    BY <1>8, <2>2 DEF Stream
<1>10. PICK begin :
         /\ Laid(SubSeq(Stream(h), z + 1, Len(Stream(h))), sent[h], k + 1, begin, f)
         /\ begin[Len(sent[h]) + 1] = start[Len(sent[h]) + 1] - z
  <2>1. Len(sent[h]) + 1 \in (k + 1)..(Len(sent[h]) + 1)
    BY <1>2, <1>6
  <2>2. shifted[Len(sent[h]) + 1] = start[Len(sent[h]) + 1] - z
    BY <2>1 DEF Shifted
  <2>. QED
    BY <1>6, <2>2, Zenon
<1>11. Laid(Stream(h), sent[h], Len(received[h]) + 1, begin, f)'
  BY <1>8, <1>9, <1>10
<1>12. WriterAt(h, begin[Len(sent[h]) + 1], f)'
  <2>. DEFINE old == start[Len(sent[h]) + 1]
              new == begin[Len(sent[h]) + 1]
  <2>1. old \in Nat /\ Len(Stream(h)) \in Nat
    BY <1>1, <1>2, LaidBounds
  <2>2. TypeOK'
    BY TypeReceives DEF StreamInv, TypeInv
  <2>3. new \in Nat /\ Len(Stream(h)') \in Nat
    <3>1. Stream(h)' \in Streams
      <4>1. buffer'[h] \in Seq(Unit) /\ wire'[h] \in Seq(Unit)
        BY <2>2 DEF TypeOK
      <4>2. Stream(h)' \in Seq(Unit)
        BY <4>1, ConcatProperties DEF Stream
      <4>. QED
        BY <4>2, UnitsAreStreams
    <3>2. Stream(h)' \in Streams /\ Laid(Stream(h)', sent[h], k + 1, begin, f)
      BY <1>9, <1>10, <3>1
    <3>. HIDE DEF k
    <3>. QED
      BY <1>2, <3>2, LaidBounds
  <2>4. Len(Stream(h)') - new = Len(Stream(h)) - old
    <3>1. z \in Nat /\ z <= Len(Stream(h))
      BY <1>4, <1>5, <1>6
    <3>. HIDE DEF z
    <3>2. Len(Stream(h)') = Len(Stream(h)) - z
      BY <1>2, <1>9, <2>1, <3>1 DEF Streams
    <3>. QED
      BY <1>10, <2>1, <3>1, <3>2
  <2>5. \A t \in Senders : FrameOf(t)' = FrameOf(t)
    BY <1>8 DEF FrameOf
  <2>6. \A x \in Nat : (old + x = Len(Stream(h)) => new + x = Len(Stream(h)'))
    <3>. HIDE DEF old, new
    <3>. QED
      BY <2>1, <2>3, <2>4
  <2>7. \A t \in Senders : written[t] \in Nat
    BY DEF StreamInv, TypeInv, TypeOK
  <2>. QED
    BY <1>1, <1>8, <2>4, <2>5, <2>6, <2>7 DEF WriterAt
<1>13. StreamOK(h)'
  BY <1>1, <1>11, <1>12 DEF StreamOK
<1>. QED
  BY <1>6, <1>7, <1>8, <1>13

LEMMA StreamReceive ==
  ASSUME StreamInv, NEW g \in Hosts, Receive(g), NEW h \in Hosts
  PROVE  StreamOK(h)'
<1>1. CASE h = g
  BY <1>1, NextFrame
<1>2. CASE h # g
  <2>1. UNCHANGED <<sent, wire, process, pc, count, written>>
    BY DEF Receive, senderVars
  <2>2. buffer'[h] = buffer[h] /\ received'[h] = received[h]
    BY <1>2 DEF Receive, StreamInv, TypeInv, TypeOK
  <2>3. \A t \in Senders : FrameOf(t)' = FrameOf(t)
    BY <2>1 DEF FrameOf
  <2>. QED
    BY <2>1, <2>2, <2>3, StreamKept DEF StreamInv, Stream
<1>. QED
  BY <1>1, <1>2

\* The beginning of a sequence, one element longer.
LEMMA PrefixGrows ==
  ASSUME NEW S, NEW s \in Seq(S), NEW r \in Nat, r + 1 <= Len(s)
  PROVE  Append(SubSeq(s, 1, r), s[r + 1]) = SubSeq(s, 1, r + 1)
<1>. DEFINE p == Append(SubSeq(s, 1, r), s[r + 1])
            q == SubSeq(s, 1, r + 1)
<1>1. p \in Seq(S) /\ Len(p) = r + 1
  OBVIOUS
<1>2. q \in Seq(S) /\ Len(q) = r + 1
  OBVIOUS
<1>3. ASSUME NEW i \in 1..(r + 1) PROVE p[i] = q[i]
  OBVIOUS
<1>. HIDE DEF p, q
<1>4. p = q
  BY ONLY <1>1, <1>2, <1>3, SeqEqual
<1>. QED
  BY <1>4 DEF p, q

\* Appending to a sequence leaves its beginning.
LEMMA PrefixStays ==
  ASSUME NEW S, NEW s \in Seq(S), NEW x \in S, NEW r \in Nat, r <= Len(s)
  PROVE  SubSeq(Append(s, x), 1, r) = SubSeq(s, 1, r)
<1>. DEFINE p == SubSeq(Append(s, x), 1, r)
            q == SubSeq(s, 1, r)
<1>1. p \in Seq(S) /\ Len(p) = r
  OBVIOUS
<1>2. q \in Seq(S) /\ Len(q) = r
  OBVIOUS
<1>3. ASSUME NEW i \in 1..r PROVE p[i] = q[i]
  OBVIOUS
<1>. HIDE DEF p, q
<1>4. p = q
  BY ONLY <1>1, <1>2, <1>3, SeqEqual
<1>. QED
  BY <1>4 DEF p, q

LEMMA PrefixStep ==
  ASSUME OneSender, StreamInv, [Next]_vars
  PROVE  ReceivedIsPrefix'
<1>. USE DEF ReceivedIsPrefix
<1>1. \A h \in Hosts : sent[h] \in Seq(Frame) /\ received[h] \in Seq(Frame)
  BY DEF StreamInv, TypeInv, TypeOK
<1>2. ReceivedIsPrefix
  BY DEF StreamInv
<1>3. CASE UNCHANGED <<sent, received>>
  BY <1>2, <1>3
<1>4. ASSUME NEW t \in Senders, Write(t) PROVE ReceivedIsPrefix'
  <2>. DEFINE g == FrameOf(t)
  <2>1. received' = received
    BY <1>4 DEF Write
  <2>2. sent' = sent \/ sent' = [sent EXCEPT ![Peer(HostOf[t])] = Append(@, g)]
    BY <1>4 DEF Write
  <2>3. g \in Frame
    BY <1>4, FrameOfTyped DEF Write, StreamInv, TypeInv, Counted
  <2>. HIDE DEF g
  <2>4. SUFFICES ASSUME NEW h \in Hosts
                 PROVE  /\ Len(received'[h]) <= Len(sent'[h])
                        /\ received'[h] = SubSeq(sent'[h], 1, Len(received'[h]))
    OBVIOUS
  <2>5. sent'[h] = sent[h] \/ sent'[h] = Append(sent[h], g)
    BY <2>2 DEF StreamInv, TypeInv, TypeOK
  <2>6. CASE sent'[h] = Append(sent[h], g)
    <3>1. Len(received[h]) \in Nat /\ Len(received[h]) <= Len(sent[h])
      BY <1>1, <1>2
    <3>2. SubSeq(Append(sent[h], g), 1, Len(received[h])) = SubSeq(sent[h], 1, Len(received[h]))
      BY <1>1, <2>3, <3>1, PrefixStays
    <3>3. Len(sent'[h]) = Len(sent[h]) + 1 /\ Len(sent[h]) \in Nat
      BY <1>1, <2>3, <2>6, AppendProperties
    <3>. QED
      BY <1>2, <2>1, <2>6, <3>1, <3>2, <3>3
  <2>. QED
    BY <1>2, <2>1, <2>5, <2>6
<1>5. ASSUME NEW g \in Hosts, Receive(g) PROVE ReceivedIsPrefix'
  <2>1. sent' = sent /\ \A h \in Hosts : h # g => received'[h] = received[h]
    BY <1>5 DEF Receive, StreamInv, TypeInv, TypeOK
  <2>2. /\ Len(received[g]) + 1 \in 1..Len(sent[g])
        /\ received'[g] = Append(received[g], sent[g][Len(received[g]) + 1])
    BY <1>5, NextFrame
  <2>3. SUFFICES ASSUME NEW h \in Hosts
                 PROVE  /\ Len(received'[h]) <= Len(sent'[h])
                        /\ received'[h] = SubSeq(sent'[h], 1, Len(received'[h]))
    OBVIOUS
  <2>4. CASE h = g
    <3>. DEFINE r == Len(received[g])
                x == sent[g][r + 1]
    <3>1. r \in Nat /\ r + 1 <= Len(sent[g]) /\ x \in Frame
      BY <1>1, <2>2, ElementOfSeq
    <3>2. received[g] = SubSeq(sent[g], 1, r)
      BY <1>2
    <3>3. Append(SubSeq(sent[g], 1, r), x) = SubSeq(sent[g], 1, r + 1)
      BY <1>1, <3>1, PrefixGrows
    <3>4. received'[g] = SubSeq(sent[g], 1, r + 1)
      BY <2>2, <3>2, <3>3
    <3>5. Len(received'[g]) = r + 1
      BY <1>1, <2>2, <3>1, AppendProperties
    <3>. HIDE DEF r
    <3>. QED
      BY <2>1, <2>4, <3>1, <3>4, <3>5
  <2>. QED
    BY <1>2, <2>1, <2>4
<1>6. ASSUME NEW t \in Senders,
             \/ GetNetworkWriter(t) \/ RegisterTopic(t) \/ PutHere(t) \/ PutRemote(t)
             \/ TopicCreate(t) \/ WriteToClosed(t)
      PROVE  ReceivedIsPrefix'
  BY <1>3, <1>6 DEF GetNetworkWriter, RegisterTopic, PutHere, PutRemote, TopicCreate,
     WriteToClosed, historyVars
<1>7. ASSUME NEW h \in Hosts, Read(h) \/ ParseEnd(h) \/ ReadEnd(h) \/ Stop(h)
      PROVE  ReceivedIsPrefix'
  BY <1>3, <1>7 DEF Read, ParseEnd, ReadEnd, Stop, historyVars
<1>8. ASSUME NEW h \in Hosts, NEW k \in Topics, Register(h, k) PROVE ReceivedIsPrefix'
  BY <1>3, <1>8 DEF Register, historyVars
<1>9. CASE Listen \/ Connect \/ Accept \/ Finished \/ UNCHANGED vars
  BY <1>3, <1>9 DEF Listen, Connect, Accept, Finished, vars, historyVars
<1>. QED
  BY <1>4, <1>5, <1>6, <1>7, <1>8, <1>9 DEF Next, SenderStep

LEMMA StreamStep == OneSender /\ StreamInv /\ [Next]_vars => StreamInv'
<1>. SUFFICES ASSUME OneSender, StreamInv, [Next]_vars PROVE StreamInv'
  OBVIOUS
<1>1. TypeInv'
  BY TypeStep DEF StreamInv
<1>2. ASSUME NEW h \in Hosts PROVE StreamOK(h)'
  BY StreamOthers, StreamClosed, StreamRead, StreamPuts, StreamWrite, StreamReceive
  DEF Next, SenderStep
<1>. QED
  BY <1>1, <1>2, PrefixStep DEF StreamInv

\* With one sender on a host, or one at a time, what read_loop has yet to parse is the
\* frames that were sent to it and not handled, whole and in order, and the beginning of
\* the one being written.
THEOREM TcpStreamInductive == ASSUME OneSender PROVE Spec => []StreamInv
<1>1. Init => StreamInv
  BY StreamInitial
<1>2. StreamInv /\ [Next]_vars => StreamInv'
  BY StreamStep
<1>. QED
  BY <1>1, <1>2, PTL DEF Spec

\* However the stream is cut into writes and reads, read_loop finds a header wherever it
\* looks for one: no frame is torn or mixed with another.
THEOREM TcpFramesWhole == ASSUME OneSender PROVE Spec => []FramesIntact
<1>1. StreamInv => FramesIntact
  <2>. SUFFICES ASSUME StreamInv, NEW h \in Hosts
                PROVE  /\ Stream(h) # <<>> => Stream(h)[1].at = 1
                       /\ \A i \in 1..(Len(Stream(h)) - 1) : Follows(Stream(h)[i], Stream(h)[i + 1])
    BY DEF FramesIntact, Stream
  <2>1. PICK start, f :
          /\ f.kind \in Kinds
          /\ Laid(Stream(h), sent[h], Len(received[h]) + 1, start, f)
    BY DEF StreamInv, StreamOK
  <2>2. Stream(h) \in Streams /\ sent[h] \in Seq(Frame)
    BY StreamTyped DEF StreamInv, TypeInv, TypeOK
  <2>3. ASSUME Stream(h) # <<>> PROVE Stream(h)[1].at = 1
    <3>1. Stream(h)[1] = [of |-> IF Len(received[h]) + 1 <= Len(sent[h])
                                 THEN sent[h][Len(received[h]) + 1] ELSE f, at |-> 1]
      BY <2>1, <2>2, <2>3, LaidHead
    <3>. QED
      BY <3>1
  <2>4. ASSUME NEW i \in 1..(Len(Stream(h)) - 1) PROVE Follows(Stream(h)[i], Stream(h)[i + 1])
    BY <2>1, <2>2, LaidFollows
  <2>. QED
    BY <2>3, <2>4
<1>. QED
  BY <1>1, TcpStreamInductive, PTL

\* A host handles the frames its peer has sent, in their order, each once.
THEOREM TcpInOrder == ASSUME OneSender PROVE Spec => []ReceivedIsPrefix
<1>1. StreamInv => ReceivedIsPrefix
  BY DEF StreamInv
<1>. QED
  BY <1>1, TcpStreamInductive, PTL

----------------------------------------------------------------------------
(* The method of a topic is known before the first event of it.            *)

Known(h, k) == configs[h][k] = Method[k]

\* An announcement of k is among the frames sent to h, up to the n-th, that h has yet to
\* handle.
Announced(h, k, n) ==
  \E i \in (Len(received[h]) + 1)..n :
    sent[h][i].kind = "create_topic" /\ sent[h][i].topic = k

SentMethods == \A h \in Hosts : \A i \in 1..Len(sent[h]) :
  sent[h][i].method = Method[sent[h][i].topic]

\* An event comes to a host that knows its topic or will by then; an announcement comes
\* from one.
AnnouncedFirst ==
  \A h \in Hosts : \A i \in (Len(received[h]) + 1)..Len(sent[h]) :
    /\ sent[h][i].kind = "data" =>
         Known(h, sent[h][i].topic) \/ Announced(h, sent[h][i].topic, i - 1)
    /\ sent[h][i].kind = "create_topic" => Known(Peer(h), sent[h][i].topic)

SendersKnow ==
  \A t \in Senders :
    /\ pc[t] = "send" => TopicOf[t] \in networked[HostOf[t]]
    /\ pc[t] = "announce" => Known(HostOf[t], TopicOf[t])

\* h knows k, or will before any event that is sent from now on.
WillKnow(h, k) ==
  \/ Known(h, k)
  \/ \E i \in (Len(received[h]) + 1)..Len(sent[h]) :
       sent[h][i].kind = "create_topic" /\ sent[h][i].topic = k
  \/ \E t \in Senders : HostOf[t] = Peer(h) /\ TopicOf[t] = k /\ pc[t] = "announce"

\* What one end takes for networked the other will know.
PeerKnows ==
  \A h \in Hosts : process[h] = "running" => \A k \in networked[Peer(h)] : WillKnow(h, k)

MethodInv ==
  StreamInv /\ SentMethods /\ AnnouncedFirst /\ SendersKnow /\ PeerKnows /\ MethodAgrees

LEMMA MethodInitial == Init => MethodInv
<1>. SUFFICES ASSUME Init PROVE MethodInv
  OBVIOUS
<1>1. \A h \in Hosts : Peer(h) \in Hosts /\ Len(sent[h]) = 0 /\ Len(received[h]) = 0
  BY PeerOfPeer DEF Init
<1>2. SentMethods /\ AnnouncedFirst
  BY <1>1 DEF SentMethods, AnnouncedFirst
<1>3. SendersKnow /\ PeerKnows /\ MethodAgrees
  BY <1>1 DEF Init, SendersKnow, PeerKnows, MethodAgrees
<1>. QED
  BY <1>2, <1>3, StreamInitial DEF MethodInv

\* A step that moves no frame and adds no topic.
LEMMA MethodKept ==
  ASSUME MethodInv, UNCHANGED <<networked, configs, sent, received, delivered>>,
         \A h \in Hosts : process'[h] = "running" => process[h] = "running",
         \A t \in Senders : pc'[t] \in {"announce", "send"} => pc'[t] = pc[t],
         \A t \in Senders : pc[t] = "announce" =>
           pc'[t] = "announce" \/ process'[Peer(HostOf[t])] # "running"
  PROVE  /\ SentMethods' /\ AnnouncedFirst' /\ SendersKnow' /\ PeerKnows' /\ MethodAgrees'
<1>1. SentMethods' /\ MethodAgrees'
  BY DEF MethodInv, SentMethods, MethodAgrees
<1>2. \A h, k : Known(h, k)' = Known(h, k)
  BY DEF Known
<1>3. \A h, k, n : Announced(h, k, n)' = Announced(h, k, n)
  BY DEF Announced
<1>4. AnnouncedFirst'
  BY <1>2, <1>3 DEF MethodInv, AnnouncedFirst
<1>5. SendersKnow'
  BY <1>2 DEF MethodInv, SendersKnow
<1>6. PeerKnows'
  <2>. SUFFICES ASSUME NEW h \in Hosts, process'[h] = "running", NEW k \in networked'[Peer(h)]
                PROVE  WillKnow(h, k)'
    BY DEF PeerKnows
  <2>1. WillKnow(h, k)
    BY DEF MethodInv, PeerKnows
  <2>2. ASSUME NEW t \in Senders, HostOf[t] = Peer(h), pc[t] = "announce"
        PROVE  pc'[t] = "announce"
    BY <2>2, PeerOfPeer
  <2>. QED
    BY <1>2, <2>1, <2>2 DEF WillKnow
<1>. QED
  BY <1>1, <1>4, <1>5, <1>6

\* The frames of a sequence are frames.
LEMMA FramesTyped ==
  ASSUME NEW fs \in Seq(Frame), NEW i \in 1..Len(fs)
  PROVE  /\ fs[i] \in Frame /\ fs[i].topic \in Topics /\ fs[i].kind \in Kinds
         /\ fs[i].method \in Methods
<1>1. fs[i] \in Frame
  BY ElementOfSeq
<1>. QED
  BY <1>1 DEF Frame

MethodRest == SentMethods /\ AnnouncedFirst /\ SendersKnow /\ PeerKnows /\ MethodAgrees

LEMMA MethodOthers ==
  ASSUME MethodInv,
         \/ Listen \/ Connect \/ Accept \/ Finished \/ UNCHANGED vars
         \/ \E h \in Hosts : Read(h) \/ ParseEnd(h) \/ ReadEnd(h) \/ Stop(h)
         \/ \E h \in Hosts, k \in Topics : Register(h, k)
         \/ \E t \in Senders : GetNetworkWriter(t) \/ RegisterTopic(t) \/ PutHere(t)
                               \/ WriteToClosed(t)
  PROVE  MethodRest'
<1>. DEFINE Kept ==
       /\ UNCHANGED <<networked, configs, sent, received, delivered>>
       /\ \A h \in Hosts : process'[h] = "running" => process[h] = "running"
       /\ \A t \in Senders : pc'[t] \in {"announce", "send"} => pc'[t] = pc[t]
       /\ \A t \in Senders : pc[t] = "announce" =>
            pc'[t] = "announce" \/ process'[Peer(HostOf[t])] # "running"
<1>1. ASSUME Kept PROVE MethodRest'
  BY <1>1, MethodKept DEF MethodRest
<1>. USE DEF registryVars, historyVars, senderVars, streamVars
<1>2. process \in [Hosts -> {"running", "stopped", "terminated"}] /\ DOMAIN pc = Senders
  BY DEF MethodInv, StreamInv, TypeInv, TypeOK
<1>3. CASE Listen \/ Connect \/ Accept \/ Finished \/ UNCHANGED vars
  <2>1. Kept
    BY <1>2, <1>3 DEF Listen, Connect, Accept, Finished, vars
  <2>. QED
    BY <1>1, <2>1
<1>4. CASE \E h \in Hosts : Read(h) \/ ParseEnd(h) \/ ReadEnd(h) \/ Stop(h)
  <2>1. Kept
    BY <1>2, <1>4 DEF Read, ParseEnd, ReadEnd, Stop
  <2>. QED
    BY <1>1, <2>1
<1>5. CASE \E h \in Hosts, k \in Topics : Register(h, k)
  <2>1. Kept
    BY <1>5 DEF Register
  <2>. QED
    BY <1>1, <2>1
<1>6. ASSUME NEW t \in Senders, GetNetworkWriter(t) \/ RegisterTopic(t) \/ PutHere(t)
      PROVE  MethodRest'
  <2>1. Kept
    BY <1>2, <1>6 DEF GetNetworkWriter, RegisterTopic, PutHere
  <2>. QED
    BY <1>1, <2>1
<1>7. ASSUME NEW t \in Senders, WriteToClosed(t) PROVE MethodRest'
  <2>1. HostOf[t] \in Hosts /\ Peer(HostOf[t]) # HostOf[t] /\ Written(t) \in {"register", "ready"}
    BY ConstantsTyped, PeerOfPeer DEF Written
  <2>2. UNCHANGED <<networked, configs, sent, received, delivered>>
    BY <1>7 DEF WriteToClosed
  <2>3. \/ pc' = [pc EXCEPT ![t] = Written(t)] /\ process' = process
        \/ process' = [process EXCEPT ![HostOf[t]] = "terminated"] /\ pc' = pc
    BY <1>7 DEF WriteToClosed
  <2>4. process[Peer(HostOf[t])] # "running"
    BY <1>7 DEF WriteToClosed
  <2>5. Kept
    BY <1>2, <2>1, <2>2, <2>3, <2>4
  <2>. QED
    BY <1>1, <2>5
<1>. QED
  BY <1>3, <1>4, <1>5, <1>6, <1>7

\* What an operation of a sender that writes nothing yet may change.
LEMMA MethodTopicCreate ==
  ASSUME MethodInv, NEW t \in Senders, TopicCreate(t)
  PROVE  MethodRest'
<1>. DEFINE h == HostOf[t]
            k == TopicOf[t]
<1>1. h \in Hosts /\ k \in Topics
  BY ConstantsTyped
<1>2. /\ UNCHANGED <<sent, received, delivered, process>> /\ pc[t] = "create"
      /\ networked' = [networked EXCEPT ![h] = @ \cup {k}]
      /\ configs' = [configs EXCEPT ![h][k] = Method[k]]
      /\ pc' = [pc EXCEPT ![t] = "announce"]
  BY DEF TopicCreate, historyVars
<1>3. /\ networked \in [Hosts -> SUBSET Topics]
      /\ configs \in [Hosts -> [Topics -> Methods \cup {NoMethod}]]
      /\ DOMAIN pc = Senders
  BY DEF MethodInv, StreamInv, TypeInv, TypeOK
<1>. HIDE DEF h, k
<1>4. Known(h, k)' /\ \A g \in Hosts, x \in Topics : Known(g, x) => Known(g, x)'
  BY <1>1, <1>2, <1>3 DEF Known
<1>5. /\ \A g \in Hosts : sent[g] \in Seq(Frame)
      /\ \A g \in Hosts : Len(received[g]) \in Nat /\ Len(sent[g]) \in Nat
      /\ \A g \in Hosts : \A i \in 1..Len(sent[g]) : sent[g][i].topic \in Topics
  BY LenProperties, FramesTyped DEF MethodInv, StreamInv, TypeInv, TypeOK
<1>6. \A g, x, n : Announced(g, x, n)' = Announced(g, x, n)
  BY <1>2 DEF Announced
<1>7. SentMethods' /\ MethodAgrees'
  BY <1>2 DEF MethodInv, SentMethods, MethodAgrees
<1>8. AnnouncedFirst'
  <2>. SUFFICES ASSUME NEW g \in Hosts, NEW i \in (Len(received[g]) + 1)..Len(sent[g])
                PROVE  /\ sent[g][i].kind = "data" =>
                            Known(g, sent[g][i].topic)' \/ Announced(g, sent[g][i].topic, i - 1)'
                       /\ sent[g][i].kind = "create_topic" => Known(Peer(g), sent[g][i].topic)'
    BY <1>2 DEF AnnouncedFirst, Known
  <2>1. i \in 1..Len(sent[g])
    BY <1>5
  <2>2. sent[g][i].topic \in Topics /\ Peer(g) \in Hosts
    BY <1>5, <2>1, PeerOfPeer
  <2>. DEFINE x == sent[g][i].topic
  <2>3. /\ sent[g][i].kind = "data" => Known(g, x) \/ Announced(g, x, i - 1)
        /\ sent[g][i].kind = "create_topic" => Known(Peer(g), x)
    BY DEF MethodInv, AnnouncedFirst
  <2>4. Announced(g, x, i - 1)' = Announced(g, x, i - 1)
    BY <1>2 DEF Announced
  <2>5. /\ Known(g, x) => Known(g, x)'
        /\ Known(Peer(g), x) => Known(Peer(g), x)'
    BY <1>2, <1>4, <2>2
  <2>. QED
    BY <1>2, <2>3, <2>4, <2>5
<1>9. SendersKnow'
  <2>. SUFFICES ASSUME NEW u \in Senders
                PROVE  /\ pc'[u] = "send" => TopicOf[u] \in networked'[HostOf[u]]
                       /\ pc'[u] = "announce" => Known(HostOf[u], TopicOf[u])'
    BY DEF SendersKnow, Known
  <2>1. HostOf[u] \in Hosts /\ TopicOf[u] \in Topics
    BY ConstantsTyped
  <2>2. CASE u = t
    BY <1>2, <1>3, <1>4, <2>2 DEF h, k
  <2>3. CASE u # t
    BY <1>1, <1>2, <1>3, <1>4, <2>1, <2>3 DEF MethodInv, SendersKnow
  <2>. QED
    BY <2>2, <2>3
<1>10. PeerKnows'
  <2>. SUFFICES ASSUME NEW g \in Hosts, process[g] = "running", NEW x \in networked'[Peer(g)]
                PROVE  WillKnow(g, x)'
    BY <1>2 DEF PeerKnows
  <2>1. Peer(g) \in Hosts /\ pc'[t] = "announce"
    BY <1>2, <1>3, PeerOfPeer
  <2>2. CASE Peer(g) = h /\ x = k
    BY <2>1, <2>2 DEF WillKnow, h, k
  <2>3. CASE ~(Peer(g) = h /\ x = k)
    <3>1. x \in networked[Peer(g)] /\ x \in Topics
      BY <1>1, <1>2, <1>3, <2>1, <2>3
    <3>2. WillKnow(g, x)
      BY <3>1 DEF MethodInv, PeerKnows
    <3>. QED
      BY <1>2, <1>3, <1>4, <3>1, <3>2 DEF WillKnow
  <2>. QED
    BY <2>2, <2>3
<1>. QED
  BY <1>7, <1>8, <1>9, <1>10 DEF MethodRest

LEMMA MethodPutRemote ==
  ASSUME MethodInv, NEW t \in Senders, PutRemote(t)
  PROVE  MethodRest'
<1>1. /\ UNCHANGED <<networked, configs, sent, received, delivered, process>>
      /\ pc[t] = "ready" /\ pc' = [pc EXCEPT ![t] = "send"] /\ DOMAIN pc = Senders
      /\ TopicOf[t] \in networked[HostOf[t]]
  BY DEF PutRemote, registryVars, historyVars, MethodInv, StreamInv, TypeInv, TypeOK
<1>2. SentMethods' /\ MethodAgrees'
  BY <1>1 DEF MethodInv, SentMethods, MethodAgrees
<1>3. \A g, x : Known(g, x)' = Known(g, x)
  BY <1>1 DEF Known
<1>4. \A g, x, n : Announced(g, x, n)' = Announced(g, x, n)
  BY <1>1 DEF Announced
<1>5. AnnouncedFirst'
  BY <1>1, <1>3, <1>4 DEF MethodInv, AnnouncedFirst
<1>6. SendersKnow'
  BY <1>1, <1>3 DEF MethodInv, SendersKnow
<1>7. PeerKnows'
  <2>. SUFFICES ASSUME NEW g \in Hosts, process[g] = "running", NEW x \in networked[Peer(g)]
                PROVE  WillKnow(g, x)'
    BY <1>1 DEF PeerKnows
  <2>1. WillKnow(g, x)
    BY DEF MethodInv, PeerKnows
  <2>. QED
    BY <1>1, <1>3, <2>1 DEF WillKnow
<1>. QED
  BY <1>2, <1>5, <1>6, <1>7 DEF MethodRest

\* A write that leaves its frame unfinished moves none; one that ends it sends one frame
\* to a peer that will know its topic.
LEMMA MethodWrite ==
  ASSUME OneSender, MethodInv, NEW t \in Senders, Write(t)
  PROVE  MethodRest'
<1>. DEFINE h == HostOf[t]
            p == Peer(h)
            f == FrameOf(t)
            n == Len(sent[p]) + 1
<1>1. /\ UNCHANGED <<networked, configs, received, delivered, process>>
      /\ pc[t] \in {"announce", "send"} /\ process[p] = "running"
      /\ \/ pc' = pc /\ sent' = sent
         \/ pc' = [pc EXCEPT ![t] = Written(t)] /\ sent' = [sent EXCEPT ![p] = Append(@, f)]
  BY DEF Write, registryVars
<1>2. /\ h \in Hosts /\ p \in Hosts /\ Peer(p) = h /\ TopicOf[t] \in Topics
      /\ Written(t) \in {"register", "ready"} /\ f \in Frame
  BY <1>1, ConstantsTyped, PeerOfPeer, FrameOfTyped
  DEF Written, MethodInv, StreamInv, TypeInv, Counted
<1>3. /\ f.topic = TopicOf[t] /\ f.method = Method[TopicOf[t]]
      /\ f.kind = IF pc[t] = "announce" THEN "create_topic" ELSE "data"
  BY DEF FrameOf
<1>4. CASE pc' = pc /\ sent' = sent
  BY <1>1, <1>4, MethodKept DEF MethodRest
<1>5. CASE pc' = [pc EXCEPT ![t] = Written(t)] /\ sent' = [sent EXCEPT ![p] = Append(@, f)]
  <2>1. \A g \in Hosts : sent[g] \in Seq(Frame) /\ received[g] \in Seq(Frame)
    BY DEF MethodInv, StreamInv, TypeInv, TypeOK
  <2>2. DOMAIN pc = Senders /\ DOMAIN sent = Hosts
    BY DEF MethodInv, StreamInv, TypeInv, TypeOK
  <2>. HIDE DEF h, p, f
  <2>3. /\ sent'[p] = Append(sent[p], f)
        /\ n \in Nat /\ n >= 1 /\ Len(sent'[p]) = n /\ sent'[p][n] = f
        /\ \A g \in Hosts : g # p => sent'[g] = sent[g]
    <3>1. sent'[p] = Append(sent[p], f) /\ \A g \in Hosts : g # p => sent'[g] = sent[g]
      BY <1>2, <1>5, <2>2
    <3>2. sent[p] \in Seq(Frame)
      BY <1>2, <2>1
    <3>. QED
      BY <1>2, <3>1, <3>2, AppendProperties, LenProperties
  <2>4. ASSUME NEW g \in Hosts
        PROVE  /\ Len(sent[g]) \in Nat /\ Len(received[g]) \in Nat
               /\ Len(sent[g]) <= Len(sent'[g]) /\ Len(sent'[g]) \in Nat
               /\ Len(received[g]) <= Len(sent[g])
               /\ \A i \in 1..Len(sent[g]) : sent'[g][i] = sent[g][i]
    <3>1. /\ sent[g] \in Seq(Frame) /\ received[g] \in Seq(Frame)
          /\ Len(sent[g]) \in Nat /\ Len(received[g]) \in Nat
      BY <2>1, LenProperties
    <3>2. Len(received[g]) <= Len(sent[g])
      BY DEF MethodInv, StreamInv, ReceivedIsPrefix
    <3>3. CASE g = p
      <4>1. \A i \in 1..Len(sent[g]) : Append(sent[g], f)[i] = sent[g][i]
        BY <1>2, <3>1, AppendProperties
      <4>. QED
        BY <2>3, <3>1, <3>2, <3>3, <4>1
    <3>. QED
      BY <2>3, <3>1, <3>2, <3>3
  <2>5. ASSUME NEW g \in Hosts, NEW i \in 1..Len(sent'[g])
        PROVE  i \in 1..Len(sent[g]) \/ (g = p /\ i = n)
    <3>1. CASE g = p
      BY <2>3, <2>4, <3>1
    <3>. QED
      BY <2>3, <3>1
  <2>6. \A g, x : Known(g, x)' = Known(g, x)
    BY <1>1 DEF Known
  <2>7. SentMethods'
    <3>. SUFFICES ASSUME NEW g \in Hosts, NEW i \in 1..Len(sent'[g])
                  PROVE  sent'[g][i].method = Method[sent'[g][i].topic]
      BY DEF SentMethods
    <3>1. CASE i \in 1..Len(sent[g])
      BY <2>4, <3>1 DEF MethodInv, SentMethods
    <3>2. CASE g = p /\ i = n
      BY <1>3, <2>3, <3>2 DEF f
    <3>. QED
      BY <2>5, <3>1, <3>2
  <2>8. ASSUME NEW g \in Hosts, NEW x, NEW m \in Nat, m <= Len(sent[g]), Announced(g, x, m)
        PROVE  Announced(g, x, m)'
    <3>1. PICK i \in (Len(received[g]) + 1)..m :
             sent[g][i].kind = "create_topic" /\ sent[g][i].topic = x
      BY <2>8 DEF Announced
    <3>2. i \in 1..Len(sent[g])
      BY <2>4, <2>8, <3>1
    <3>3. sent'[g][i] = sent[g][i]
      BY <2>4, <3>2
    <3>. QED
      BY <1>1, <3>1, <3>3 DEF Announced
  <2>9. AnnouncedFirst'
    <3>. SUFFICES ASSUME NEW g \in Hosts, NEW i \in (Len(received[g]) + 1)..Len(sent'[g])
                  PROVE  /\ sent'[g][i].kind = "data" =>
                              \/ Known(g, sent'[g][i].topic)
                              \/ \E j \in (Len(received[g]) + 1)..(i - 1) :
                                   /\ sent'[g][j].kind = "create_topic"
                                   /\ sent'[g][j].topic = sent'[g][i].topic
                         /\ sent'[g][i].kind = "create_topic" =>
                              Known(Peer(g), sent'[g][i].topic)
      BY <1>1 DEF AnnouncedFirst, Announced, Known
    <3>1. i \in 1..Len(sent'[g])
      BY <2>4
    <3>2. CASE i \in 1..Len(sent[g])
      <4>1. sent'[g][i] = sent[g][i]
        BY <2>4, <3>2
      <4>2. i \in (Len(received[g]) + 1)..Len(sent[g])
        BY <2>4, <3>2
      <4>x. PICK x : x = sent[g][i].topic
        OBVIOUS
      <4>3. /\ sent[g][i].kind = "data" => Known(g, x) \/ Announced(g, x, i - 1)
            /\ sent[g][i].kind = "create_topic" => Known(Peer(g), x)
        BY <4>2, <4>x DEF MethodInv, AnnouncedFirst
      <4>4. i - 1 \in Nat /\ i - 1 <= Len(sent[g])
        BY <2>4, <3>2
      <4>5. ASSUME Announced(g, x, i - 1)
            PROVE  \E j \in (Len(received[g]) + 1)..(i - 1) :
                     sent'[g][j].kind = "create_topic" /\ sent'[g][j].topic = x
        <5>1. Announced(g, x, i - 1)'
          BY <2>8, <4>4, <4>5
        <5>. QED
          BY <1>1, <5>1 DEF Announced
      <4>. QED
        BY <4>1, <4>3, <4>5, <4>x
    <3>3. CASE g = p /\ i = n
      <4>1. sent'[g][i] = f
        BY <2>3, <3>3
      <4>2. CASE pc[t] = "announce"
        BY <1>2, <1>3, <2>6, <3>3, <4>1, <4>2 DEF MethodInv, SendersKnow, h, f
      <4>3. CASE pc[t] = "send"
        <5>1. TopicOf[t] \in networked[Peer(p)]
          BY <1>2, <4>3 DEF MethodInv, SendersKnow, h
        <5>2. WillKnow(p, TopicOf[t])
          BY <1>1, <1>2, <5>1 DEF MethodInv, PeerKnows, p
        <5>3. ASSUME NEW u \in Senders, HostOf[u] = Peer(p), pc[u] = "announce" PROVE FALSE
          <6>1. u = t
            BY <1>2, <5>3 DEF OneSender, h
          <6>. QED
            BY <4>3, <5>3, <6>1
        <5>4. Known(p, TopicOf[t]) \/ Announced(p, TopicOf[t], Len(sent[p]))
          BY <5>2, <5>3 DEF WillKnow, Announced
        <5>5. Announced(p, TopicOf[t], Len(sent[p])) =>
                \E j \in (Len(received[p]) + 1)..(n - 1) :
                  sent'[p][j].kind = "create_topic" /\ sent'[p][j].topic = TopicOf[t]
          <6>1. Len(sent[p]) \in Nat /\ n - 1 = Len(sent[p])
            BY <1>2, <2>4
          <6>2. ASSUME Announced(p, TopicOf[t], Len(sent[p]))
                PROVE  \E j \in (Len(received[p]) + 1)..Len(sent[p]) :
                         sent'[p][j].kind = "create_topic" /\ sent'[p][j].topic = TopicOf[t]
            <7>1. PICK j \in (Len(received[p]) + 1)..Len(sent[p]) :
                     sent[p][j].kind = "create_topic" /\ sent[p][j].topic = TopicOf[t]
              BY <6>2 DEF Announced
            <7>2. j \in 1..Len(sent[p])
              BY <1>2, <2>4, <7>1
            <7>. QED
              BY <1>2, <2>4, <7>1, <7>2
          <6>. QED
            BY <6>1, <6>2
        <5>6. f.topic = TopicOf[t] /\ f.kind = "data"
          BY <1>3, <4>3 DEF f
        <5>. QED
          BY <2>6, <3>3, <4>1, <5>4, <5>5, <5>6
      <4>. QED
        BY <1>1, <4>2, <4>3
    <3>. QED
      BY <2>5, <3>1, <3>2, <3>3
  <2>10. SendersKnow'
    BY <1>1, <1>2, <1>5, <2>2, <2>6 DEF MethodInv, SendersKnow
  <2>11. PeerKnows'
    <3>. SUFFICES ASSUME NEW g \in Hosts, process[g] = "running", NEW x \in networked[Peer(g)]
                  PROVE  WillKnow(g, x)'
      BY <1>1 DEF PeerKnows
    <3>1. WillKnow(g, x)
      BY DEF MethodInv, PeerKnows
    <3>2. CASE Known(g, x)
      BY <2>6, <3>2 DEF WillKnow
    <3>3. ASSUME NEW i \in (Len(received[g]) + 1)..Len(sent[g]),
                 sent[g][i].kind = "create_topic", sent[g][i].topic = x
          PROVE  WillKnow(g, x)'
      <4>1. i \in 1..Len(sent[g]) /\ i \in (Len(received[g]) + 1)..Len(sent'[g])
        BY <2>4, <3>3
      <4>2. sent'[g][i] = sent[g][i]
        BY <2>4, <4>1
      <4>. QED
        BY <1>1, <3>3, <4>1, <4>2 DEF WillKnow
    <3>4. ASSUME NEW u \in Senders, HostOf[u] = Peer(g), TopicOf[u] = x, pc[u] = "announce"
          PROVE  WillKnow(g, x)'
      <4>1. CASE u = t
        <5>1. g = p
          BY <3>4, <4>1, PeerOfPeer DEF p, h
        <5>2. f.kind = "create_topic" /\ f.topic = x
          BY <1>3, <3>4, <4>1 DEF f
        <5>3. n \in (Len(received[p]) + 1)..Len(sent'[p])
          BY <1>2, <2>3, <2>4
        <5>. QED
          BY <1>1, <2>3, <5>1, <5>2, <5>3 DEF WillKnow
      <4>2. CASE u # t
        BY <1>5, <2>2, <3>4, <4>2 DEF WillKnow
      <4>. QED
        BY <4>1, <4>2
    <3>. QED
      BY <3>1, <3>2, <3>3, <3>4 DEF WillKnow
  <2>12. MethodAgrees'
    BY <1>1 DEF MethodInv, MethodAgrees
  <2>. QED
    BY <2>7, <2>9, <2>10, <2>11, <2>12 DEF MethodRest
<1>. QED
  BY <1>1, <1>4, <1>5

\* A frame that is handled: an announcement configures its topic, an event finds it
\* configured.
LEMMA MethodReceive ==
  ASSUME MethodInv, NEW g \in Hosts, Receive(g)
  PROVE  MethodRest'
<1>. DEFINE r == Len(received[g]) + 1
<1>1. PICK f : f = sent[g][r]
  OBVIOUS
<1>2. /\ r \in 1..Len(sent[g]) /\ buffer[g][1].of = f
      /\ received'[g] = Append(received[g], f)
  BY <1>1, NextFrame DEF MethodInv
<1>3. /\ \A h \in Hosts : sent[h] \in Seq(Frame) /\ received[h] \in Seq(Frame)
      /\ \A h \in Hosts : Len(sent[h]) \in Nat /\ Len(received[h]) \in Nat
      /\ f \in Frame /\ f.topic \in Topics /\ f.method \in Methods
  <2>1. \A h \in Hosts : sent[h] \in Seq(Frame) /\ received[h] \in Seq(Frame)
    BY DEF MethodInv, StreamInv, TypeInv, TypeOK
  <2>2. \A h \in Hosts : Len(sent[h]) \in Nat /\ Len(received[h]) \in Nat
    BY <2>1, LenProperties
  <2>. QED
    BY <1>1, <1>2, <2>1, <2>2, FramesTyped
<1>4. /\ Len(received'[g]) = r /\ r \in Nat
      /\ \A h \in Hosts : h # g => received'[h] = received[h]
      /\ UNCHANGED <<sent, pc, process>>
  <2>1. received' = [received EXCEPT ![g] = Append(@, f)] /\ UNCHANGED <<sent, pc, process>>
    BY <1>2 DEF Receive, senderVars
  <2>2. DOMAIN received = Hosts
    BY DEF MethodInv, StreamInv, TypeInv, TypeOK
  <2>. QED
    BY <1>2, <1>3, <2>1, <2>2, AppendProperties
<1>5. f.method = Method[f.topic]
  BY <1>1, <1>2 DEF MethodInv, SentMethods
<1>6. ASSUME f.kind = "data"
      PROVE  Known(g, f.topic) /\ ConfigFound(g, f.topic) = Method[f.topic]
  <2>1. r \in (Len(received[g]) + 1)..Len(sent[g])
    BY <1>2, <1>3
  <2>2. Known(g, f.topic) \/ Announced(g, f.topic, r - 1)
    BY <1>1, <1>6, <2>1 DEF MethodInv, AnnouncedFirst
  <2>3. ~Announced(g, f.topic, r - 1)
    BY <1>3 DEF Announced
  <2>4. Method[f.topic] # NoMethod
    BY <1>3, TcpAssumption
  <2>. QED
    BY <2>2, <2>3, <2>4 DEF Known, ConfigFound
<1>7. f.kind = "create_topic" => Known(Peer(g), f.topic)
  BY <1>1, <1>2, <1>3 DEF MethodInv, AnnouncedFirst
<1>8. /\ networked \in [Hosts -> SUBSET Topics] /\ DOMAIN delivered = Hosts
      /\ configs \in [Hosts -> [Topics -> Methods \cup {NoMethod}]]
      /\ \A h \in Hosts : delivered[h] \in Seq([event : Frame, with : Methods])
  BY DEF MethodInv, StreamInv, TypeInv, TypeOK
<1>9. \/ /\ f.kind = "create_topic" /\ delivered' = delivered
         /\ networked' = [networked EXCEPT ![g] = @ \cup {f.topic}]
         /\ configs' = [configs EXCEPT ![g][f.topic] = f.method]
      \/ /\ f.kind = "data" /\ networked' = networked
         /\ delivered' = [delivered EXCEPT ![g] =
                            Append(@, [event |-> f, with |-> ConfigFound(g, f.topic)])]
         /\ configs' = [configs EXCEPT ![g][f.topic] = ConfigFound(g, f.topic)]
      \/ f.kind = "data" /\ UNCHANGED <<networked, configs, delivered>>
  BY <1>2 DEF Receive, WithNetworked, WithConfig
<1>. HIDE DEF r
<1>10. \A h \in Hosts, x \in Topics : Known(h, x) => Known(h, x)'
  <2>1. \/ configs' = configs
        \/ configs' = [configs EXCEPT ![g][f.topic] = Method[f.topic]]
    BY <1>5, <1>6, <1>9
  <2>. SUFFICES ASSUME NEW h \in Hosts, NEW x \in Topics, configs[h][x] = Method[x]
                PROVE  configs'[h][x] = Method[x]
    BY DEF Known
  <2>2. CASE configs' = [configs EXCEPT ![g][f.topic] = Method[f.topic]]
    <3>1. CASE h = g /\ x = f.topic
      BY <1>8, <2>2, <3>1
    <3>2. CASE ~(h = g /\ x = f.topic)
      BY <1>8, <2>2, <3>2
    <3>. QED
      BY <3>1, <3>2
  <2>. QED
    BY <2>1, <2>2
<1>11. f.kind = "create_topic" => Known(g, f.topic)'
  BY <1>3, <1>5, <1>8, <1>9 DEF Known
<1>12. ASSUME NEW h \in Hosts, NEW i \in (Len(received[h]) + 1)..Len(sent[h])
       PROVE  \/ i \in (Len(received'[h]) + 1)..Len(sent[h])
              \/ h = g /\ sent[h][i] = f
  <2>1. CASE h # g
    BY <1>4, <2>1
  <2>2. CASE h = g
    <3>1. i = r \/ i >= r + 1
      BY <1>3, <2>2 DEF r
    <3>. QED
      BY <1>1, <1>3, <1>4, <2>2, <3>1
  <2>. QED
    BY <2>1, <2>2
<1>13. ASSUME NEW h \in Hosts, NEW i \in (Len(received'[h]) + 1)..Len(sent[h])
       PROVE  i \in (Len(received[h]) + 1)..Len(sent[h]) /\ sent[h][i].topic \in Topics
  <2>1. CASE h # g
    BY <1>3, <1>4, <2>1, FramesTyped
  <2>2. CASE h = g
    <3>1. i \in (Len(received[h]) + 1)..Len(sent[h])
      BY <1>3, <1>4, <2>2 DEF r
    <3>. QED
      BY <1>3, <3>1, FramesTyped
  <2>. QED
    BY <2>1, <2>2
<1>14. SentMethods'
  BY <1>4 DEF MethodInv, SentMethods
<1>15. AnnouncedFirst'
  <2>. SUFFICES ASSUME NEW h \in Hosts, NEW i \in (Len(received'[h]) + 1)..Len(sent[h])
                PROVE  /\ sent[h][i].kind = "data" =>
                            \/ configs'[h][sent[h][i].topic] = Method[sent[h][i].topic]
                            \/ \E j \in (Len(received'[h]) + 1)..(i - 1) :
                                 /\ sent[h][j].kind = "create_topic"
                                 /\ sent[h][j].topic = sent[h][i].topic
                       /\ sent[h][i].kind = "create_topic" =>
                            configs'[Peer(h)][sent[h][i].topic] = Method[sent[h][i].topic]
    BY <1>4, SMTT(30) DEF AnnouncedFirst, Announced, Known
  <2>1. PICK x \in Topics : x = sent[h][i].topic
    BY <1>13
  <2>2. /\ sent[h][i].kind = "data" => Known(h, x) \/ Announced(h, x, i - 1)
        /\ sent[h][i].kind = "create_topic" => Known(Peer(h), x)
    BY <1>13, <2>1 DEF MethodInv, AnnouncedFirst
  <2>3. Peer(h) \in Hosts
    BY PeerOfPeer
  <2>4. ASSUME Announced(h, x, i - 1)
        PROVE  \/ Known(h, x)'
               \/ \E j \in (Len(received'[h]) + 1)..(i - 1) :
                    sent[h][j].kind = "create_topic" /\ sent[h][j].topic = x
    <3>1. PICK j \in (Len(received[h]) + 1)..(i - 1) :
             sent[h][j].kind = "create_topic" /\ sent[h][j].topic = x
      BY <2>4 DEF Announced
    <3>2. j \in (Len(received[h]) + 1)..Len(sent[h]) /\ i - 1 \in Int /\ j <= i - 1 /\ j \in Int
      BY <1>3, <1>13, <3>1
    <3>3. j \in (Len(received'[h]) + 1)..Len(sent[h]) => j \in (Len(received'[h]) + 1)..(i - 1)
      BY <3>2
    <3>. QED
      BY <1>11, <1>12, <3>1, <3>2, <3>3
  <2>. QED
    BY <1>10, <2>1, <2>2, <2>3, <2>4 DEF Known
<1>16. SendersKnow'
  <2>. SUFFICES ASSUME NEW u \in Senders
                PROVE  /\ pc[u] = "send" => TopicOf[u] \in networked'[HostOf[u]]
                       /\ pc[u] = "announce" => Known(HostOf[u], TopicOf[u])'
    BY <1>4 DEF SendersKnow, Known
  <2>1. HostOf[u] \in Hosts /\ TopicOf[u] \in Topics
    BY ConstantsTyped
  <2>2. networked[HostOf[u]] \subseteq networked'[HostOf[u]]
    <3>1. networked' = networked \/ networked' = [networked EXCEPT ![g] = @ \cup {f.topic}]
      BY <1>9
    <3>. QED
      BY ONLY <1>8, <2>1, <3>1
  <2>. QED
    BY <1>10, <2>1, <2>2 DEF MethodInv, SendersKnow
<1>17. PeerKnows'
  <2>. SUFFICES ASSUME NEW h \in Hosts, process[h] = "running", NEW x \in networked'[Peer(h)]
                PROVE  WillKnow(h, x)'
    BY <1>4 DEF PeerKnows
  <2>1. Peer(h) \in Hosts /\ Peer(Peer(h)) = h
    BY PeerOfPeer
  <2>2. CASE x \in networked[Peer(h)]
    <3>1. WillKnow(h, x) /\ x \in Topics
      BY <1>8, <2>1, <2>2 DEF MethodInv, PeerKnows
    <3>2. CASE Known(h, x)
      BY <1>10, <3>1, <3>2 DEF WillKnow
    <3>3. ASSUME NEW i \in (Len(received[h]) + 1)..Len(sent[h]),
                 sent[h][i].kind = "create_topic", sent[h][i].topic = x
          PROVE  WillKnow(h, x)'
      <4>1. CASE i \in (Len(received'[h]) + 1)..Len(sent[h])
        BY <1>4, <3>3, <4>1 DEF WillKnow
      <4>2. CASE h = g /\ sent[h][i] = f
        BY <1>11, <3>3, <4>2 DEF WillKnow
      <4>. QED
        BY <1>12, <4>1, <4>2
    <3>4. ASSUME NEW u \in Senders, HostOf[u] = Peer(h), TopicOf[u] = x, pc[u] = "announce"
          PROVE  WillKnow(h, x)'
      BY <1>4, <3>4 DEF WillKnow
    <3>. QED
      BY <3>1, <3>2, <3>3, <3>4 DEF WillKnow
  <2>3. CASE x \notin networked[Peer(h)]
    <3>1. Peer(h) = g /\ x = f.topic /\ f.kind = "create_topic"
      BY <1>8, <1>9, <2>1, <2>3
    <3>. QED
      BY <1>3, <1>7, <1>10, <2>1, <3>1 DEF WillKnow
  <2>. QED
    BY <2>2, <2>3
<1>18. MethodAgrees'
  <2>. SUFFICES ASSUME NEW h \in Hosts, NEW i \in DOMAIN delivered'[h]
                PROVE  delivered'[h][i].with = delivered'[h][i].event.method
    BY DEF MethodAgrees
  <2>1. CASE delivered'[h] = delivered[h]
    BY <2>1 DEF MethodInv, MethodAgrees
  <2>2. CASE delivered'[h] # delivered[h]
    <3>. DEFINE e == [event |-> f, with |-> ConfigFound(g, f.topic)]
    <3>1. h = g /\ f.kind = "data" /\ delivered'[h] = Append(delivered[h], e)
      BY <1>8, <1>9, <2>2
    <3>2. e.with = e.event.method
      BY <1>5, <1>6, <3>1
    <3>. HIDE DEF e
    <3>3. \/ i \in DOMAIN delivered[h] /\ delivered'[h][i] = delivered[h][i]
          \/ delivered'[h][i] = e
      BY <1>8, <3>1
    <3>. QED
      BY <3>2, <3>3 DEF MethodInv, MethodAgrees
  <2>. QED
    BY <2>1, <2>2
<1>. QED
  BY <1>14, <1>15, <1>16, <1>17, <1>18 DEF MethodRest

LEMMA MethodStep == OneSender /\ MethodInv /\ [Next]_vars => MethodInv'
<1>. SUFFICES ASSUME OneSender, MethodInv, [Next]_vars PROVE MethodInv'
  OBVIOUS
<1>1. StreamInv'
  BY StreamStep DEF MethodInv
<1>2. MethodRest'
  <2>1. ASSUME NEW t \in Senders, SenderStep(t) PROVE MethodRest'
    BY <2>1, MethodTopicCreate, MethodWrite, MethodOthers DEF SenderStep
  <2>. QED
    BY <2>1, MethodOthers, MethodPutRemote, MethodReceive DEF Next
<1>. QED
  BY <1>1, <1>2 DEF MethodInv, MethodRest

\* With one sender on a host, the topic of every event that is sent was announced to its
\* receiver before, or by it; an end takes a topic for networked only then.
THEOREM TcpMethodInductive == ASSUME OneSender PROVE Spec => []MethodInv
<1>1. Init => MethodInv
  BY MethodInitial
<1>2. MethodInv /\ [Next]_vars => MethodInv'
  BY MethodStep
<1>. QED
  BY <1>1, <1>2, PTL DEF Spec

\* No event is deserialized by the default of an entry that networked_topics_configs_ has
\* made up: the announcement of its topic has been handled.
THEOREM TcpMethodRight == ASSUME OneSender PROVE Spec => []MethodAgrees
<1>1. MethodInv => MethodAgrees
  BY DEF MethodInv
<1>. QED
  BY <1>1, TcpMethodInductive, PTL

----------------------------------------------------------------------------
(* The two ends implement NetworkedTopics.                                 *)

\* Every configuration is that of a networked topic.
Configured == \A h \in Hosts, k \in Topics : configs[h][k] # NoMethod => k \in networked[h]

\* The frames a sender has sent are numbered below the one it is writing.
Numbered ==
  \A t \in Senders :
    /\ count[t] <= MaxFrames[t]
    /\ \A i \in 1..Len(sent[Peer(HostOf[t])]) : sent[Peer(HostOf[t])][i].from = t =>
         /\ sent[Peer(HostOf[t])][i].no <= count[t]
         /\ pc[t] \in {"announce", "send"} => sent[Peer(HostOf[t])][i].no < count[t]

NetInv == MethodInv /\ Configured /\ Numbered

\* What Receive does, in terms of the frame it handles.
HandlesFrame(h, f) ==
  \/ /\ f.kind = "create_topic" /\ delivered' = delivered
     /\ networked' = [networked EXCEPT ![h] = @ \cup {f.topic}]
     /\ configs' = [configs EXCEPT ![h][f.topic] = Method[f.topic]]
  \/ /\ f.kind = "data" /\ f.topic \in registry[h] /\ networked' = networked
     /\ delivered' = [delivered EXCEPT ![h] =
                        Append(@, [event |-> f, with |-> f.method])]
     /\ configs' = [configs EXCEPT ![h][f.topic] = Method[f.topic]]
  \/ /\ f.kind = "data" /\ f.topic \notin registry[h]
     /\ UNCHANGED <<networked, configs, delivered>>

LEMMA ReceiveHandles ==
  ASSUME MethodInv, NEW h \in Hosts, Receive(h)
  PROVE  \E f \in Frame :
           /\ f = sent[h][Len(received[h]) + 1]
           /\ Len(received[h]) + 1 \in 1..Len(sent[h])
           /\ f.kind = "data" => Known(h, f.topic)
           /\ HandlesFrame(h, f)
<1>. DEFINE r == Len(received[h]) + 1
<1>1. PICK f : f = sent[h][r]
  OBVIOUS
<1>2. r \in 1..Len(sent[h]) /\ buffer[h][1].of = f
  BY <1>1, NextFrame DEF MethodInv
<1>3. /\ Len(sent[h]) \in Nat /\ Len(received[h]) \in Nat
      /\ f \in Frame /\ f.topic \in Topics /\ f.method \in Methods
  <2>1. sent[h] \in Seq(Frame) /\ received[h] \in Seq(Frame)
    BY DEF MethodInv, StreamInv, TypeInv, TypeOK
  <2>. QED
    BY <1>1, <1>2, <2>1, FramesTyped, LenProperties
<1>4. f.method = Method[f.topic]
  BY <1>1, <1>2 DEF MethodInv, SentMethods
<1>5. f.kind = "data" => Known(h, f.topic)
  <2>1. r \in r..Len(sent[h])
    BY <1>2, <1>3
  <2>2. f.kind = "data" => Known(h, f.topic) \/ Announced(h, f.topic, r - 1)
    BY <1>1, <2>1 DEF MethodInv, AnnouncedFirst
  <2>3. ~Announced(h, f.topic, r - 1)
    BY <1>3 DEF Announced
  <2>. QED
    BY <2>2, <2>3
<1>6. f.kind = "data" => ConfigFound(h, f.topic) = Method[f.topic]
  BY <1>3, <1>5, TcpAssumption DEF Known, ConfigFound
<1>7. HandlesFrame(h, f)
  BY <1>2, <1>4, <1>6 DEF Receive, WithNetworked, WithConfig, HandlesFrame
<1>. QED
  BY <1>1, <1>2, <1>3, <1>5, <1>7

LEMMA ConfiguredStep ==
  ASSUME NetInv, [Next]_vars
  PROVE  Configured'
<1>. USE DEF registryVars, historyVars, senderVars, streamVars
<1>1. /\ networked \in [Hosts -> SUBSET Topics]
      /\ configs \in [Hosts -> [Topics -> Methods \cup {NoMethod}]]
  BY DEF NetInv, MethodInv, StreamInv, TypeInv, TypeOK
<1>2. ASSUME UNCHANGED <<networked, configs>> PROVE Configured'
  BY <1>2 DEF NetInv, Configured
<1>3. ASSUME NEW g \in Hosts, NEW x \in Topics, NEW m,
             networked' = [networked EXCEPT ![g] = @ \cup {x}],
             configs' = [configs EXCEPT ![g][x] = m]
      PROVE  Configured'
  <2>. SUFFICES ASSUME NEW h \in Hosts, NEW k \in Topics, configs'[h][k] # NoMethod
                PROVE  k \in networked'[h]
    BY DEF Configured
  <2>1. CASE h = g /\ k = x
    BY ONLY <1>1, <1>3, <2>1
  <2>2. CASE ~(h = g /\ k = x)
    <3>1. configs'[h][k] = configs[h][k]
      BY <1>1, <1>3, <2>2
    <3>2. k \in networked[h]
      BY <3>1 DEF NetInv, Configured
    <3>3. networked[h] \subseteq networked'[h]
      BY ONLY <1>1, <1>3
    <3>. QED
      BY <3>2, <3>3
  <2>. QED
    BY <2>1, <2>2
<1>4. ASSUME NEW g \in Hosts, Receive(g) PROVE Configured'
  <2>1. PICK f \in Frame : (f.kind = "data" => Known(g, f.topic)) /\ HandlesFrame(g, f)
    BY <1>4, ReceiveHandles DEF NetInv
  <2>2. PICK x \in Topics : x = f.topic
    BY DEF Frame
  <2>3. CASE f.kind = "create_topic" /\ networked' = [networked EXCEPT ![g] = @ \cup {x}]
             /\ configs' = [configs EXCEPT ![g][x] = Method[x]]
    BY <1>3, <2>3
  <2>4. CASE f.kind = "data" /\ networked' = networked
             /\ configs' = [configs EXCEPT ![g][x] = Method[x]]
    <3>1. configs' = configs
      BY ONLY <1>1, <2>1, <2>2, <2>4 DEF Known
    <3>. QED
      BY <1>2, <2>4, <3>1
  <2>5. CASE UNCHANGED <<networked, configs>>
    BY <1>2, <2>5
  <2>. QED
    BY <2>1, <2>2, <2>3, <2>4, <2>5 DEF HandlesFrame
<1>5. ASSUME NEW t \in Senders, TopicCreate(t) PROVE Configured'
  BY <1>3, <1>5, ConstantsTyped DEF TopicCreate
<1>6. CASE \/ Listen \/ Connect \/ Accept \/ Finished \/ UNCHANGED vars
           \/ \E h \in Hosts : Read(h) \/ ParseEnd(h) \/ ReadEnd(h) \/ Stop(h)
           \/ \E h \in Hosts, k \in Topics : Register(h, k)
           \/ \E t \in Senders : \/ GetNetworkWriter(t) \/ PutRemote(t) \/ PutHere(t)
                                 \/ RegisterTopic(t) \/ Write(t) \/ WriteToClosed(t)
  BY <1>2, <1>6 DEF Listen, Connect, Accept, Finished, vars, Read, ParseEnd, ReadEnd, Stop,
     Register, GetNetworkWriter, PutRemote, PutHere, RegisterTopic, Write, WriteToClosed
<1>. QED
  BY <1>4, <1>5, <1>6 DEF Next, SenderStep

LEMMA NumberedStep ==
  ASSUME NetInv, [Next]_vars
  PROVE  Numbered'
<1>. USE DEF registryVars, historyVars, senderVars, streamVars
<1>1. /\ pc \in [Senders -> {"idle", "create", "announce", "register", "ready", "send"}]
      /\ count \in [Senders -> Nat] /\ MaxFrames \in [Senders -> Nat] /\ DOMAIN sent = Hosts
      /\ \A h \in Hosts : sent[h] \in Seq(Frame)
  BY TcpAssumption DEF NetInv, MethodInv, StreamInv, TypeInv, TypeOK
<1>2. \A t \in Senders : HostOf[t] \in Hosts /\ Peer(HostOf[t]) \in Hosts
  BY ConstantsTyped
<1>3. \A h \in Hosts : \A i \in 1..Len(sent[h]) : sent[h][i].no \in Nat
  <2>1. ASSUME NEW h \in Hosts, NEW i \in 1..Len(sent[h]) PROVE sent[h][i] \in Frame
    BY <1>1, <2>1, ElementOfSeq
  <2>. QED
    BY <2>1 DEF Frame
<1>4. ASSUME UNCHANGED <<count, sent>>,
             \A t \in Senders : pc'[t] \in {"announce", "send"} => pc[t] \in {"announce", "send"}
      PROVE  Numbered'
  BY <1>4 DEF NetInv, Numbered
<1>5. ASSUME NEW t \in Senders, count[t] < MaxFrames[t], sent' = sent,
             count' = [count EXCEPT ![t] = @ + 1],
             \A u \in Senders : u # t => pc'[u] = pc[u]
      PROVE  Numbered'
  <2>. SUFFICES ASSUME NEW u \in Senders
                PROVE  /\ count'[u] <= MaxFrames[u]
                       /\ \A i \in 1..Len(sent[Peer(HostOf[u])]) :
                            sent[Peer(HostOf[u])][i].from = u =>
                              /\ sent[Peer(HostOf[u])][i].no <= count'[u]
                              /\ pc'[u] \in {"announce", "send"} =>
                                   sent[Peer(HostOf[u])][i].no < count'[u]
    BY <1>5 DEF Numbered
  <2>1. CASE u # t
    BY <1>1, <1>5, <2>1 DEF NetInv, Numbered
  <2>2. CASE u = t
    <3>1. count'[u] = count[u] + 1 /\ count[u] \in Nat /\ MaxFrames[u] \in Nat
      BY <1>1, <1>5, <2>2
    <3>2. \A i \in 1..Len(sent[Peer(HostOf[u])]) :
            sent[Peer(HostOf[u])][i].from = u =>
              /\ sent[Peer(HostOf[u])][i].no <= count[u]
              /\ sent[Peer(HostOf[u])][i].no \in Nat
      BY <1>2, <1>3 DEF NetInv, Numbered
    <3>. QED
      BY <1>5, <2>2, <3>1, <3>2
  <2>. QED
    BY <2>1, <2>2
<1>6. ASSUME NEW t \in Senders, Write(t) PROVE Numbered'
  <2>1. PICK f \in Frame : f = FrameOf(t)
    BY <1>6, FrameOfTyped DEF Write, NetInv, MethodInv, StreamInv, TypeInv, Counted
  <2>2. PICK p \in Hosts : p = Peer(HostOf[t])
    BY <1>2
  <2>3. /\ count' = count /\ pc[t] \in {"announce", "send"}
        /\ \/ UNCHANGED <<sent, pc>>
           \/ /\ sent' = [sent EXCEPT ![p] = Append(@, f)]
              /\ pc' = [pc EXCEPT ![t] = Written(t)]
    BY <1>6, <2>1, <2>2 DEF Write
  <2>4. f.from = t /\ f.no = count[t] /\ Written(t) \notin {"announce", "send"}
    BY <2>1 DEF FrameOf, Written
  <2>5. CASE UNCHANGED <<sent, pc>>
    BY <1>4, <2>3, <2>5
  <2>6. CASE /\ sent' = [sent EXCEPT ![p] = Append(@, f)]
             /\ pc' = [pc EXCEPT ![t] = Written(t)]
    <3>. SUFFICES ASSUME NEW u \in Senders
                  PROVE  /\ count[u] <= MaxFrames[u]
                         /\ \A i \in 1..Len(sent'[Peer(HostOf[u])]) :
                              sent'[Peer(HostOf[u])][i].from = u =>
                                /\ sent'[Peer(HostOf[u])][i].no <= count[u]
                                /\ pc'[u] \in {"announce", "send"} =>
                                     sent'[Peer(HostOf[u])][i].no < count[u]
      BY <2>3 DEF Numbered
    <3>1. PICK h \in Hosts : h = Peer(HostOf[u])
      BY <1>2
    <3>2. count[u] <= MaxFrames[u]
      BY DEF NetInv, Numbered
    <3>. SUFFICES ASSUME NEW i \in 1..Len(sent'[h]), sent'[h][i].from = u
                  PROVE  /\ sent'[h][i].no <= count[u]
                         /\ pc'[u] \in {"announce", "send"} => sent'[h][i].no < count[u]
      BY <3>1, <3>2
    <3>3. \/ i \in 1..Len(sent[h]) /\ sent'[h][i] = sent[h][i]
          \/ sent'[h][i] = f
      <4>1. CASE h = p
        <5>1. sent'[h] = Append(sent[h], f) /\ sent[h] \in Seq(Frame)
          BY <1>1, <2>6, <4>1
        <5>. QED
          BY <5>1
      <4>2. CASE h # p
        BY <1>1, <2>6, <4>2
      <4>. QED
        BY <4>1, <4>2
    <3>4. CASE i \in 1..Len(sent[h]) /\ sent'[h][i] = sent[h][i]
      <4>1. /\ sent[h][i].no <= count[u]
            /\ pc[u] \in {"announce", "send"} => sent[h][i].no < count[u]
        BY <3>1, <3>4 DEF NetInv, Numbered
      <4>2. pc'[u] \in {"announce", "send"} => pc[u] \in {"announce", "send"}
        BY <1>1, <2>3, <2>4, <2>6
      <4>. QED
        BY <3>4, <4>1, <4>2
    <3>5. CASE sent'[h][i] = f
      <4>1. u = t /\ pc'[u] = Written(t)
        BY <1>1, <2>4, <2>6, <3>5
      <4>. QED
        BY <1>1, <2>4, <3>5, <4>1
    <3>. QED
      BY <3>3, <3>4, <3>5
  <2>. QED
    BY <2>3, <2>5, <2>6
<1>7. ASSUME NEW t \in Senders, TopicCreate(t) \/ PutRemote(t) \/ PutHere(t) PROVE Numbered'
  <2>1. /\ count[t] < MaxFrames[t] /\ sent' = sent
        /\ count' = [count EXCEPT ![t] = @ + 1]
        /\ \A u \in Senders : u # t => pc'[u] = pc[u]
    BY <1>1, <1>7 DEF TopicCreate, PutRemote, PutHere
  <2>. QED
    BY <1>5, <2>1
<1>8. ASSUME NEW t \in Senders, GetNetworkWriter(t) \/ RegisterTopic(t) \/ WriteToClosed(t)
      PROVE  Numbered'
  BY <1>1, <1>4, <1>8 DEF GetNetworkWriter, RegisterTopic, WriteToClosed, Written
<1>9. CASE \/ Listen \/ Connect \/ Accept \/ Finished \/ UNCHANGED vars
           \/ \E h \in Hosts : Read(h) \/ Receive(h) \/ ParseEnd(h) \/ ReadEnd(h) \/ Stop(h)
           \/ \E h \in Hosts, k \in Topics : Register(h, k)
  BY <1>4, <1>9 DEF Listen, Connect, Accept, Finished, vars, Read, Receive, ParseEnd, ReadEnd,
     Stop, Register
<1>. QED
  BY <1>6, <1>7, <1>8, <1>9 DEF Next, SenderStep

\* A frame is complete only once it has a number of its own, and a topic is configured only
\* as it becomes networked.
THEOREM TcpNetInductive == ASSUME OneSender PROVE Spec => []NetInv
<1>1. Init => NetInv
  <2>1. Init => Configured
    BY DEF Init, Configured
  <2>2. Init => Numbered
    <3>1. ASSUME Init, NEW t \in Senders
          PROVE  count[t] = 0 /\ sent[Peer(HostOf[t])] = <<>> /\ MaxFrames[t] \in Nat
      BY <3>1, ConstantsTyped, TcpAssumption DEF Init
    <3>. QED
      BY <3>1 DEF Numbered
  <2>. QED
    BY <2>1, <2>2, MethodInitial DEF NetInv
<1>2. NetInv /\ [Next]_vars => NetInv'
  BY MethodStep, ConfiguredStep, NumberedStep DEF NetInv
<1>. QED
  BY <1>1, <1>2, PTL DEF Spec

\* The lengths NetworkedTopics sees as what has been handled.
Lengths == [h \in Hosts |-> Len(received[h])]

\* What NetworkedTopics sees.
seen == <<registry, networked, sent, Lengths, delivered>>

LEMMA NetInit == Init => Net!Init
<1>. SUFFICES ASSUME Init PROVE Net!Init
  OBVIOUS
<1>1. Len(<<>>) = 0
  OBVIOUS
<1>2. \A h \in Hosts : Len(received[h]) = 0
  BY <1>1 DEF Init
<1>3. [h \in Hosts |-> Len(received[h])] = [h \in Hosts |-> 0]
  BY <1>2
<1>. QED
  BY <1>3 DEF Init, Net!Init

\* A write that ends its frame sends it.
LEMMA WriteSends ==
  ASSUME NetInv, NEW t \in Senders, Write(t)
  PROVE  \/ UNCHANGED seen
         \/ \E kind \in {"create_topic", "data"}, no \in 1..MaxFrames[t] : Net!Send(t, kind, no)
<1>1. /\ UNCHANGED <<registry, networked, received, delivered>>
      /\ pc[t] \in {"announce", "send"}
      /\ \/ sent' = sent
         \/ sent' = [sent EXCEPT ![Peer(HostOf[t])] = Append(@, FrameOf(t))]
  BY DEF Write, registryVars
<1>2. CASE sent' = sent
  BY <1>1, <1>2 DEF seen, Lengths
<1>3. CASE sent' = [sent EXCEPT ![Peer(HostOf[t])] = Append(@, FrameOf(t))]
  <2>1. PICK kind \in {"create_topic", "data"} :
           kind = IF pc[t] = "announce" THEN "create_topic" ELSE "data"
    OBVIOUS
  <2>2. PICK no \in 1..MaxFrames[t] : no = count[t]
    <3>1. count[t] \in Nat /\ count[t] >= 1
      BY <1>1 DEF NetInv, MethodInv, StreamInv, TypeInv, TypeOK, Counted
    <3>2. count[t] <= MaxFrames[t] /\ MaxFrames[t] \in Nat
      BY TcpAssumption DEF NetInv, Numbered
    <3>. QED
      BY <3>1, <3>2
  <2>3. FrameOf(t) = [kind |-> kind, topic |-> TopicOf[t], method |-> Method[TopicOf[t]],
                      from |-> t, no |-> no]
    BY <2>1, <2>2 DEF FrameOf
  <2>4. TopicOf[t] \in networked[HostOf[t]]
    <3>1. CASE pc[t] = "send"
      BY <3>1 DEF NetInv, MethodInv, SendersKnow
    <3>2. CASE pc[t] = "announce"
      <4>1. configs[HostOf[t]][TopicOf[t]] = Method[TopicOf[t]]
        BY <3>2 DEF NetInv, MethodInv, SendersKnow, Known
      <4>2. Method[TopicOf[t]] # NoMethod
        BY ConstantsTyped, TcpAssumption
      <4>. QED
        BY <4>1, <4>2, ConstantsTyped DEF NetInv, Configured
    <3>. QED
      BY <1>1, <3>1, <3>2
  <2>5. \A i \in 1..Len(sent[Peer(HostOf[t])]) :
          sent[Peer(HostOf[t])][i].from = t => sent[Peer(HostOf[t])][i].no < no
    BY <1>1, <2>2 DEF NetInv, Numbered
  <2>6. [u \in Senders |-> Peer(HostOf[u])][t] = Peer(HostOf[t])
    OBVIOUS
  <2>7. Net!Send(t, kind, no)
    BY <1>1, <1>3, <2>3, <2>4, <2>5, <2>6 DEF Net!Send
  <2>. QED
    BY <2>7
<1>. QED
  BY <1>1, <1>2, <1>3

LEMMA ReceiveHandlesNext ==
  ASSUME NetInv, NEW h \in Hosts, Receive(h)
  PROVE  Net!Handle(h)
<1>1. PICK f \in Frame :
        /\ f = sent[h][Len(received[h]) + 1]
        /\ Len(received[h]) + 1 \in 1..Len(sent[h])
        /\ f.kind = "data" => Known(h, f.topic)
        /\ HandlesFrame(h, f)
  BY ReceiveHandles DEF NetInv
<1>2. /\ Lengths[h] = Len(received[h])
      /\ Len(received[h]) \in Nat /\ Len(sent[h]) \in Nat /\ received[h] \in Seq(Frame)
  <2>1. received[h] \in Seq(Frame) /\ sent[h] \in Seq(Frame)
    BY DEF NetInv, MethodInv, StreamInv, TypeInv, TypeOK
  <2>. QED
    BY <2>1, LenProperties DEF Lengths
<1>3. Lengths' = [Lengths EXCEPT ![h] = @ + 1]
  <2>1. received' = [received EXCEPT ![h] = Append(@, buffer[h][1].of)] /\ DOMAIN received = Hosts
    BY DEF Receive, NetInv, MethodInv, StreamInv, TypeInv, TypeOK
  <2>2. received'[h] = Append(received[h], f)
    BY <1>1, NextFrame DEF NetInv, MethodInv
  <2>3. Len(received'[h]) = Len(received[h]) + 1
    BY <1>2, <2>2, AppendProperties
  <2>4. \A g \in Hosts : g # h => received'[g] = received[g]
    BY <2>1
  <2>5. \A g \in Hosts : Len(received'[g]) =
          IF g = h THEN Len(received[g]) + 1 ELSE Len(received[g])
    BY <2>3, <2>4
  <2>. QED
    BY <2>5 DEF Lengths
<1>4. Lengths[h] < Len(sent[h]) /\ sent[h][Lengths[h] + 1] = f
  BY <1>1, <1>2
<1>5. UNCHANGED <<registry, sent>>
  BY DEF Receive
<1>6. f.kind = "data" => f.topic \in networked[h]
  BY <1>1, TcpAssumption DEF Known, NetInv, Configured, Frame
<1>7. \/ /\ f.kind = "create_topic"
         /\ networked' = [networked EXCEPT ![h] = @ \cup {f.topic}]
         /\ delivered' = delivered
      \/ /\ f.kind = "data"
         /\ f.topic \in networked[h]
         /\ delivered' = IF f.topic \in registry[h]
                         THEN [delivered EXCEPT ![h] =
                                 Append(@, [event |-> f, with |-> f.method])]
                         ELSE delivered
         /\ networked' = networked
  BY <1>1, <1>6 DEF HandlesFrame
<1>. QED
  BY <1>3, <1>4, <1>5, <1>7 DEF Net!Handle, Lengths

LEMMA NetStep ==
  ASSUME NetInv, [Next]_vars
  PROVE  [Net!Next]_(Net!vars)
<1>. USE DEF registryVars, historyVars, senderVars, streamVars
<1>1. CASE UNCHANGED seen
  BY <1>1 DEF seen, Lengths, Net!vars
<1>2. ASSUME NEW t \in Senders, Write(t) PROVE [Net!Next]_(Net!vars)
  BY <1>1, <1>2, WriteSends DEF Net!Next
<1>3. ASSUME NEW h \in Hosts, Receive(h) PROVE Net!Next
  BY <1>3, ReceiveHandlesNext DEF Net!Next
<1>4. ASSUME NEW h \in Hosts, NEW k \in Topics, Register(h, k) PROVE Net!Next
  <2>1. Net!Register(h, k)
    BY <1>4 DEF Register, Net!Register
  <2>. QED
    BY <2>1 DEF Net!Next
<1>5. ASSUME NEW t \in Senders, RegisterTopic(t) PROVE Net!Next
  <2>1. Net!Register(HostOf[t], TopicOf[t])
    BY <1>5 DEF RegisterTopic, Net!Register
  <2>. QED
    BY <2>1, ConstantsTyped DEF Net!Next
<1>6. ASSUME NEW t \in Senders, TopicCreate(t) PROVE Net!Next
  <2>1. Net!Create(t)
    BY <1>6 DEF TopicCreate, Net!Create
  <2>. QED
    BY <2>1 DEF Net!Next
<1>7. CASE \/ Listen \/ Connect \/ Accept \/ Finished \/ UNCHANGED vars
           \/ \E h \in Hosts : Read(h) \/ ParseEnd(h) \/ ReadEnd(h) \/ Stop(h)
           \/ \E t \in Senders : \/ GetNetworkWriter(t) \/ PutRemote(t) \/ PutHere(t)
                                 \/ WriteToClosed(t)
  <2>1. UNCHANGED <<registry, networked, sent, received, delivered>>
    BY <1>7 DEF Listen, Connect, Accept, Finished, vars, Read, ParseEnd, ReadEnd, Stop,
       GetNetworkWriter, PutRemote, PutHere, WriteToClosed
  <2>. QED
    BY <1>1, <2>1 DEF seen, Lengths
<1>. QED
  BY <1>2, <1>3, <1>4, <1>5, <1>6, <1>7 DEF Next, SenderStep

\* With one sender on a host the two ends, with their sockets, buffers and tables,
\* implement NetworkedTopics: a frame is sent with its last unit and handled at once.
THEOREM TcpRefinement == ASSUME OneSender PROVE Spec => ImplementsNetworkedTopics
<1>1. NetInv /\ [Next]_vars => [Net!Next]_(Net!vars)
  BY NetStep
<1>. QED
  BY <1>1, NetInit, TcpNetInductive, PTL DEF Spec, ImplementsNetworkedTopics, Net!Spec

=============================================================================
