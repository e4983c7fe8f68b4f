--------------------------- MODULE TcpStreamProofs ---------------------------
(***************************************************************************)
(* That no byte of a connection is lost, repeated or displaced, for every  *)
(* size of frames, buffers and queues.  Each direction is one sequence of  *)
(* bytes with absolute positions: the frames handed on, then the bytes in  *)
(* the receive buffer, in the network and in the send buffer.              *)
(***************************************************************************)
EXTENDS TcpStream, CommonLemmas

\* The bytes of n frames.
Off(n) == n * FrameSize

\* The byte at position k, from 1, of the stream of all frames.
Byte(k) == <<1 + ((k - 1) \div FrameSize), 1 + ((k - 1) % FrameSize)>>

LEMMA Division ==
    ASSUME NEW d \in Nat \ {0}, NEW q \in Nat, NEW r \in 0 .. d - 1, NEW a \in Nat, a = q * d + r
    PROVE  a \div d = q /\ a % d = r
OBVIOUS

LEMMA Quotient ==
    ASSUME NEW d \in Nat \ {0}, NEW a \in Nat
    PROVE  a \div d \in Nat /\ (a \div d) * d <= a
OBVIOUS

\* Frames follow each other without a gap.
LEMMA OffFacts ==
    ASSUME NEW m \in Nat, NEW n \in Nat
    PROVE  /\ Off(n) \in Nat /\ Off(0) = 0 /\ Off(1) = FrameSize
           /\ Off(m + n) = Off(m) + Off(n)
           /\ m <= n => Off(m) <= Off(n)
<1>1. FrameSize \in Nat \ {0}
  BY TcpStreamAssumption
<1> QED
  BY <1>1 DEF Off

Pairs == Nat \X Nat

\* Byte i of frame f + 1.
LEMMA ByteOfFrame ==
    ASSUME NEW f \in Nat, NEW i \in 1 .. FrameSize
    PROVE  Byte(Off(f) + i) = <<f + 1, i>>
<1>1. FrameSize \in Nat \ {0}
  BY TcpStreamAssumption
<1>2. PICK a \in Nat : a = f * FrameSize + (i - 1) /\ a = (Off(f) + i) - 1
  BY <1>1 DEF Off
<1>3. i - 1 \in 0 .. FrameSize - 1
  BY <1>1
<1>4. a \div FrameSize = f /\ a % FrameSize = i - 1
  <2>1. PICK d \in Nat \ {0} : d = FrameSize
    BY <1>1
  <2>2. PICK r \in 0 .. d - 1 : r = i - 1
    BY <1>3, <2>1
  <2>3. a = f * d + r
    BY <1>2, <2>1, <2>2
  <2>4. a \div d = f /\ a % d = r
    BY <2>3, Division
  <2> QED
    BY <2>1, <2>2, <2>4
<1>5. 1 + f = f + 1 /\ 1 + (i - 1) = i
  BY <1>1
<1>6. PICK k : k = Off(f) + i
  OBVIOUS
<1>7. k - 1 = a
  BY <1>2, <1>6
<1>8. Byte(k) = <<1 + f, 1 + (i - 1)>>
  BY <1>4, <1>7 DEF Byte
<1> QED
  BY <1>5, <1>6, <1>8

LEMMA ByteType == ASSUME NEW k \in Nat \ {0} PROVE Byte(k) \in Pairs
<1>1. FrameSize \in Nat \ {0} /\ k - 1 \in Nat
  BY TcpStreamAssumption
<1>2. (k - 1) \div FrameSize \in Nat /\ (k - 1) % FrameSize \in Nat
  BY <1>1
<1> QED
  BY <1>2 DEF Byte, Pairs

\* The bytes s are those of the stream after position p.
Segment(s, p) == s \in Seq(Pairs) /\ \A i \in 1 .. Len(s) : s[i] = Byte(p + i)

LEMMA SegmentConcat ==
    ASSUME NEW p \in Nat, NEW s, Segment(s, p), NEW t, Segment(t, p + Len(s))
    PROVE  Segment(s \o t, p) /\ Len(s \o t) = Len(s) + Len(t)
<1>1. s \in Seq(Pairs) /\ t \in Seq(Pairs)
  BY DEF Segment
<1>2. PICK m \in Nat : m = Len(s)
  BY <1>1
<1>3. PICK n \in Nat : n = Len(t)
  BY <1>1
<1>4. PICK u : u = s \o t
  OBVIOUS
<1>5. /\ u \in Seq(Pairs) /\ Len(u) = m + n
      /\ \A i \in 1 .. m + n : u[i] = IF i <= m THEN s[i] ELSE t[i - m]
  BY <1>1, <1>2, <1>3, <1>4, ConcatProperties
<1>6. ASSUME NEW i \in 1 .. m + n PROVE u[i] = Byte(p + i)
  <2>1. CASE i <= m
    BY <1>2, <1>5, <2>1 DEF Segment
  <2>2. CASE ~(i <= m)
    <3>1. i - m \in 1 .. n /\ p + m + (i - m) = p + i
      BY <2>2
    <3> QED
      BY <1>2, <1>3, <1>5, <2>2, <3>1 DEF Segment
  <2> QED
    BY <2>1, <2>2
<1> QED
  BY <1>2, <1>3, <1>4, <1>5, <1>6 DEF Segment

LEMMA SegmentPart ==
    ASSUME NEW p \in Nat, NEW s, Segment(s, p), NEW a \in Nat, NEW b \in Nat, a <= b, b <= Len(s)
    PROVE  Segment(SubSeq(s, a + 1, b), p + a) /\ Len(SubSeq(s, a + 1, b)) = b - a
<1>1. s \in Seq(Pairs)
  BY DEF Segment
<1>2. PICK n \in Nat : n = Len(s)
  BY <1>1
<1>3. PICK u : u = SubSeq(s, a + 1, b)
  OBVIOUS
<1>4. /\ u \in Seq(Pairs) /\ Len(u) = b - a
      /\ \A i \in 1 .. b - a : u[i] = s[a + i]
  <2>1. \A i \in a + 1 .. b : s[i] \in Pairs
    BY <1>1, <1>2
  <2>2. u = [i \in 1 .. b - a |-> s[a + i]]
    BY <1>1, <1>3
  <2>3. \A i \in 1 .. b - a : a + i \in a + 1 .. b
    OBVIOUS
  <2>4. PICK c \in Nat : c = b - a
    OBVIOUS
  <2>5. u \in [1 .. c -> Pairs]
    BY <2>1, <2>2, <2>3, <2>4
  <2> QED
    BY <2>2, <2>4, <2>5
<1>5. ASSUME NEW i \in 1 .. b - a PROVE u[i] = Byte(p + a + i)
  <2>1. a + i \in 1 .. n /\ p + (a + i) = p + a + i
    BY <1>2
  <2> QED
    BY <1>2, <1>4, <2>1 DEF Segment
<1> QED
  BY <1>3, <1>4, <1>5 DEF Segment

LEMMA SegmentFront ==
    ASSUME NEW p \in Nat, NEW s, Segment(s, p), NEW k \in Nat, k <= Len(s)
    PROVE  Segment(SubSeq(s, 1, k), p) /\ Len(SubSeq(s, 1, k)) = k
<1>1. PICK z \in Nat : z = 0
  OBVIOUS
<1>2. Segment(SubSeq(s, z + 1, k), p + z) /\ Len(SubSeq(s, z + 1, k)) = k - z
  BY <1>1, SegmentPart
<1>3. z + 1 = 1 /\ p + z = p /\ k - z = k
  BY <1>1
<1> QED
  BY <1>2, <1>3

\* A segment that begins and ends between frames is the frames in between.
LEMMA SegmentFrames ==
    ASSUME NEW f \in Nat, NEW g \in Nat, NEW s, Segment(s, Off(f)), Off(f) + Len(s) = Off(g)
    PROVE  s = Frames(f + 1, g)
<1>1. s \in Seq(Pairs) /\ FrameSize \in Nat \ {0}
  BY TcpStreamAssumption DEF Segment
<1>2. PICK n \in Nat : n = Len(s)
  BY <1>1
<1>3. (g - (f + 1) + 1) * FrameSize = n
  <2>1. f * FrameSize + n = g * FrameSize
    BY <1>2 DEF Off
  <2>2. (g - (f + 1) + 1) = g - f
    OBVIOUS
  <2>3. (g - f) * FrameSize = g * FrameSize - f * FrameSize
    BY <1>1
  <2>4. g * FrameSize \in Int /\ f * FrameSize \in Int
    BY <1>1
  <2> QED
    BY <2>1, <2>2, <2>3, <2>4
<1>4. ASSUME NEW i \in 1 .. n
      PROVE  s[i] = <<(f + 1) + ((i - 1) \div FrameSize), 1 + ((i - 1) % FrameSize)>>
  <2>0. PICK j \in Nat : j = i - 1
    OBVIOUS
  <2>1. PICK q \in Nat : q = (i - 1) \div FrameSize
    <3>1. j \div FrameSize \in Nat
      BY <1>1, Quotient
    <3> QED
      BY <2>0, <3>1
  <2>2. PICK r \in 0 .. FrameSize - 1 : r = (i - 1) % FrameSize /\ i - 1 = q * FrameSize + r
    BY <1>1, <2>1
  <2>3. r + 1 \in 1 .. FrameSize /\ Off(f) + i = Off(f + q) + (r + 1) /\ f + q \in Nat
    <3>0. PICK z \in Nat : z = q * FrameSize
      BY <1>1
    <3>1. Off(f + q) = Off(f) + z /\ Off(f) \in Nat
      BY <1>1, <3>0 DEF Off
    <3>2. i - 1 = z + r
      BY <2>2, <3>0
    <3> QED
      BY <1>1, <3>1, <3>2
  <2>4. Byte(Off(f) + i) = <<f + q + 1, r + 1>>
    BY <2>3, ByteOfFrame
  <2>5. s[i] = Byte(Off(f) + i)
    BY <1>2 DEF Segment
  <2>6. f + q + 1 = (f + 1) + q /\ r + 1 = 1 + r
    BY <1>1, <2>2
  <2> QED
    BY <2>1, <2>2, <2>4, <2>5, <2>6
<1>5. Frames(f + 1, g) = [i \in 1 .. n |->
                            <<(f + 1) + ((i - 1) \div FrameSize), 1 + ((i - 1) % FrameSize)>>]
  BY <1>3 DEF Frames
<1>6. s = [i \in 1 .. n |-> s[i]]
  BY <1>1, <1>2
<1> QED
  BY <1>4, <1>5, <1>6, Zenon

\* A frame as send() gets it.
LEMMA FrameSegment ==
    ASSUME NEW f \in Nat
    PROVE  Segment(Frame(f + 1), Off(f)) /\ Len(Frame(f + 1)) = FrameSize
<1>1. FrameSize \in Nat \ {0}
  BY TcpStreamAssumption
<1>2. Frame(f + 1) \in Seq(Pairs) /\ Len(Frame(f + 1)) = FrameSize
  BY <1>1 DEF Frame, Pairs
<1>3. ASSUME NEW i \in 1 .. FrameSize PROVE Frame(f + 1)[i] = Byte(Off(f) + i)
  BY <1>1, ByteOfFrame DEF Frame
<1> QED
  BY <1>2, <1>3 DEF Segment

\* The bytes of a whole frame are decoded to its number.
LEMMA DecodeFrame ==
    ASSUME NEW f \in Nat, NEW s, Segment(s, Off(f)), Len(s) = FrameSize
    PROVE  Decode(s) = f + 1
<1>1. s \in Seq(Pairs) /\ FrameSize \in Nat \ {0} /\ 1 \in 1 .. FrameSize
  BY TcpStreamAssumption DEF Segment
<1>2. \A i \in 1 .. FrameSize : s[i] = <<f + 1, i>>
  BY <1>1, ByteOfFrame DEF Segment
<1>3. s = [i \in 1 .. FrameSize |-> <<f + 1, i>>]
  <2>1. s = [i \in 1 .. FrameSize |-> s[i]]
    BY <1>1
  <2> QED
    BY <1>2, <2>1, Zenon
<1>4. s[1][1] = f + 1
  <2>1. s[1] = <<f + 1, 1>>
    BY <1>1, <1>2, Zenon
  <2> QED
    BY <2>1
<1>5. PICK h : h = s[1][1]
  OBVIOUS
<1>6. Frame(h) = [i \in 1 .. FrameSize |-> <<f + 1, i>>]
  BY <1>4, <1>5 DEF Frame
<1> QED
  BY <1>3, <1>4, <1>5, <1>6, Zenon DEF Decode
-------------------------------------------------------------------------------
(* TCPSocket                                                                  *)

Cells == [0 .. Capacity - 1 -> Pairs \cup {Stale}]
SocketSet == [out : Cells, begin : Nat, unsent : Nat, in : Seq(Pairs),
              state : {"Open", "Error", "PeerClosed"}]

\* The unsent bytes and the received ones lie inside their buffers.
Inside(s) ==
    /\ s \in SocketSet
    /\ s.begin + s.unsent <= Capacity /\ Len(s.in) <= Capacity

LEMMA UnsentSeq ==
    ASSUME NEW s, Inside(s)
    PROVE  /\ Unsent(s) = [i \in 1 .. s.unsent |-> s.out[s.begin + i - 1]]
           /\ \A i \in 1 .. s.unsent : Unsent(s)[i] = s.out[s.begin + i - 1]
           /\ Unsent(s) \in Seq(Pairs \cup {Stale}) /\ Len(Unsent(s)) = s.unsent
<1>1. Capacity \in Nat /\ s.out \in Cells /\ s.begin \in Nat /\ s.unsent \in Nat
  BY TcpStreamAssumption DEF Inside, SocketSet
<1>2. s.begin + s.unsent <= Capacity
  BY DEF Inside
<1>3. \A i \in 1 .. s.unsent : s.begin + i - 1 \in 0 .. Capacity - 1
  BY <1>1, <1>2
<1>4. \A i \in 1 .. s.unsent : s.out[s.begin + i - 1] \in Pairs \cup {Stale}
  BY <1>1, <1>3 DEF Cells
<1>5. PICK n \in Nat : n = s.unsent
  BY <1>1
<1>6. PICK u : u = [i \in 1 .. n |-> s.out[s.begin + i - 1]]
  OBVIOUS
<1>7. u \in [1 .. n -> Pairs \cup {Stale}] /\ u \in Seq(Pairs \cup {Stale}) /\ Len(u) = n
  BY <1>4, <1>5, <1>6
<1> QED
  BY <1>5, <1>6, <1>7 DEF Unsent

\* The kernel takes bytes: the others stay, in their order.
LEMMA WrittenSocket ==
    ASSUME NEW s, Inside(s), NEW n \in 1 .. s.unsent
    PROVE  /\ Inside(Written(s, n)) /\ Written(s, n).in = s.in
           /\ Written(s, n).unsent = s.unsent - n
           /\ Unsent(Written(s, n)) = SubSeq(Unsent(s), n + 1, s.unsent)
<1>1. /\ Capacity \in Nat /\ s.out \in Cells /\ s.begin \in Nat /\ s.unsent \in Nat
      /\ s \in SocketSet /\ s.begin + s.unsent <= Capacity /\ Len(s.in) <= Capacity
  BY TcpStreamAssumption DEF Inside, SocketSet
<1>2. PICK b \in Nat : b = IF n = s.unsent THEN 0 ELSE s.begin + n
  BY <1>1
<1>3. PICK m \in Nat : m = s.unsent - n
  BY <1>1
<1>4. PICK w : w = Written(s, n)
  OBVIOUS
<1>5. w = [s EXCEPT !.begin = b, !.unsent = m]
  BY <1>1, <1>2, <1>3, <1>4 DEF Written
<1>6. /\ w \in SocketSet /\ w.begin = b /\ w.unsent = m /\ w.out = s.out /\ w.in = s.in
  BY <1>1, <1>5 DEF SocketSet
<1>7. Inside(w)
  <2>1. PICK x \in Nat, y \in Nat : x = s.begin /\ y = s.unsent
    BY <1>1
  <2>2. x + y <= Capacity /\ m = y - n /\ b = (IF n = y THEN 0 ELSE x + n) /\ n \in 1 .. y
    BY <1>1, <1>2, <1>3, <2>1
  <2>3. b + m <= Capacity
    BY <1>1, <2>2
  <2> QED
    BY <1>1, <1>6, <2>3 DEF Inside
<1>8. PICK u : u = Unsent(s)
  OBVIOUS
<1>9. /\ u \in Seq(Pairs \cup {Stale}) /\ Len(u) = s.unsent
      /\ \A i \in 1 .. s.unsent : u[i] = s.out[s.begin + i - 1]
  BY <1>8, UnsentSeq
<1>10. SubSeq(u, n + 1, s.unsent) = [i \in 1 .. m |-> u[n + i]]
  BY <1>1, <1>3, <1>9
<1>11. Unsent(w) = [i \in 1 .. m |-> s.out[b + i - 1]]
  BY <1>6, <1>7, UnsentSeq
<1>12. ASSUME NEW i \in 1 .. m PROVE s.out[b + i - 1] = u[n + i]
  <2>1. n # s.unsent /\ b = s.begin + n /\ n + i \in 1 .. s.unsent
    BY <1>1, <1>2, <1>3
  <2>2. s.begin + (n + i) - 1 = b + i - 1
    BY <1>1, <2>1
  <2> QED
    BY <1>9, <2>1, <2>2
<1> QED
  BY <1>3, <1>4, <1>6, <1>7, <1>8, <1>10, <1>11, <1>12

\* compaction changes nothing but the place of the unsent bytes.
LEMMA CompactSocket ==
    ASSUME NEW s, Inside(s)
    PROVE  /\ Inside(Compact(s)) /\ Compact(s).in = s.in /\ Compact(s).begin = 0
           /\ Compact(s).unsent = s.unsent /\ Unsent(Compact(s)) = Unsent(s)
<1>1. /\ Capacity \in Nat /\ s.out \in Cells /\ s.begin \in Nat /\ s.unsent \in Nat
      /\ s \in SocketSet /\ s.begin + s.unsent <= Capacity /\ Len(s.in) <= Capacity
      /\ DOMAIN s.out = 0 .. Capacity - 1
  BY TcpStreamAssumption DEF Inside, SocketSet, Cells
<1>2. PICK f : f = [i \in 0 .. Capacity - 1 |-> IF i < s.unsent THEN s.out[s.begin + i] ELSE s.out[i]]
  OBVIOUS
<1>3. f \in Cells
  <2>1. ASSUME NEW i \in 0 .. Capacity - 1 PROVE f[i] \in Pairs \cup {Stale}
    <3>1. i < s.unsent => s.begin + i \in 0 .. Capacity - 1
      BY <1>1
    <3> QED
      BY <1>1, <1>2, <3>1 DEF Cells
  <2> QED
    BY <1>2, <2>1 DEF Cells
<1>4. PICK c : c = Compact(s)
  OBVIOUS
<1>5. c = [s EXCEPT !.out = f, !.begin = 0]
  BY <1>1, <1>2, <1>4 DEF Compact
<1>6. c \in SocketSet /\ c.begin = 0 /\ c.unsent = s.unsent /\ c.out = f /\ c.in = s.in
  BY <1>1, <1>3, <1>5 DEF SocketSet
<1>7. Inside(c)
  BY <1>1, <1>6 DEF Inside
<1>8. /\ Unsent(c) = [i \in 1 .. s.unsent |-> f[0 + i - 1]]
      /\ Unsent(s) = [i \in 1 .. s.unsent |-> s.out[s.begin + i - 1]]
  BY <1>6, <1>7, UnsentSeq
<1>9. ASSUME NEW i \in 1 .. s.unsent PROVE f[0 + i - 1] = s.out[s.begin + i - 1]
  <2>1. PICK j \in 0 .. Capacity - 1 : j = 0 + i - 1 /\ j < s.unsent /\ s.begin + j = s.begin + i - 1
    BY <1>1
  <2> QED
    BY <1>2, <2>1
<1> QED
  BY <1>4, <1>6, <1>7, <1>8, <1>9

\* send() puts the frame behind the unsent bytes.
LEMMA SendSocket ==
    ASSUME NEW s, Inside(s), FrameSize <= Capacity - s.unsent,
           NEW fr \in Seq(Pairs), Len(fr) = FrameSize
    PROVE  /\ Inside(Send(s, fr)) /\ Send(s, fr).in = s.in
           /\ Send(s, fr).unsent = s.unsent + FrameSize
           /\ Unsent(Send(s, fr)) = Unsent(s) \o fr
<1>1. PICK c : c = IF s.begin + s.unsent + FrameSize > Capacity THEN Compact(s) ELSE s
  OBVIOUS
<1>2. /\ Capacity \in Nat /\ FrameSize \in Nat \ {0} /\ s.begin \in Nat /\ s.unsent \in Nat
  BY TcpStreamAssumption DEF Inside, SocketSet
<1>3. /\ Inside(c) /\ c.in = s.in /\ c.unsent = s.unsent /\ Unsent(c) = Unsent(s)
      /\ c.begin + c.unsent + FrameSize <= Capacity
  <2>1. CASE s.begin + s.unsent + FrameSize > Capacity
    <3>1. c = Compact(s)
      BY <1>1, <2>1
    <3>2. /\ Inside(c) /\ c.in = s.in /\ c.begin = 0
          /\ c.unsent = s.unsent /\ Unsent(c) = Unsent(s)
      BY <3>1, CompactSocket
    <3> QED
      BY <1>2, <3>2
  <2>2. CASE ~(s.begin + s.unsent + FrameSize > Capacity)
    BY <1>1, <1>2, <2>2
  <2> QED
    BY <2>1, <2>2
<1>4. PICK tail \in Nat : tail = c.begin + c.unsent
  BY <1>3 DEF Inside, SocketSet
<1>5. /\ c \in SocketSet /\ c.out \in Cells /\ DOMAIN c.out = 0 .. Capacity - 1
      /\ c.begin \in Nat /\ c.unsent \in Nat
  BY <1>3 DEF Inside, SocketSet, Cells
<1>6. PICK f : f = [i \in 0 .. Capacity - 1 |-> IF i \in tail .. tail + FrameSize - 1
                                                 THEN fr[i - tail + 1] ELSE c.out[i]]
  OBVIOUS
<1>7. f \in Cells
  <2>1. ASSUME NEW i \in 0 .. Capacity - 1 PROVE f[i] \in Pairs \cup {Stale}
    <3>1. CASE i \in tail .. tail + FrameSize - 1
      <4>1. i - tail + 1 \in 1 .. FrameSize
        BY <1>2, <3>1
      <4>2. fr[i - tail + 1] \in Pairs
        BY <4>1
      <4> QED
        BY <1>6, <3>1, <4>2
    <3>2. CASE i \notin tail .. tail + FrameSize - 1
      BY <1>5, <1>6, <3>2 DEF Cells
    <3> QED
      BY <3>1, <3>2
  <2> QED
    BY <1>6, <2>1 DEF Cells
<1>8. PICK n \in Nat : n = c.unsent + FrameSize
  BY <1>2, <1>5
<1>9. PICK d : d = Send(s, fr)
  OBVIOUS
<1>10. d = [c EXCEPT !.out = f, !.unsent = n]
  BY <1>1, <1>4, <1>5, <1>6, <1>8, <1>9 DEF Send
<1>11. d \in SocketSet /\ d.begin = c.begin /\ d.unsent = n /\ d.out = f /\ d.in = c.in
  BY <1>5, <1>7, <1>10 DEF SocketSet
<1>12. Inside(d)
  BY <1>2, <1>3, <1>5, <1>8, <1>11 DEF Inside
<1>13. PICK u : u = Unsent(s)
  OBVIOUS
<1>14. /\ u \in Seq(Pairs \cup {Stale}) /\ Len(u) = c.unsent
       /\ \A i \in 1 .. c.unsent : u[i] = c.out[c.begin + i - 1]
  BY <1>3, <1>13, UnsentSeq
<1>15. /\ Unsent(d) = [i \in 1 .. n |-> f[c.begin + i - 1]]
  BY <1>11, <1>12, UnsentSeq
<1>16. ASSUME NEW i \in 1 .. n
       PROVE  f[c.begin + i - 1] = IF i <= c.unsent THEN u[i] ELSE fr[i - c.unsent]
  <2>0. PICK j \in 0 .. Capacity - 1 : j = c.begin + i - 1
    <3>1. PICK b \in Nat : b = c.begin
      BY <1>5
    <3>2. b + n <= Capacity
      <4>1. PICK m \in Nat : m = c.unsent
        BY <1>5
      <4> QED
        BY <1>2, <1>3, <1>8, <3>1, <4>1
    <3>3. b + i - 1 \in 0 .. Capacity - 1
      BY <1>2, <3>2
    <3> QED
      BY <3>1, <3>3
  <2>1. CASE i <= c.unsent
    <3>1. j \notin tail .. tail + FrameSize - 1 /\ i \in 1 .. c.unsent
      BY <1>2, <1>4, <1>5, <2>0, <2>1
    <3> QED
      BY <1>6, <1>14, <2>0, <2>1, <3>1
  <2>2. CASE ~(i <= c.unsent)
    <3>0. PICK m \in Nat : m = c.unsent
      BY <1>5
    <3>a. PICK b \in Nat : b = c.begin
      BY <1>5
    <3>b. n = m + FrameSize /\ tail = b + m /\ j = b + i - 1 /\ i > m
      BY <1>4, <1>8, <2>0, <2>2, <3>0, <3>a
    <3>c. j >= tail /\ j <= tail + FrameSize - 1 /\ j - tail + 1 = i - m
      BY <1>2, <3>b
    <3>1. j \in tail .. tail + FrameSize - 1 /\ j - tail + 1 = i - c.unsent
      BY <1>2, <3>0, <3>c
    <3> QED
      BY <1>6, <2>0, <2>2, <3>1
  <2> QED
    BY <2>1, <2>2
<1>17. u \o fr = [i \in 1 .. n |-> IF i <= c.unsent THEN u[i] ELSE fr[i - c.unsent]]
  <2>1. fr \in Seq(Pairs \cup {Stale})
    OBVIOUS
  <2>2. PICK v : v = u \o fr
    OBVIOUS
  <2>3. /\ v \in Seq(Pairs \cup {Stale}) /\ Len(v) = n
        /\ \A i \in 1 .. n : v[i] = IF i <= c.unsent THEN u[i] ELSE fr[i - c.unsent]
    <3>1. PICK T : T = Pairs \cup {Stale}
      OBVIOUS
    <3>2. u \in Seq(T) /\ fr \in Seq(T)
      BY <1>14, <2>1, <3>1
    <3>3. /\ v \in Seq(T) /\ Len(v) = Len(u) + Len(fr)
          /\ \A i \in 1 .. Len(u) + Len(fr) : v[i] = IF i <= Len(u) THEN u[i] ELSE fr[i - Len(u)]
      BY <2>2, <3>2, ConcatProperties
    <3> QED
      BY <1>8, <1>14, <3>1, <3>3
  <2>4. v = [i \in 1 .. n |-> v[i]]
    BY <2>3
  <2> QED
    BY <2>2, <2>3, <2>4, Zenon
<1> QED
  BY <1>2, <1>3, <1>8, <1>9, <1>11, <1>12, <1>13, <1>15, <1>16, <1>17

-------------------------------------------------------------------------------
(* The callbacks                                                              *)

\* From the bytes in, after the frames done, n frames are cut.
CutInto(c, in, done, n) ==
    /\ n \in Nat /\ c.frames \in Seq(Nat) /\ Len(c.frames) = n
    /\ \A k \in 1 .. n : c.frames[k] = done + k
    /\ Segment(c.rest, Off(done + n)) /\ Off(n) + Len(c.rest) = Len(in)

LEMMA CutFrames ==
    ASSUME NEW x, NEW done \in Nat, NEW in, Segment(in, Off(done)),
           queue[x] \in Seq(Nat), Len(queue[x]) <= QueueCapacity
    PROVE  \E n \in Nat : CutInto(Cut(x, in), in, done, n) /\ Len(queue[x]) + n <= QueueCapacity
<1>1. FrameSize \in Nat \ {0} /\ QueueCapacity \in Nat /\ in \in Seq(Pairs)
  BY TcpStreamAssumption DEF Segment
<1>2. PICK L \in Nat : L = Len(in)
  BY <1>1
<1>3. PICK w \in Nat : w = QueueCapacity - Len(queue[x])
  <2>1. PICK l \in Nat : l = Len(queue[x])
    BY LenProperties
  <2>2. QueueCapacity - l \in Nat
    BY <1>1, <2>1
  <2> QED
    BY <2>1, <2>2
<1>4. L \div FrameSize \in Nat /\ (L \div FrameSize) * FrameSize <= L
  BY <1>1, Quotient
<1>5. PICK n : n = Min({Len(in) \div FrameSize, QueueCapacity - Len(queue[x])})
  OBVIOUS
<1>6. n \in Nat /\ n <= L \div FrameSize /\ n <= w
  <2>1. PICK a \in Nat : a = L \div FrameSize
    BY <1>4
  <2>2. n = Min({a, w})
    BY <1>2, <1>3, <1>5, <2>1
  <2>3. Min({a, w}) \in {a, w} /\ Min({a, w}) <= a /\ Min({a, w}) <= w
    <3>1. a \in Int /\ w \in Int
      OBVIOUS
    <3> QED
      BY <3>1, MinPair
  <2> QED
    BY <2>1, <2>2, <2>3
<1>7. Off(n) <= L /\ Off(n) \in Nat
  <2>1. Off(n) <= Off(L \div FrameSize) /\ Off(n) \in Nat /\ Off(L \div FrameSize) \in Nat
    BY <1>4, <1>6, OffFacts
  <2>2. Off(L \div FrameSize) <= L
    BY <1>4 DEF Off
  <2> QED
    BY <2>1, <2>2
<1>8. PICK c : c = Cut(x, in)
  OBVIOUS
<1>9. /\ c.frames = [k \in 1 .. n |-> Decode(SubSeq(in, (k - 1) * FrameSize + 1, k * FrameSize))]
      /\ c.rest = SubSeq(in, n * FrameSize + 1, Len(in))
  BY <1>5, <1>8 DEF Cut
<1>10. Off(done) \in Nat /\ Off(done + n) = Off(done) + Off(n)
  BY <1>6, OffFacts
<1>11. ASSUME NEW k \in 1 .. n PROVE Decode(SubSeq(in, (k - 1) * FrameSize + 1, k * FrameSize)) = done + k
  <2>1. PICK j \in Nat : j = k - 1 /\ k = j + 1 /\ k \in Nat
    BY <1>6
  <2>2. /\ Off(k) = Off(j) + FrameSize /\ Off(j) \in Nat /\ Off(k) \in Nat /\ Off(k) <= Off(n)
        /\ Off(done + j) = Off(done) + Off(j)
    <3>1. Off(j + 1) = Off(j) + FrameSize /\ Off(j) \in Nat
      BY <1>1 DEF Off
    <3>2. Off(k) \in Nat /\ Off(k) <= Off(n)
      <4>1. k \in Nat /\ n \in Nat /\ k <= n
        BY <1>6, <2>1
      <4> QED
        BY <4>1, OffFacts, Zenon
    <3>3. Off(done + j) = Off(done) + Off(j)
      BY OffFacts
    <3> QED
      BY <2>1, <3>1, <3>2, <3>3
  <2>3. PICK s : s = SubSeq(in, Off(j) + 1, Off(k))
    OBVIOUS
  <2>4. Segment(s, Off(done) + Off(j)) /\ Len(s) = Off(k) - Off(j)
    <3>1. Off(j) <= Off(k) /\ Off(k) <= Len(in)
      BY <1>1, <1>2, <1>7, <2>2
    <3> QED
      BY <1>10, <2>2, <2>3, <3>1, SegmentPart
  <2>5. Segment(s, Off(done + j)) /\ Len(s) = FrameSize
    BY <1>1, <2>2, <2>4
  <2>6. Decode(s) = done + j + 1
    BY <2>1, <2>5, DecodeFrame
  <2>7. s = SubSeq(in, (k - 1) * FrameSize + 1, k * FrameSize)
    BY <2>1, <2>3 DEF Off
  <2> QED
    BY <2>1, <2>6, <2>7
<1>12. /\ c.frames \in Seq(Nat) /\ Len(c.frames) = n
       /\ \A k \in 1 .. n : c.frames[k] = done + k
  <2>1. c.frames = [k \in 1 .. n |-> done + k]
    BY <1>9, <1>11
  <2> QED
    BY <1>6, <2>1
<1>13. Segment(c.rest, Off(done) + Off(n)) /\ Len(c.rest) = L - Off(n)
  <2>1. c.rest = SubSeq(in, Off(n) + 1, L)
    BY <1>2, <1>9 DEF Off
  <2> QED
    BY <1>2, <1>7, <1>10, <2>1, SegmentPart
<1>14. CutInto(c, in, done, n)
  BY <1>2, <1>6, <1>7, <1>10, <1>12, <1>13 DEF CutInto
<1>15. Len(queue[x]) + n <= QueueCapacity
  BY <1>1, <1>3, <1>6
<1> QED
  BY <1>6, <1>8, <1>14, <1>15

-------------------------------------------------------------------------------
(* One direction: the sender's socket s, the network, the receiver's buffer,  *)
(* the frames that the receiver has handed on and those that were accepted.   *)

Carried(s, n, in, done, accepted) ==
    /\ done \in Nat /\ accepted \in Nat
    /\ Segment(in, Off(done))
    /\ Segment(n, Off(done) + Len(in))
    /\ Segment(Unsent(s), Off(done) + Len(in) + Len(n))
    /\ Off(done) + Len(in) + Len(n) + s.unsent = Off(accepted)

LEMMA CarriedTypes ==
    ASSUME NEW s, Inside(s), NEW n, NEW in, NEW done, NEW accepted, Carried(s, n, in, done, accepted)
    PROVE  /\ done \in Nat /\ accepted \in Nat /\ Off(done) \in Nat /\ Off(accepted) \in Nat
           /\ in \in Seq(Pairs) /\ n \in Seq(Pairs) /\ Unsent(s) \in Seq(Pairs)
           /\ Len(in) \in Nat /\ Len(n) \in Nat /\ s.unsent \in Nat /\ Len(Unsent(s)) = s.unsent
           /\ Off(done) + Len(in) + Len(n) + s.unsent = Off(accepted)
<1>1. done \in Nat /\ accepted \in Nat /\ in \in Seq(Pairs) /\ n \in Seq(Pairs) /\ Unsent(s) \in Seq(Pairs)
  BY DEF Carried, Segment
<1>2. Off(done) \in Nat /\ Off(accepted) \in Nat
  BY <1>1, OffFacts
<1>3. s.unsent \in Nat /\ Len(Unsent(s)) = s.unsent
  BY UnsentSeq DEF Inside, SocketSet
<1>4. Off(done) + Len(in) + Len(n) + s.unsent = Off(accepted)
  BY DEF Carried
<1> QED
  BY <1>1, <1>2, <1>3, <1>4

\* The kernel takes k bytes.
LEMMA CarryWrite ==
    ASSUME NEW s, Inside(s), NEW n, NEW in, NEW done, NEW accepted, Carried(s, n, in, done, accepted),
           NEW k \in 1 .. s.unsent
    PROVE  Carried(Written(s, k), n \o SubSeq(Unsent(s), 1, k), in, done, accepted)
<1>1. /\ done \in Nat /\ accepted \in Nat /\ Off(done) \in Nat /\ Off(accepted) \in Nat
      /\ in \in Seq(Pairs) /\ n \in Seq(Pairs) /\ Unsent(s) \in Seq(Pairs)
      /\ Len(in) \in Nat /\ Len(n) \in Nat /\ s.unsent \in Nat /\ Len(Unsent(s)) = s.unsent
      /\ Off(done) + Len(in) + Len(n) + s.unsent = Off(accepted)
  BY CarriedTypes
<1>2. PICK u : u = Unsent(s)
  OBVIOUS
<1>3. PICK p \in Nat : p = Off(done) + Len(in)
  BY <1>1
<1>4. PICK q \in Nat : q = p + Len(n)
  BY <1>1
<1>5. Segment(n, p) /\ Segment(u, q) /\ q = Off(done) + Len(in) + Len(n)
  BY <1>1, <1>2, <1>3, <1>4 DEF Carried
<1>6. PICK a : a = SubSeq(u, 1, k)
  OBVIOUS
<1>7. PICK b : b = SubSeq(u, k + 1, s.unsent)
  OBVIOUS
<1>8. Segment(a, q) /\ Len(a) = k
  <2>1. k \in Nat /\ k <= Len(u)
    BY <1>1, <1>2
  <2> QED
    BY <1>5, <1>6, <2>1, SegmentFront
<1>9. Segment(b, q + k) /\ Len(b) = s.unsent - k
  <2>1. PICK v \in Nat : v = s.unsent
    BY <1>1
  <2>2. k \in Nat /\ k <= v /\ v <= Len(u)
    BY <1>1, <1>2, <2>1
  <2>3. Segment(SubSeq(u, k + 1, v), q + k) /\ Len(SubSeq(u, k + 1, v)) = v - k
    BY <1>5, <2>2, SegmentPart
  <2> QED
    BY <1>7, <2>1, <2>3
<1>10. PICK w : w = n \o a
  OBVIOUS
<1>11. Segment(w, p) /\ Len(w) = Len(n) + k
  BY <1>4, <1>5, <1>8, <1>10, SegmentConcat
<1>12. PICK t : t = Written(s, k)
  OBVIOUS
<1>13. Unsent(t) = b /\ t.unsent = s.unsent - k
  BY <1>2, <1>7, <1>12, WrittenSocket
<1>14. Off(done) + Len(in) + Len(w) = q + k /\ p = Off(done) + Len(in)
  BY <1>1, <1>3, <1>4, <1>11
<1>15. Off(done) + Len(in) + Len(w) + t.unsent = Off(accepted)
  <2>1. q + s.unsent = Off(accepted)
    BY <1>1, <1>5
  <2>2. PICK v \in Nat : v = s.unsent /\ t.unsent = v - k
    BY <1>1, <1>13
  <2>3. (q + k) + (v - k) = q + v
    BY <1>1
  <2> QED
    BY <1>14, <2>1, <2>2, <2>3
<1>16. Carried(t, w, in, done, accepted)
  BY <1>1, <1>9, <1>11, <1>13, <1>14, <1>15 DEF Carried
<1> QED
  BY <1>2, <1>6, <1>10, <1>12, <1>16

\* The receiver reads k bytes; they are then handled with those it had.
LEMMA CarryRead ==
    ASSUME NEW s, Inside(s), NEW n, NEW in, NEW done, NEW accepted, Carried(s, n, in, done, accepted),
           NEW k \in 1 .. Len(n)
    PROVE  /\ Carried(s, SubSeq(n, k + 1, Len(n)), in \o SubSeq(n, 1, k), done, accepted)
           /\ Len(in \o SubSeq(n, 1, k)) = Len(in) + k
<1>1. /\ done \in Nat /\ accepted \in Nat /\ Off(done) \in Nat /\ Off(accepted) \in Nat
      /\ in \in Seq(Pairs) /\ n \in Seq(Pairs) /\ Unsent(s) \in Seq(Pairs)
      /\ Len(in) \in Nat /\ Len(n) \in Nat /\ s.unsent \in Nat /\ Len(Unsent(s)) = s.unsent
      /\ Off(done) + Len(in) + Len(n) + s.unsent = Off(accepted)
  BY CarriedTypes
<1>2. PICK p \in Nat : p = Off(done) + Len(in)
  BY <1>1
<1>3. Segment(in, Off(done)) /\ Segment(n, p) /\ Segment(Unsent(s), p + Len(n))
      /\ p + Len(n) + s.unsent = Off(accepted)
  BY <1>2 DEF Carried
<1>4. PICK a : a = SubSeq(n, 1, k)
  OBVIOUS
<1>5. PICK b : b = SubSeq(n, k + 1, Len(n))
  OBVIOUS
<1>6. Segment(a, p) /\ Len(a) = k
  <2>1. k \in Nat /\ k <= Len(n)
    BY <1>1
  <2> QED
    BY <1>3, <1>4, <2>1, SegmentFront
<1>7. Segment(b, p + k) /\ Len(b) = Len(n) - k
  <2>1. PICK m \in Nat : m = Len(n)
    BY <1>1
  <2>2. k \in Nat /\ k <= m /\ m <= Len(n)
    BY <2>1
  <2>3. Segment(SubSeq(n, k + 1, m), p + k) /\ Len(SubSeq(n, k + 1, m)) = m - k
    BY <1>3, <2>2, SegmentPart
  <2> QED
    BY <1>5, <2>1, <2>3
<1>8. PICK w : w = in \o a
  OBVIOUS
<1>a. PICK o \in Nat : o = Off(done)
  BY <1>1
<1>9. Segment(w, o) /\ Len(w) = Len(in) + k
  <2>1. Segment(in, o) /\ Segment(a, o + Len(in))
    BY <1>2, <1>3, <1>6, <1>a
  <2> QED
    BY <1>6, <1>8, <2>1, SegmentConcat
<1>10. /\ Off(done) + Len(w) = p + k /\ Off(done) + Len(w) + Len(b) = p + Len(n)
       /\ Off(done) + Len(w) + Len(b) + s.unsent = Off(accepted) /\ Segment(w, Off(done))
  <2>1. PICK m \in Nat : m = Len(n)
    BY <1>1
  <2>2. PICK l \in Nat : l = Len(in)
    BY <1>1
  <2>3. p = o + l /\ Len(w) = l + k /\ Len(b) = m - k /\ p + m + s.unsent = Off(accepted)
    BY <1>2, <1>3, <1>7, <1>9, <1>a, <2>1, <2>2
  <2>4. o + (l + k) = p + k /\ (o + (l + k)) + (m - k) = p + m
    BY <2>3
  <2>5. /\ Off(done) + Len(w) = p + k /\ Off(done) + Len(w) + Len(b) = p + m
    BY <1>a, <2>3, <2>4
  <2> QED
    BY <1>9, <1>a, <2>1, <2>3, <2>5
<1>11. Carried(s, b, w, done, accepted)
  BY <1>1, <1>3, <1>7, <1>10 DEF Carried
<1> QED
  BY <1>4, <1>5, <1>8, <1>9, <1>11

\* The sender accepts the next frame.
LEMMA CarrySend ==
    ASSUME NEW s, Inside(s), NEW n, NEW in, NEW done, NEW accepted, Carried(s, n, in, done, accepted),
           FrameSize <= Capacity - s.unsent
    PROVE  /\ Carried(Send(s, Frame(accepted + 1)), n, in, done, accepted + 1)
           /\ Inside(Send(s, Frame(accepted + 1))) /\ Send(s, Frame(accepted + 1)).in = s.in
<1>1. /\ done \in Nat /\ accepted \in Nat /\ Off(done) \in Nat /\ Off(accepted) \in Nat
      /\ in \in Seq(Pairs) /\ n \in Seq(Pairs) /\ Unsent(s) \in Seq(Pairs)
      /\ Len(in) \in Nat /\ Len(n) \in Nat /\ s.unsent \in Nat /\ Len(Unsent(s)) = s.unsent
      /\ Off(done) + Len(in) + Len(n) + s.unsent = Off(accepted)
  BY CarriedTypes
<1>2. PICK fr : fr = Frame(accepted + 1)
  OBVIOUS
<1>3. Segment(fr, Off(accepted)) /\ Len(fr) = FrameSize /\ fr \in Seq(Pairs)
  BY <1>1, <1>2, FrameSegment DEF Segment
<1>4. PICK q \in Nat : q = Off(done) + Len(in) + Len(n)
  BY <1>1
<1>5. PICK u : u = Unsent(s)
  OBVIOUS
<1>6. Segment(u, q) /\ q + Len(u) = Off(accepted)
  BY <1>1, <1>4, <1>5 DEF Carried
<1>7. Segment(u \o fr, q)
  BY <1>3, <1>6, SegmentConcat
<1>8. PICK t : t = Send(s, fr)
  OBVIOUS
<1>9. /\ Inside(t) /\ t.in = s.in /\ t.unsent = s.unsent + FrameSize /\ Unsent(t) = u \o fr
  BY <1>3, <1>5, <1>8, SendSocket
<1>10. accepted + 1 \in Nat /\ Off(accepted + 1) = Off(accepted) + FrameSize
  <2>1. FrameSize \in Nat
    BY TcpStreamAssumption
  <2> QED
    BY <1>1, <2>1 DEF Off
<1>11. q + t.unsent = Off(accepted + 1)
  <2>1. PICK v \in Nat : v = s.unsent
    BY <1>1
  <2>2. PICK z \in Nat : z = FrameSize
    BY TcpStreamAssumption
  <2>3. q + v = Off(accepted) /\ t.unsent = v + z /\ Off(accepted + 1) = Off(accepted) + z
    BY <1>1, <1>4, <1>9, <1>10, <2>1, <2>2
  <2> QED
    BY <2>3
<1>12. Carried(t, n, in, done, accepted + 1)
  BY <1>1, <1>4, <1>7, <1>9, <1>10, <1>11 DEF Carried
<1> QED
  BY <1>2, <1>8, <1>9, <1>12

\* The receiver's callback hands k frames on.
LEMMA CarryCut ==
    ASSUME NEW s, Inside(s), NEW n, NEW in, NEW done, NEW accepted, Carried(s, n, in, done, accepted),
           NEW c, NEW k \in Nat, CutInto(c, in, done, k)
    PROVE  Carried(s, n, c.rest, done + k, accepted) /\ Len(c.rest) <= Len(in)
<1>1. /\ done \in Nat /\ accepted \in Nat /\ Off(done) \in Nat /\ Off(accepted) \in Nat
      /\ in \in Seq(Pairs) /\ n \in Seq(Pairs) /\ Unsent(s) \in Seq(Pairs)
      /\ Len(in) \in Nat /\ Len(n) \in Nat /\ s.unsent \in Nat /\ Len(Unsent(s)) = s.unsent
      /\ Off(done) + Len(in) + Len(n) + s.unsent = Off(accepted)
  BY CarriedTypes
<1>2. /\ Off(k) \in Nat /\ done + k \in Nat /\ Off(done + k) = Off(done) + Off(k)
  BY <1>1, OffFacts
<1>3. PICK r : r = c.rest
  OBVIOUS
<1>4. Segment(r, Off(done + k)) /\ Off(k) + Len(r) = Len(in) /\ Len(r) \in Nat
  <2>1. Segment(r, Off(done + k)) /\ Off(k) + Len(r) = Len(in)
    BY <1>3 DEF CutInto
  <2>2. r \in Seq(Pairs)
    BY <2>1 DEF Segment
  <2> QED
    BY <2>1, <2>2
<1>5. Len(r) <= Len(in) /\ Off(done + k) + Len(r) = Off(done) + Len(in)
  <2>1. PICK l \in Nat : l = Len(r)
    BY <1>4
  <2>2. PICK o \in Nat : o = Off(done)
    BY <1>1
  <2>3. PICK z \in Nat : z = Off(k)
    BY <1>2
  <2>4. Len(in) = z + l /\ Off(done + k) = o + z
    BY <1>2, <1>4, <2>1, <2>2, <2>3
  <2>5. l <= z + l /\ (o + z) + l = o + (z + l)
    OBVIOUS
  <2> QED
    BY <2>1, <2>2, <2>4, <2>5
<1>6. /\ Segment(n, Off(done) + Len(in)) /\ Segment(Unsent(s), Off(done) + Len(in) + Len(n))
  BY DEF Carried
<1>7. Carried(s, n, r, done + k, accepted)
  BY <1>1, <1>2, <1>4, <1>5, <1>6 DEF Carried
<1> QED
  BY <1>3, <1>5, <1>7

\* A direction does not depend on the sender's receive buffer and state.
LEMMA CarrySame ==
    ASSUME NEW s, NEW t, Inside(s), t.out = s.out, t.begin = s.begin, t.unsent = s.unsent,
           NEW n, NEW in, NEW done, NEW accepted, Carried(s, n, in, done, accepted)
    PROVE  Carried(t, n, in, done, accepted)
<1>1. Unsent(t) = Unsent(s)
  BY DEF Unsent
<1> QED
  BY <1>1 DEF Carried

-------------------------------------------------------------------------------
(* The inductive invariant                                                    *)

\* The frames 1, 2, ... in their order.
Numbered(q) == q \in Seq(Nat) /\ \A i \in 1 .. Len(q) : q[i] = i

StreamTypes ==
    /\ sock \in [Ends -> SocketSet] /\ \A x \in Ends : Inside(sock[x])
    /\ net \in [Ends -> Seq(Pairs)]
    /\ queue \in [Ends -> Seq(Nat)] /\ \A x \in Ends : Len(queue[x]) <= QueueCapacity
    /\ sent \in [Ends -> Nat]
    /\ got \in [Ends -> Seq(Nat)] /\ \A x \in Ends : Numbered(got[x])

\* Both directions carry what was sent.
Directions ==
    \A x \in Ends : Carried(sock[x], net[x], sock[Other(x)].in, Len(got[Other(x)]), sent[x])

\* The requests that wait are those after the last one answered.
Waiting ==
    /\ Len(got["server"]) = sent["server"] + Len(queue["server"])
    /\ \A i \in 1 .. Len(queue["server"]) : queue["server"][i] = sent["server"] + i

StreamInv == StreamTypes /\ Directions /\ Waiting

LEMMA TwoEnds ==
    /\ "client" \in Ends /\ "server" \in Ends /\ "client" # "server"
    /\ Other("client") = "server" /\ Other("server") = "client"
    /\ \A x \in Ends : /\ x = "client" \/ x = "server"
                       /\ Other(x) \in Ends /\ Other(x) # x /\ Other(Other(x)) = x
BY DEF Ends, Other

\* A step that leaves the bytes alone.
StreamKept ==
    /\ UNCHANGED <<net, sent, got>>
    /\ sock' \in [Ends -> SocketSet]
    /\ \A x \in Ends : /\ sock'[x].out = sock[x].out /\ sock'[x].begin = sock[x].begin
                       /\ sock'[x].unsent = sock[x].unsent /\ sock'[x].in = sock[x].in
    /\ queue' \in [Ends -> Seq(Nat)] /\ queue'["server"] = queue["server"]
    /\ Len(queue'["client"]) <= QueueCapacity

LEMMA KeptInv == ASSUME StreamInv, StreamKept PROVE StreamInv'
<1>1. StreamTypes'
  <2>1. \A x \in Ends : Inside(sock[x])' 
    BY DEF StreamInv, StreamTypes, StreamKept, Inside
  <2>2. \A x \in Ends : Len(queue'[x]) <= QueueCapacity
    BY TwoEnds DEF StreamInv, StreamTypes, StreamKept
  <2>3. \A x \in Ends : Numbered(got'[x])
    BY DEF StreamInv, StreamTypes, StreamKept
  <2> QED
    BY <2>1, <2>2, <2>3 DEF StreamInv, StreamTypes, StreamKept
<1>2. Directions'
  <2> SUFFICES ASSUME NEW x \in Ends
               PROVE  Carried(sock'[x], net'[x], sock'[Other(x)].in, Len(got'[Other(x)]), sent'[x])
    BY DEF Directions
  <2>1. Carried(sock[x], net[x], sock[Other(x)].in, Len(got[Other(x)]), sent[x])
    BY DEF StreamInv, Directions
  <2>2. sock'[Other(x)].in = sock[Other(x)].in /\ Inside(sock[x])
    BY TwoEnds DEF StreamInv, StreamTypes, StreamKept
  <2>3. sock'[x].out = sock[x].out /\ sock'[x].begin = sock[x].begin /\ sock'[x].unsent = sock[x].unsent
    BY DEF StreamKept
  <2>4. Carried(sock'[x], net[x], sock[Other(x)].in, Len(got[Other(x)]), sent[x])
    BY <2>1, <2>2, <2>3, CarrySame
  <2> QED
    BY <2>2, <2>4 DEF StreamKept
<1>3. Waiting'
  BY DEF StreamInv, Waiting, StreamKept
<1> QED
  BY <1>1, <1>2, <1>3 DEF StreamInv

LEMMA InitStream == Init => StreamInv
<1> SUFFICES ASSUME Init PROVE StreamInv
  OBVIOUS
<1>0. Capacity \in Nat /\ QueueCapacity \in Nat /\ FrameSize \in Nat
  BY TcpStreamAssumption
<1>1. PICK s : s = NewSocket
  OBVIOUS
<1>2. s \in SocketSet /\ s.begin = 0 /\ s.unsent = 0 /\ s.in = <<>>
  <2>1. [i \in 0 .. Capacity - 1 |-> Stale] \in Cells
    BY DEF Cells
  <2> QED
    BY <1>1, <2>1 DEF NewSocket, SocketSet
<1>3. Inside(s)
  BY <1>0, <1>2 DEF Inside
<1>4. \A x \in Ends : sock[x] = s /\ net[x] = <<>> /\ queue[x] = <<>> /\ sent[x] = 0 /\ got[x] = <<>>
  BY <1>1 DEF Init
<1>5. \A x \in Ends : Numbered(<<>>)
  BY DEF Numbered
<1>6. StreamTypes
  BY <1>0, <1>2, <1>3, <1>4, <1>5 DEF Init, StreamTypes
<1>7. Carried(s, <<>>, <<>>, 0, 0)
  <2>1. Off(0) = 0
    BY <1>0 DEF Off
  <2>2. Unsent(s) = <<>>
    BY <1>2 DEF Unsent
  <2>3. \A p : Segment(<<>>, p)
    BY DEF Segment
  <2> QED
    BY <1>2, <2>1, <2>2, <2>3 DEF Carried
<1>8. Directions
  BY <1>2, <1>4, <1>7, TwoEnds DEF Directions
<1>9. Waiting
  BY <1>4, TwoEnds DEF Waiting
<1> QED
  BY <1>6, <1>8, <1>9 DEF StreamInv

-------------------------------------------------------------------------------
(* The steps                                                                  *)

LEMMA FlushWriteInv ==
    ASSUME StreamInv, NEW x \in Ends, FlushWrite(x)
    PROVE  StreamInv'
<1>1. PICK n \in 1 .. Min({sock[x].unsent, KernelCapacity - Len(net[x])}) :
         /\ net' = [net EXCEPT ![x] = net[x] \o SubSeq(Unsent(sock[x]), 1, n)]
         /\ sock' = [sock EXCEPT ![x] = Written(sock[x], n)]
  BY DEF FlushWrite, StreamInv, StreamTypes
<1>2. /\ StreamTypes /\ Directions /\ Waiting /\ sock \in [Ends -> SocketSet] /\ net \in [Ends -> Seq(Pairs)]
      /\ Inside(sock[x]) /\ UNCHANGED <<queue, sent, got>>
  BY DEF FlushWrite, StreamInv, StreamTypes
<1>3. n \in 1 .. sock[x].unsent
  <2>1. PICK a \in Int : a = sock[x].unsent
    BY <1>2 DEF Inside, SocketSet
  <2>2. PICK b \in Int : b = KernelCapacity - Len(net[x])
    BY <1>2, TcpStreamAssumption
  <2>3. Min({a, b}) \in {a, b} /\ Min({a, b}) <= a
    BY MinPair
  <2> QED
    BY <1>1, <2>1, <2>2, <2>3
<1>4. PICK s : s = Written(sock[x], n)
  OBVIOUS
<1>5. Inside(s) /\ s \in SocketSet /\ s.in = sock[x].in
  BY <1>2, <1>3, <1>4, WrittenSocket DEF Inside
<1>6. PICK w : w = net[x] \o SubSeq(Unsent(sock[x]), 1, n)
  OBVIOUS
<1>7. Carried(s, w, sock[Other(x)].in, Len(got[Other(x)]), sent[x])
  BY <1>2, <1>3, <1>4, <1>6, CarryWrite DEF Directions
<1>8. w \in Seq(Pairs)
  BY <1>7 DEF Carried, Segment
<1>9. /\ sock' = [sock EXCEPT ![x] = s] /\ net' = [net EXCEPT ![x] = w]
      /\ sock'[x] = s /\ net'[x] = w /\ sock'[Other(x)] = sock[Other(x)] /\ net'[Other(x)] = net[Other(x)]
  BY <1>1, <1>2, <1>4, <1>6, TwoEnds
<1>10. StreamTypes'
  <2>1. sock' \in [Ends -> SocketSet] /\ net' \in [Ends -> Seq(Pairs)]
    BY <1>2, <1>5, <1>8, <1>9
  <2>2. \A y \in Ends : Inside(sock'[y])
    BY <1>2, <1>5, <1>9 DEF StreamTypes
  <2> QED
    BY <1>2, <2>1, <2>2 DEF StreamTypes
<1>11. Directions'
  <2> SUFFICES ASSUME NEW y \in Ends
               PROVE  Carried(sock'[y], net'[y], sock'[Other(y)].in, Len(got'[Other(y)]), sent'[y])
    BY DEF Directions
  <2>1. CASE y = x
    BY <1>2, <1>7, <1>9, <2>1
  <2>2. CASE y = Other(x)
    <3>1. Other(y) = x /\ sock'[Other(y)].in = sock[Other(y)].in
      BY <1>5, <1>9, <2>2, TwoEnds
    <3> QED
      BY <1>2, <1>9, <2>2, <3>1 DEF Directions
  <2> QED
    BY <2>1, <2>2, TwoEnds
<1>12. Waiting'
  BY <1>2 DEF Waiting
<1> QED
  BY <1>10, <1>11, <1>12 DEF StreamInv

\* The callback of x is given the bytes in.
Handing(x, in) ==
    /\ x \in Ends /\ Callback(x, in) /\ in \in Seq(Pairs) /\ Len(in) <= Capacity
    /\ Carried(sock[Other(x)], net'[Other(x)], in, Len(got[x]), sent[Other(x)])
    /\ net' \in [Ends -> Seq(Pairs)] /\ net'[x] = net[x] /\ sent' = sent

LEMMA AppendFrames ==
    ASSUME NEW q \in Seq(Nat), NEW fs \in Seq(Nat), NEW b \in Nat, NEW e \in Nat, e = b + Len(q),
           \A i \in 1 .. Len(q) : q[i] = b + i, \A k \in 1 .. Len(fs) : fs[k] = e + k
    PROVE  \A i \in 1 .. Len(q \o fs) : (q \o fs)[i] = b + i
<1>1. PICK m \in Nat : m = Len(q)
  OBVIOUS
<1>2. PICK n \in Nat : n = Len(fs)
  OBVIOUS
<1>3. PICK w : w = q \o fs
  OBVIOUS
<1>4. Len(w) = m + n /\ \A i \in 1 .. m + n : w[i] = IF i <= m THEN q[i] ELSE fs[i - m]
  BY <1>1, <1>2, <1>3, ConcatProperties
<1>5. ASSUME NEW i \in 1 .. m + n PROVE w[i] = b + i
  <2>1. CASE i <= m
    BY <1>1, <1>4, <2>1
  <2>2. CASE ~(i <= m)
    <3>1. i - m \in 1 .. n /\ (b + m) + (i - m) = b + i
      BY <2>2
    <3>2. w[i] = fs[i - m]
      BY <1>4, <2>2
    <3>3. fs[i - m] = e + (i - m)
      BY <1>2, <3>1
    <3> QED
      BY <1>1, <3>1, <3>2, <3>3
  <2> QED
    BY <2>1, <2>2
<1> QED
  BY <1>3, <1>4, <1>5

LEMMA HandingInv ==
    ASSUME StreamInv, NEW x, NEW in, Handing(x, in)
    PROVE  StreamInv'
<1>1. PICK y \in Ends : y = Other(x) /\ Other(y) = x /\ x # y /\ x \in Ends
  BY TwoEnds DEF Handing
<1>2. /\ StreamTypes /\ Directions /\ Waiting /\ sock \in [Ends -> SocketSet]
      /\ queue \in [Ends -> Seq(Nat)] /\ got \in [Ends -> Seq(Nat)]
      /\ queue[x] \in Seq(Nat) /\ got[x] \in Seq(Nat) /\ Len(queue[x]) <= QueueCapacity
      /\ Inside(sock[x]) /\ Inside(sock[y]) /\ Numbered(got[x])
  BY <1>1 DEF StreamInv, StreamTypes
<1>3. PICK done \in Nat : done = Len(got[x])
  BY <1>2, LenProperties
<1>4. Carried(sock[y], net'[y], in, done, sent[y]) /\ Segment(in, Off(done))
  BY <1>1, <1>3 DEF Handing, Carried
<1>5. PICK c : c = Cut(x, in)
  OBVIOUS
<1>6. PICK n \in Nat : CutInto(c, in, done, n) /\ Len(queue[x]) + n <= QueueCapacity
  BY <1>2, <1>4, <1>5, CutFrames
<1>7. PICK fs : fs = c.frames
  OBVIOUS
<1>8. PICK r : r = c.rest
  OBVIOUS
<1>9. fs \in Seq(Nat) /\ Len(fs) = n /\ \A k \in 1 .. n : fs[k] = done + k
  BY <1>6, <1>7 DEF CutInto
<1>10. Carried(sock[y], net'[y], r, done + n, sent[y]) /\ Len(r) <= Len(in)
  BY <1>2, <1>4, <1>6, <1>8, CarryCut
<1>11. r \in Seq(Pairs) /\ Len(r) <= Capacity
  <2>1. r \in Seq(Pairs) /\ Len(r) \in Nat
    BY <1>10 DEF Carried, Segment
  <2>2. Len(in) \in Nat /\ Len(in) <= Capacity /\ Capacity \in Nat
    BY TcpStreamAssumption DEF Handing
  <2> QED
    BY <1>10, <2>1, <2>2
<1>12. /\ sock' = [sock EXCEPT ![x].in = r]
       /\ queue' = [queue EXCEPT ![x] = queue[x] \o fs]
       /\ got' = [got EXCEPT ![x] = got[x] \o fs]
  BY <1>1, <1>2, <1>5, <1>7, <1>8 DEF Handing, Callback
<1>13. /\ queue'[x] = queue[x] \o fs /\ got'[x] = got[x] \o fs
       /\ queue'[y] = queue[y] /\ got'[y] = got[y] /\ sock'[y] = sock[y]
       /\ sock'[x] = [sock[x] EXCEPT !.in = r]
  BY <1>1, <1>2, <1>12
<1>14. /\ queue[x] \o fs \in Seq(Nat) /\ got[x] \o fs \in Seq(Nat)
       /\ Len(queue[x] \o fs) = Len(queue[x]) + n /\ Len(got[x] \o fs) = done + n
  BY <1>2, <1>3, <1>9, ConcatProperties
<1>15. /\ sock'[x] \in SocketSet /\ sock'[x].in = r /\ sock'[x].out = sock[x].out
       /\ sock'[x].begin = sock[x].begin /\ sock'[x].unsent = sock[x].unsent
  BY <1>1, <1>2, <1>11, <1>13 DEF SocketSet
<1>16. Inside(sock'[x])
  BY <1>2, <1>11, <1>15 DEF Inside
<1>17. Numbered(got'[x])
  <2>1. PICK q \in Seq(Nat) : q = got[x]
    BY <1>2
  <2>2. \A i \in 1 .. Len(q) : q[i] = 0 + i
    BY <1>2, <2>1 DEF Numbered
  <2>3. done = 0 + Len(q)
    BY <1>3, <2>1
  <2>4. \A i \in 1 .. Len(q \o fs) : (q \o fs)[i] = 0 + i
    BY <1>9, <2>2, <2>3, AppendFrames
  <2>5. PICK w \in Seq(Nat) : w = q \o fs
    BY <1>14, <2>1
  <2>6. \A i \in 1 .. Len(w) : w[i] = i
    BY <2>4, <2>5
  <2>7. got'[x] = w
    BY <1>13, <2>1, <2>5
  <2> QED
    BY <2>6, <2>7 DEF Numbered
<1>18. StreamTypes'
  <2>1. sock' \in [Ends -> SocketSet] /\ queue' \in [Ends -> Seq(Nat)] /\ got' \in [Ends -> Seq(Nat)]
    <3>1. \A e \in Ends : e = x \/ e = y
      BY <1>1, TwoEnds
    <3>2. sock' \in [Ends -> SocketSet]
      BY <1>1, <1>2, <1>12, <1>13, <1>15
    <3> QED
      BY <1>1, <1>2, <1>12, <1>14, <3>2
  <2>2. \A e \in Ends : e = x \/ e = y
    BY <1>1, TwoEnds
  <2>3. \A e \in Ends : Inside(sock'[e]) /\ Len(queue'[e]) <= QueueCapacity /\ Numbered(got'[e])
    BY <1>2, <1>6, <1>13, <1>14, <1>16, <1>17, <2>2 DEF StreamTypes
  <2> QED
    BY <1>2, <2>1, <2>3 DEF StreamTypes, Handing
<1>19. Directions'
  <2> SUFFICES ASSUME NEW e \in Ends
               PROVE  Carried(sock'[e], net'[e], sock'[Other(e)].in, Len(got'[Other(e)]), sent'[e])
    BY DEF Directions
  <2>1. CASE e = y
    BY <1>1, <1>10, <1>13, <1>14, <1>15, <2>1 DEF Handing
  <2>2. CASE e = x
    <3>1. Carried(sock[x], net[x], sock[y].in, Len(got[y]), sent[x])
      BY <1>1, <1>2 DEF Directions
    <3>2. Carried(sock'[x], net[x], sock[y].in, Len(got[y]), sent[x])
      BY <1>2, <1>15, <3>1, CarrySame
    <3> QED
      BY <1>1, <1>13, <2>2, <3>2 DEF Handing
  <2> QED
    BY <1>1, <2>1, <2>2, TwoEnds
<1>20. Waiting'
  <2>1. CASE x = "server"
    <3>1. PICK b \in Nat : b = sent["server"]
      BY <1>2, TwoEnds DEF StreamTypes
    <3>2. PICK q \in Seq(Nat) : q = queue[x]
      BY <1>2
    <3>3. done = b + Len(q) /\ \A i \in 1 .. Len(q) : q[i] = b + i
      BY <1>2, <1>3, <2>1, <3>1, <3>2 DEF Waiting
    <3>4. \A i \in 1 .. Len(q \o fs) : (q \o fs)[i] = b + i
      BY <1>9, <3>3, AppendFrames
    <3>5. Len(got'[x]) = b + Len(queue'[x])
      <4>1. PICK l \in Nat : l = Len(q)
        OBVIOUS
      <4>2. Len(got'[x]) = done + n /\ Len(queue'[x]) = l + n /\ done = b + l
        BY <1>13, <1>14, <3>2, <3>3, <4>1
      <4> QED
        BY <4>2
    <3> QED
      BY <1>13, <2>1, <3>1, <3>2, <3>4, <3>5 DEF Waiting, Handing
  <2>2. CASE x # "server"
    <3>1. y = "server"
      BY <1>1, <2>2, TwoEnds
    <3> QED
      BY <1>2, <1>13, <3>1 DEF Waiting, Handing
  <2> QED
    BY <2>1, <2>2
<1> QED
  BY <1>18, <1>19, <1>20 DEF StreamInv

LEMMA RetryInv ==
    ASSUME StreamInv, NEW x \in Ends, Retry(x)
    PROVE  StreamInv'
<1>1. PICK y \in Ends : y = Other(x) /\ Other(y) = x
  BY TwoEnds
<1>2. Carried(sock[y], net[y], sock[x].in, Len(got[x]), sent[y])
  BY <1>1 DEF StreamInv, Directions
<1>3. sock[x].in \in Seq(Pairs) /\ Len(sock[x].in) <= Capacity /\ net \in [Ends -> Seq(Pairs)]
  BY DEF StreamInv, StreamTypes, Inside, SocketSet
<1>4. Handing(x, sock[x].in)
  BY <1>1, <1>2, <1>3 DEF Retry, Handing
<1> QED
  BY <1>4, HandingInv

LEMMA RecvReadInv ==
    ASSUME StreamInv, NEW x \in Ends, RecvRead(x)
    PROVE  StreamInv'
<1>1. PICK y \in Ends : y = Other(x) /\ Other(y) = x /\ x # y
  BY TwoEnds
<1>2. /\ Carried(sock[y], net[y], sock[x].in, Len(got[x]), sent[y])
      /\ sock[x].in \in Seq(Pairs) /\ net \in [Ends -> Seq(Pairs)] /\ Inside(sock[y])
      /\ Len(sock[x].in) <= Capacity
  BY <1>1 DEF StreamInv, StreamTypes, Directions, Inside, SocketSet
<1>3. PICK n \in 1 .. Min({Len(net[y]), Capacity - Len(sock[x].in)}) :
         /\ Callback(x, sock[x].in \o SubSeq(net[y], 1, n))
         /\ net' = [net EXCEPT ![y] = SubSeq(net[y], n + 1, Len(net[y]))]
  BY <1>1, <1>2 DEF RecvRead
<1>4. n \in 1 .. Len(net[y]) /\ n <= Capacity - Len(sock[x].in)
  <2>1. PICK a \in Int : a = Len(net[y])
    BY <1>2
  <2>2. PICK b \in Int : b = Capacity - Len(sock[x].in)
    BY <1>2, TcpStreamAssumption
  <2>3. Min({a, b}) \in {a, b} /\ Min({a, b}) <= a /\ Min({a, b}) <= b
    BY MinPair
  <2> QED
    BY <1>3, <2>1, <2>2, <2>3
<1>5. PICK in : in = sock[x].in \o SubSeq(net[y], 1, n)
  OBVIOUS
<1>6. PICK w : w = SubSeq(net[y], n + 1, Len(net[y]))
  OBVIOUS
<1>7. Carried(sock[y], w, in, Len(got[x]), sent[y]) /\ Len(in) = Len(sock[x].in) + n
  BY <1>2, <1>4, <1>5, <1>6, CarryRead
<1>8. in \in Seq(Pairs) /\ w \in Seq(Pairs)
  BY <1>7 DEF Carried, Segment
<1>9. Len(in) <= Capacity
  <2>1. PICK l \in Nat : l = Len(sock[x].in)
    BY <1>2
  <2>2. Capacity \in Nat
    BY TcpStreamAssumption
  <2> QED
    BY <1>4, <1>7, <2>1, <2>2
<1>10. net' \in [Ends -> Seq(Pairs)] /\ net'[y] = w /\ net'[x] = net[x]
  BY <1>1, <1>2, <1>3, <1>6, <1>8
<1>11. Handing(x, in)
  BY <1>1, <1>3, <1>5, <1>7, <1>8, <1>9, <1>10 DEF RecvRead, Handing
<1> QED
  BY <1>11, HandingInv

\* x sends its next frame; only the server takes it from a queue.
Sending(x, q) ==
    /\ x \in Ends /\ SendStatus(sock[x]) = "Accepted"
    /\ sock' = [sock EXCEPT ![x] = Send(sock[x], Frame(sent[x] + 1))]
    /\ sent' = [sent EXCEPT ![x] = sent[x] + 1]
    /\ queue' = [queue EXCEPT !["server"] = q]
    /\ UNCHANGED <<net, got>>

LEMMA SendingInv ==
    ASSUME StreamInv, NEW x, NEW q \in Seq(Nat), Sending(x, q), Len(q) <= QueueCapacity,
           Len(got["server"]) = sent'["server"] + Len(q),
           \A i \in 1 .. Len(q) : q[i] = sent'["server"] + i
    PROVE  StreamInv'
<1>1. PICK y \in Ends : y = Other(x) /\ Other(y) = x /\ x # y /\ x \in Ends
  BY TwoEnds DEF Sending
<1>2. /\ StreamTypes /\ Directions /\ sock \in [Ends -> SocketSet] /\ queue \in [Ends -> Seq(Nat)]
      /\ sent \in [Ends -> Nat] /\ Inside(sock[x]) /\ sent[x] \in Nat
      /\ Carried(sock[x], net[x], sock[y].in, Len(got[y]), sent[x])
  BY <1>1 DEF StreamInv, StreamTypes, Directions
<1>3. FrameSize <= Capacity - sock[x].unsent
  <2>1. ~(FrameSize > Capacity - sock[x].unsent)
    BY DEF Sending, SendStatus
  <2>2. Capacity \in Nat /\ FrameSize \in Nat /\ sock[x].unsent \in Nat
    BY <1>2, TcpStreamAssumption DEF Inside, SocketSet
  <2> QED
    BY <2>1, <2>2
<1>4. PICK s : s = Send(sock[x], Frame(sent[x] + 1))
  OBVIOUS
<1>5. /\ Carried(s, net[x], sock[y].in, Len(got[y]), sent[x] + 1)
      /\ Inside(s) /\ s.in = sock[x].in /\ s \in SocketSet
  <2>1. PICK o : o = sock[x]
    OBVIOUS
  <2>2. PICK a : a = sent[x]
    OBVIOUS
  <2>3. /\ Carried(Send(o, Frame(a + 1)), net[x], sock[y].in, Len(got[y]), a + 1)
        /\ Inside(Send(o, Frame(a + 1))) /\ Send(o, Frame(a + 1)).in = o.in
    BY <1>2, <1>3, <2>1, <2>2, CarrySend
  <2>4. s \in SocketSet
    BY <1>4, <2>1, <2>2, <2>3 DEF Inside
  <2> QED
    BY <1>4, <2>1, <2>2, <2>3, <2>4
<1>6. /\ sock' = [sock EXCEPT ![x] = s] /\ sock'[x] = s /\ sock'[y] = sock[y]
      /\ sent'[x] = sent[x] + 1 /\ sent'[y] = sent[y] /\ net' = net /\ got' = got
      /\ queue' = [queue EXCEPT !["server"] = q] /\ queue'["server"] = q
      /\ sent' \in [Ends -> Nat]
  BY <1>1, <1>2, <1>4, TwoEnds DEF Sending
<1>7. \A e \in Ends : e = x \/ e = y
  BY <1>1, TwoEnds
<1>8. StreamTypes'
  <2>1. sock' \in [Ends -> SocketSet] /\ queue' \in [Ends -> Seq(Nat)]
    BY <1>2, <1>5, <1>6
  <2>2. \A e \in Ends : Inside(sock'[e])
    BY <1>2, <1>5, <1>6, <1>7 DEF StreamTypes
  <2>3. \A e \in Ends : Len(queue'[e]) <= QueueCapacity
    BY <1>2, <1>6, TwoEnds DEF StreamTypes
  <2> QED
    BY <1>2, <1>6, <2>1, <2>2, <2>3 DEF StreamTypes
<1>9. Directions'
  <2> SUFFICES ASSUME NEW e \in Ends
               PROVE  Carried(sock'[e], net'[e], sock'[Other(e)].in, Len(got'[Other(e)]), sent'[e])
    BY DEF Directions
  <2>1. CASE e = x
    BY <1>1, <1>5, <1>6, <2>1
  <2>2. CASE e = y
    BY <1>1, <1>2, <1>5, <1>6, <2>2 DEF Directions
  <2> QED
    BY <1>7, <2>1, <2>2
<1>10. Waiting'
  BY <1>6 DEF Waiting
<1> QED
  BY <1>8, <1>9, <1>10 DEF StreamInv

LEMMA RequestInv == ASSUME StreamInv, Request PROVE StreamInv'
<1>1. PICK q \in Seq(Nat) : q = queue["server"] /\ Len(q) <= QueueCapacity
  BY TwoEnds DEF StreamInv, StreamTypes
<1>2. sent \in [Ends -> Nat] /\ queue \in [Ends -> Seq(Nat)]
  BY DEF StreamInv, StreamTypes
<1>3. queue = [queue EXCEPT !["server"] = q]
  BY <1>1, <1>2
<1>4. Sending("client", q)
  BY <1>1, <1>2, <1>3, TwoEnds DEF Request, Sending, StreamInv, StreamTypes
<1>5. sent'["server"] = sent["server"]
  BY <1>2, TwoEnds DEF Request
<1>6. Len(got["server"]) = sent'["server"] + Len(q) /\ \A i \in 1 .. Len(q) : q[i] = sent'["server"] + i
  BY <1>1, <1>5 DEF StreamInv, Waiting
<1> QED
  BY <1>1, <1>4, <1>6, SendingInv

LEMMA RespondInv == ASSUME StreamInv, Respond PROVE StreamInv'
<1>1. PICK o \in Seq(Nat) : o = queue["server"] /\ Len(o) <= QueueCapacity /\ o # <<>>
  BY TwoEnds DEF StreamInv, StreamTypes, Respond
<1>2. PICK q \in Seq(Nat) : q = Tail(o)
  BY <1>1, HeadTailProperties
<1>3. PICK n \in Nat : n = Len(o) /\ n >= 1 /\ Len(q) = n - 1 /\ n <= QueueCapacity
  BY <1>1, <1>2
<1>4. \A i \in 1 .. n - 1 : q[i] = o[i + 1]
  BY <1>1, <1>2, <1>3
<1>5. sent \in [Ends -> Nat] /\ queue \in [Ends -> Seq(Nat)] /\ sock \in [Ends -> SocketSet]
  BY DEF StreamInv, StreamTypes
<1>6. PICK b \in Nat : b = sent["server"]
  BY <1>5, TwoEnds
<1>7. Len(got["server"]) = b + n /\ \A i \in 1 .. n : o[i] = b + i
  BY <1>1, <1>3, <1>6 DEF StreamInv, Waiting
<1>8. Head(o) = b + 1
  <2>1. Head(o) = o[1] /\ 1 \in 1 .. n
    BY <1>1, <1>3
  <2> QED
    BY <1>7, <2>1
<1>9. Sending("server", q)
  BY <1>1, <1>2, <1>5, <1>6, <1>8, TwoEnds DEF Respond, Sending
<1>10. sent'["server"] = b + 1
  BY <1>5, <1>6, TwoEnds DEF Respond
<1>11. Len(got["server"]) = sent'["server"] + Len(q) /\ Len(q) <= QueueCapacity
  <2>1. QueueCapacity \in Nat
    BY TcpStreamAssumption
  <2> QED
    BY <1>3, <1>7, <1>10, <2>1
<1>12. ASSUME NEW i \in 1 .. Len(q) PROVE q[i] = sent'["server"] + i
  <2>1. i \in 1 .. n - 1 /\ i + 1 \in 1 .. n /\ b + (i + 1) = (b + 1) + i
    BY <1>3
  <2> QED
    BY <1>4, <1>7, <1>10, <2>1
<1> QED
  BY <1>9, <1>11, <1>12, SendingInv

LEMMA QuietInv ==
    ASSUME StreamInv,
           \/ ConnectThis \/ ConnectOther \/ PollAccepts \/ PollNothing \/ Take \/ Die \/ UNCHANGED vars
           \/ \E x \in Ends : \/ FlushDone(x) \/ FlushError(x) \/ FlushRefused(x)
                              \/ RecvDone(x) \/ RecvClosed(x) \/ NextRound(x)
    PROVE  StreamInv'
<1>1. /\ sock \in [Ends -> SocketSet] /\ queue \in [Ends -> Seq(Nat)]
      /\ \A x \in Ends : Len(queue[x]) <= QueueCapacity
  BY DEF StreamInv, StreamTypes
<1>2. CASE Take
  <2>1. PICK o \in Seq(Nat) : o = queue["client"] /\ Len(o) <= QueueCapacity /\ o # <<>>
    BY <1>1, <1>2, TwoEnds DEF Take
  <2>2. Tail(o) \in Seq(Nat) /\ Len(Tail(o)) = Len(o) - 1 /\ Len(o) \in Nat
    BY <2>1, HeadTailProperties
  <2>3. QueueCapacity \in Nat
    BY TcpStreamAssumption
  <2>4. /\ queue' \in [Ends -> Seq(Nat)] /\ queue'["server"] = queue["server"]
        /\ Len(queue'["client"]) <= QueueCapacity
    BY <1>1, <1>2, <2>1, <2>2, <2>3, TwoEnds DEF Take
  <2>5. StreamKept
    BY <1>1, <1>2, <2>4 DEF Take, StreamKept
  <2> QED
    BY <2>5, KeptInv
<1>3. CASE \E x \in Ends : FlushError(x) \/ RecvClosed(x)
  <2>1. PICK x \in Ends, state \in {"PeerClosed", "Error"} : sock' = [sock EXCEPT ![x].state = state]
    BY <1>3 DEF FlushError, RecvClosed
  <2>2. UNCHANGED <<net, sent, got, queue>>
    BY <1>3 DEF FlushError, RecvClosed
  <2>3. sock' \in [Ends -> SocketSet]
    BY <1>1, <2>1 DEF SocketSet
  <2>4. \A y \in Ends : /\ sock'[y].out = sock[y].out /\ sock'[y].begin = sock[y].begin
                        /\ sock'[y].unsent = sock[y].unsent /\ sock'[y].in = sock[y].in
    BY <1>1, <2>1 DEF SocketSet
  <2>5. StreamKept
    BY <1>1, <2>2, <2>3, <2>4, TwoEnds DEF StreamKept
  <2> QED
    BY <2>5, KeptInv
<1>4. CASE UNCHANGED <<sock, net, queue, sent, got>>
  <2>1. StreamKept
    BY <1>1, <1>4, TwoEnds DEF StreamKept
  <2> QED
    BY <2>1, KeptInv
<1>5. ConnectThis \/ ConnectOther \/ PollAccepts \/ PollNothing \/ Die \/ UNCHANGED vars
         => UNCHANGED <<sock, net, queue, sent, got>>
  BY DEF ConnectThis, ConnectOther, PollAccepts, PollNothing, Die, vars, streamVars
<1>6. ASSUME NEW x \in Ends, FlushDone(x) \/ FlushRefused(x) \/ RecvDone(x) \/ NextRound(x)
      PROVE  UNCHANGED <<sock, net, queue, sent, got>>
  BY <1>6 DEF FlushDone, FlushRefused, RecvDone, NextRound
<1> QED
  BY <1>2, <1>3, <1>4, <1>5, <1>6

\* StreamInv is inductive.
THEOREM StreamInductive == Spec => []StreamInv
<1>1. ASSUME StreamInv, [Next]_vars PROVE StreamInv'
  <2>1. CASE \E x \in Ends : SendAndRecv(x)
    <3>1. PICK x \in Ends : SendAndRecv(x)
      BY <2>1
    <3>2. CASE FlushWrite(x)
      BY <1>1, <3>2, FlushWriteInv
    <3>3. CASE Retry(x)
      BY <1>1, <3>3, RetryInv
    <3>4. CASE RecvRead(x)
      BY <1>1, <3>4, RecvReadInv
    <3>5. CASE \/ FlushDone(x) \/ FlushError(x) \/ FlushRefused(x)
               \/ RecvDone(x) \/ RecvClosed(x) \/ NextRound(x)
      BY <1>1, <3>5, QuietInv
    <3> QED
      BY <3>1, <3>2, <3>3, <3>4, <3>5 DEF SendAndRecv
  <2>2. CASE Request
    BY <1>1, <2>2, RequestInv
  <2>3. CASE Respond
    BY <1>1, <2>3, RespondInv
  <2>4. CASE \/ ConnectThis \/ ConnectOther \/ PollAccepts \/ PollNothing \/ Take \/ Die
             \/ UNCHANGED vars
    BY <1>1, <2>4, QuietInv
  <2> QED
    BY <1>1, <2>1, <2>2, <2>3, <2>4, TwoEnds DEF Next, Gateway, Server
<1> QED
  BY InitStream, <1>1, PTL DEF Spec

\* Whatever the writes and reads of TCPSocket cut the stream into, and however
\* full the buffers and queues are, the frames that send() accepted are handed on
\* in order, and every byte not yet handed on is in its place.
THEOREM StreamStaysIntact == Spec => []StreamIntact
<1>1. ASSUME StreamInv PROVE StreamIntact
  <2> SUFFICES ASSUME NEW x \in Ends, NEW y, y = Other(x), NEW done, done = Len(got[y])
               PROVE  /\ sock[x].begin + sock[x].unsent <= Capacity /\ Len(sock[x].in) <= Capacity
                      /\ got[y] = [i \in 1 .. done |-> i]
                      /\ sock[y].in \o net[x] \o Unsent(sock[x]) = Frames(done + 1, sent[x])
    BY Zenon DEF StreamIntact
  <2>1. /\ Inside(sock[x]) /\ y \in Ends /\ Numbered(got[y])
        /\ Carried(sock[x], net[x], sock[y].in, done, sent[x])
    BY <1>1, TwoEnds DEF StreamInv, StreamTypes, Directions
  <2>2. sock[x].begin + sock[x].unsent <= Capacity /\ Len(sock[x].in) <= Capacity
    BY <2>1 DEF Inside
  <2>3. got[y] = [i \in 1 .. done |-> i]
    <3>1. PICK q : q = got[y]
      OBVIOUS
    <3>2. q \in Seq(Nat) /\ done = Len(q) /\ \A i \in 1 .. done : q[i] = i
      BY <2>1, <3>1 DEF Numbered
    <3>3. q = [i \in 1 .. done |-> q[i]]
      BY <3>2
    <3> QED
      BY <3>1, <3>2, <3>3, Zenon
  <2>4. PICK in : in = sock[y].in
    OBVIOUS
  <2>5. PICK n : n = net[x]
    OBVIOUS
  <2>6. PICK s : s = sock[x]
    OBVIOUS
  <2>7. PICK a : a = sent[x]
    OBVIOUS
  <2>8. Inside(s) /\ Carried(s, n, in, done, a)
    BY <2>1, <2>4, <2>5, <2>6, <2>7
  <2>9. /\ done \in Nat /\ a \in Nat /\ Off(done) \in Nat /\ Off(a) \in Nat
        /\ Len(in) \in Nat /\ Len(n) \in Nat /\ s.unsent \in Nat /\ Len(Unsent(s)) = s.unsent
        /\ Off(done) + Len(in) + Len(n) + s.unsent = Off(a)
    BY <2>8, CarriedTypes
  <2>10. PICK o \in Nat : o = Off(done)
    BY <2>9
  <2>11. Segment(in, o) /\ Segment(n, o + Len(in)) /\ Segment(Unsent(s), o + Len(in) + Len(n))
    BY <2>8, <2>10 DEF Carried
  <2>12. PICK v : v = in \o n
    OBVIOUS
  <2>13. Segment(v, o) /\ Len(v) = Len(in) + Len(n)
    BY <2>11, <2>12, SegmentConcat
  <2>14. o + Len(v) = o + Len(in) + Len(n)
    BY <2>9, <2>13
  <2>15. Segment(v \o Unsent(s), o) /\ Len(v \o Unsent(s)) = Len(v) + Len(Unsent(s))
    BY <2>11, <2>13, <2>14, SegmentConcat
  <2>16. o + Len(v \o Unsent(s)) = Off(a)
    <3>1. PICK l \in Nat : l = Len(in)
      BY <2>9
    <3>2. PICK m \in Nat : m = Len(n)
      BY <2>9
    <3>3. PICK k \in Nat : k = s.unsent
      BY <2>9
    <3>4. o + l + m + k = Off(a) /\ Len(v \o Unsent(s)) = (l + m) + k
      BY <2>9, <2>10, <2>13, <2>15, <3>1, <3>2, <3>3
    <3>5. o + ((l + m) + k) = o + l + m + k
      OBVIOUS
    <3> QED
      BY <3>4, <3>5
  <2>17. v \o Unsent(s) = Frames(done + 1, a)
    BY <2>9, <2>10, <2>15, <2>16, SegmentFrames
  <2> QED
    BY <2>2, <2>3, <2>4, <2>5, <2>6, <2>7, <2>12, <2>17
<1> QED
  BY StreamInductive, <1>1, PTL
===============================================================================
