----------------------------- MODULE LFQueueProofs -----------------------------
(* Proofs about LFQueue for every capacity, element set and set of batches.   *)
EXTENDS LFQueue, SequenceTheorems, TLAPS

(***************************************************************************)
(* Cursor arithmetic without the modulus.                                  *)
(***************************************************************************)
\* Advance(), the masked addition of next(), is addition with at most one
\* subtraction of the modulus, and yields a cursor.
LEMMA AdvanceLemma ==
    ASSUME NEW i \in Cursors, NEW n \in 0 .. Capacity
    PROVE  /\ Advance(i, n) = IF i + n >= 2 * Capacity THEN i + n - 2 * Capacity ELSE i + n
           /\ Advance(i, n) \in Cursors
BY CapacityAssumption DEF Advance, Cursors

\* distance(), the masked difference, likewise.
LEMMA DistanceLemma ==
    ASSUME NEW to \in Cursors, NEW from \in Cursors
    PROVE  /\ Distance(to, from) = IF to >= from THEN to - from ELSE to + 2 * Capacity - from
           /\ Distance(to, from) \in Cursors
BY CapacityAssumption DEF Distance, Cursors

\* i & mask_ is a slot of store_, at most one subtraction of Capacity away.
LEMMA SlotLemma ==
    ASSUME NEW i \in Cursors
    PROVE  /\ Slot(i) = IF i >= Capacity THEN i - Capacity ELSE i
           /\ Slot(i) \in Slots
BY CapacityAssumption DEF Slot, Slots, Cursors

\* Advancing a cursor moves it n away from where it was ...
LEMMA AdvanceDistance ==
    ASSUME NEW i \in Cursors, NEW from \in Cursors, NEW n \in 0 .. Capacity,
           Distance(i, from) + n < 2 * Capacity
    PROVE  Distance(Advance(i, n), from) = Distance(i, from) + n
<1> DEFINE j == Advance(i, n)
<1>1. j \in Cursors /\ j = IF i + n >= 2 * Capacity THEN i + n - 2 * Capacity ELSE i + n
  BY AdvanceLemma
<1>2. Distance(i, from) = IF i >= from THEN i - from ELSE i + 2 * Capacity - from
  BY DistanceLemma
<1> HIDE DEF j
<1>3. Distance(j, from) = IF j >= from THEN j - from ELSE j + 2 * Capacity - from
  BY <1>1, DistanceLemma
<1>4. Distance(j, from) = Distance(i, from) + n
  BY <1>1, <1>2, <1>3, CapacityAssumption DEF Cursors
<1> QED
  BY <1>4 DEF j

\* ... and n nearer to any cursor at least n ahead of it.
LEMMA AdvanceFrom ==
    ASSUME NEW to \in Cursors, NEW i \in Cursors, NEW n \in 0 .. Capacity,
           n <= Distance(to, i)
    PROVE  Distance(to, Advance(i, n)) = Distance(to, i) - n
<1> DEFINE j == Advance(i, n)
<1>1. j \in Cursors /\ j = IF i + n >= 2 * Capacity THEN i + n - 2 * Capacity ELSE i + n
  BY AdvanceLemma
<1>2. Distance(to, i) = IF to >= i THEN to - i ELSE to + 2 * Capacity - i
  BY DistanceLemma
<1> HIDE DEF j
<1>3. Distance(to, j) = IF to >= j THEN to - j ELSE to + 2 * Capacity - j
  BY <1>1, DistanceLemma
<1>4. Distance(to, j) = Distance(to, i) - n
  BY <1>1, <1>2, <1>3, CapacityAssumption DEF Cursors
<1> QED
  BY <1>4 DEF j

\* Two advances compose.
LEMMA AdvanceAdvance ==
    ASSUME NEW i \in Cursors, NEW m \in 0 .. Capacity, NEW n \in 0 .. Capacity,
           m + n <= Capacity
    PROVE  Advance(Advance(i, m), n) = Advance(i, m + n)
<1> DEFINE j == Advance(i, m)
<1>1. j \in Cursors /\ j = IF i + m >= 2 * Capacity THEN i + m - 2 * Capacity ELSE i + m
  BY AdvanceLemma
<1>2. m + n \in 0 .. Capacity
  BY CapacityAssumption
<1>3. Advance(i, m + n) = IF i + (m + n) >= 2 * Capacity THEN i + (m + n) - 2 * Capacity
                          ELSE i + (m + n)
  BY <1>2, AdvanceLemma
<1> HIDE DEF j
<1>4. Advance(j, n) = IF j + n >= 2 * Capacity THEN j + n - 2 * Capacity ELSE j + n
  BY <1>1, AdvanceLemma
<1>5. Advance(j, n) = Advance(i, m + n)
  BY <1>1, <1>3, <1>4, CapacityAssumption DEF Cursors
<1> QED
  BY <1>5 DEF j

\* Cursors less than Capacity apart are in different slots.
LEMMA SlotInjective ==
    ASSUME NEW i \in Cursors, NEW m \in 0 .. Capacity - 1, NEW n \in 0 .. Capacity - 1,
           Slot(Advance(i, m)) = Slot(Advance(i, n))
    PROVE  m = n
<1> DEFINE j == Advance(i, m)
           k == Advance(i, n)
<1>1. m \in 0 .. Capacity /\ n \in 0 .. Capacity
  BY CapacityAssumption
<1>2. j \in Cursors /\ j = IF i + m >= 2 * Capacity THEN i + m - 2 * Capacity ELSE i + m
  BY <1>1, AdvanceLemma
<1>3. k \in Cursors /\ k = IF i + n >= 2 * Capacity THEN i + n - 2 * Capacity ELSE i + n
  BY <1>1, AdvanceLemma
<1>4. Slot(j) = Slot(k)
  OBVIOUS
<1> HIDE DEF j, k
<1>5. Slot(j) = IF j >= Capacity THEN j - Capacity ELSE j
  BY <1>2, SlotLemma
<1>6. Slot(k) = IF k >= Capacity THEN k - Capacity ELSE k
  BY <1>3, SlotLemma
<1> QED
  BY <1>1, <1>2, <1>3, <1>4, <1>5, <1>6, CapacityAssumption DEF Cursors

\* What ValuesAssumption says of a batch handed to try_push_batch.
LEMMA BatchLemma ==
    ASSUME NEW vs \in Batches
    PROVE  /\ vs \in Seq(Values)
           /\ Len(vs) \in Nat /\ Len(vs) > 0
           /\ \A i \in 1 .. Len(vs) : vs[i] \in Values
BY ValuesAssumption

--------------------------------------------------------------------------------
(***************************************************************************)
(* The inductive invariant.                                                *)
(***************************************************************************)
\* The constructor establishes the invariant.
LEMMA InitIndInv == Init => IndInv
<1> SUFFICES ASSUME Init PROVE IndInv
  OBVIOUS
<1>1. 0 \in Cursors /\ Distance(0, 0) = 0
  <2>1. 0 \in Cursors
    BY CapacityAssumption DEF Cursors
  <2> QED
    BY <2>1, DistanceLemma
<1>2. TypeOK
  BY <1>1, CapacityAssumption DEF Init, TypeOK
<1> QED
  BY <1>1, <1>2, CapacityAssumption
     DEF Init, IndInv, CursorOrder, BatchFits, WatermarkInv

\* The distances the cursors of a state span.
LEMMA DistanceTypes ==
    ASSUME TypeOK
    PROVE  /\ Distance(tail, seenHead) \in 0 .. 2 * Capacity - 1
           /\ Distance(tail, head) \in 0 .. 2 * Capacity - 1
           /\ Distance(seenTail, head) \in 0 .. 2 * Capacity - 1
           /\ Distance(head, seenHead) \in 0 .. 2 * Capacity - 1
           /\ Distance(tail, seenTail) \in 0 .. 2 * Capacity - 1
BY DistanceLemma DEF TypeOK, Cursors

\* The lag of an observed cursor is the difference of the spans.
LEMMA SeenLag ==
    ASSUME TypeOK, CursorOrder
    PROVE  /\ Distance(head, seenHead) = Distance(tail, seenHead) - Distance(tail, head)
           /\ Distance(tail, seenTail) = Distance(tail, head) - Distance(seenTail, head)
<1>1. /\ Distance(tail, seenHead) = IF tail >= seenHead THEN tail - seenHead
                                    ELSE tail + 2 * Capacity - seenHead
      /\ Distance(tail, head) = IF tail >= head THEN tail - head ELSE tail + 2 * Capacity - head
      /\ Distance(head, seenHead) = IF head >= seenHead THEN head - seenHead
                                    ELSE head + 2 * Capacity - seenHead
      /\ Distance(seenTail, head) = IF seenTail >= head THEN seenTail - head
                                    ELSE seenTail + 2 * Capacity - head
      /\ Distance(tail, seenTail) = IF tail >= seenTail THEN tail - seenTail
                                    ELSE tail + 2 * Capacity - seenTail
  BY DistanceLemma DEF TypeOK
<1> QED
  BY <1>1, CapacityAssumption DEF TypeOK, CursorOrder, Cursors

\* Entering try_push or try_push_batch keeps the invariant.
LEMMA PushCallInv ==
    ASSUME IndInv, NEW vs \in Batches, PushCall(vs)
    PROVE  IndInv'
BY DEF PushCall, cvars, IndInv, TypeOK, CursorOrder, BatchFits, WatermarkInv

\* The cursor loads and the room check of a push keep the invariant, whichever
\* head_ the acquire load returns.
LEMMA PushLoadInv ==
    ASSUME IndInv, PushLoad
    PROVE  IndInv'
<1>1. PICK n \in 0 .. Distance(head, seenHead) :
        /\ seenHead' = Advance(seenHead, n)
        /\ IF Len(batch) > Capacity - Distance(tail, seenHead')
           THEN /\ full_count' = full_count + 1
                /\ ppc' = "idle"
                /\ UNCHANGED written
           ELSE /\ ppc' = "write"
                /\ written' = 0
                /\ UNCHANGED full_count
  BY DEF PushLoad
<1>2. UNCHANGED <<head, tail, store, high_watermark, batch, cpc, val, seenTail, got>>
  BY DEF PushLoad, cvars
<1>3. TypeOK /\ CursorOrder
  BY DEF IndInv
<1>4. /\ Distance(head, seenHead) = Distance(tail, seenHead) - Distance(tail, head)
      /\ Distance(tail, seenHead) \in 0 .. 2 * Capacity - 1
      /\ Distance(tail, head) \in 0 .. 2 * Capacity - 1
      /\ Distance(tail, seenHead) <= Capacity
  BY <1>3, SeenLag, DistanceTypes DEF CursorOrder
<1>5. n \in 0 .. Capacity /\ n <= Distance(tail, seenHead)
  BY <1>4, CapacityAssumption
<1>6. seenHead' \in Cursors
  BY <1>1, <1>3, <1>5, AdvanceLemma DEF TypeOK
<1>7. Distance(tail, seenHead') = Distance(tail, seenHead) - n
  BY <1>1, <1>3, <1>5, AdvanceFrom DEF TypeOK
<1>8. /\ Distance(tail, seenHead') <= Capacity
      /\ Distance(tail, head) <= Distance(tail, seenHead')
      /\ Distance(tail, seenHead') \in 0 .. Capacity
  BY <1>4, <1>5, <1>7, CapacityAssumption
<1>9. batch \in Batches /\ Len(batch) \in Nat
  BY <1>3, BatchLemma DEF PushLoad, TypeOK
<1>10. TypeOK'
  BY <1>1, <1>2, <1>3, <1>6, <1>9 DEF TypeOK
<1>11. CursorOrder'
  BY <1>2, <1>3, <1>8 DEF CursorOrder
<1>12. BatchFits'
  <2>1. CASE Len(batch) > Capacity - Distance(tail, seenHead')
    BY <1>1, <2>1 DEF BatchFits
  <2>2. CASE ~(Len(batch) > Capacity - Distance(tail, seenHead'))
    <3>1. written' = 0 /\ Distance(tail, seenHead') + Len(batch) <= Capacity
      BY <1>1, <1>8, <1>9, <2>2, CapacityAssumption
    <3> QED
      BY <1>2, <1>9, <3>1 DEF BatchFits
  <2> QED
    BY <2>1, <2>2
<1>13. WatermarkInv'
  <2>1. Distance(tail, seenHead) <= high_watermark /\ high_watermark \in 0 .. Capacity
    BY DEF PushLoad, IndInv, WatermarkInv, TypeOK
  <2> QED
    BY <1>2, <1>4, <1>5, <1>7, <2>1, CapacityAssumption DEF WatermarkInv
<1> QED
  BY <1>2, <1>10, <1>11, <1>12, <1>13 DEF IndInv

\* A cursor is reached from another by advancing over their distance.
LEMMA AdvanceByDistance ==
    ASSUME NEW to \in Cursors, NEW from \in Cursors, Distance(to, from) <= Capacity
    PROVE  Advance(from, Distance(to, from)) = to
<1> DEFINE d == Distance(to, from)
<1>1. d = (IF to >= from THEN to - from ELSE to + 2 * Capacity - from) /\ d \in 0 .. Capacity
  BY DistanceLemma, CapacityAssumption DEF Cursors
<1> HIDE DEF d
<1>2. Advance(from, d) = IF from + d >= 2 * Capacity THEN from + d - 2 * Capacity ELSE from + d
  BY <1>1, AdvanceLemma
<1>3. Advance(from, d) = to
  BY <1>1, <1>2, CapacityAssumption DEF Cursors
<1> QED
  BY <1>3 DEF d

\* While the producer copies, its slots are none of the published ones.
LEMMA SlotsDisjoint ==
    ASSUME IndInv, ppc = "write",
           NEW i \in 0 .. Len(batch) - 1, NEW j \in 0 .. Distance(tail, head) - 1
    PROVE  Slot(Advance(tail, i)) # Slot(Advance(head, j))
<1> DEFINE d == Distance(tail, head)
<1>1. /\ head \in Cursors /\ tail \in Cursors
      /\ Len(batch) \in Nat
      /\ d \in 0 .. 2 * Capacity - 1 /\ Distance(tail, seenHead) \in 0 .. 2 * Capacity - 1
      /\ d <= Distance(tail, seenHead)
      /\ Distance(tail, seenHead) + Len(batch) <= Capacity
  BY DistanceTypes, BatchLemma DEF IndInv, TypeOK, CursorOrder, BatchFits
<1>2. /\ d <= Capacity /\ d \in 0 .. Capacity
      /\ i \in 0 .. Capacity /\ d + i <= Capacity
      /\ d + i \in 0 .. Capacity - 1 /\ j \in 0 .. Capacity - 1 /\ d + i # j
  BY <1>1, CapacityAssumption
<1>3. Advance(tail, i) = Advance(head, d + i)
  <2>1. Advance(head, d) = tail
    BY <1>1, <1>2, AdvanceByDistance
  <2>2. Advance(Advance(head, d), i) = Advance(head, d + i)
    BY <1>1, <1>2, AdvanceAdvance
  <2> QED
    BY <2>1, <2>2
<1> HIDE DEF d
<1> QED
  BY <1>1, <1>2, <1>3, SlotInjective

\* Copying an element into its slot keeps the invariant: it disturbs neither
\* what is published nor what the consumer has borrowed.
LEMMA PushWriteInv ==
    ASSUME IndInv, PushWrite
    PROVE  IndInv'
<1> DEFINE s == Slot(Advance(tail, written))
<1>1. /\ ppc = "write" /\ written < Len(batch)
      /\ store' = [store EXCEPT ![s] = batch[written + 1]]
      /\ written' = written + 1
      /\ UNCHANGED <<head, tail, full_count, high_watermark, ppc, batch, seenHead,
                     cpc, val, seenTail, got>>
  BY DEF PushWrite, cvars
<1>2. TypeOK /\ CursorOrder /\ BatchFits /\ WatermarkInv
  BY DEF IndInv
<1>3. /\ batch \in Batches /\ Len(batch) \in Nat /\ written \in Nat
      /\ batch[written + 1] \in Values
  BY <1>1, <1>2, BatchLemma DEF TypeOK
<1>4. /\ written \in 0 .. Len(batch) - 1
      /\ Len(batch) <= Capacity
      /\ written \in 0 .. Capacity - 1 /\ written \in 0 .. Capacity
  BY <1>1, <1>2, <1>3, DistanceTypes, CapacityAssumption DEF BatchFits
<1>5. s \in Slots
  BY <1>2, <1>4, AdvanceLemma, SlotLemma DEF TypeOK
<1>6. TypeOK'
  BY <1>1, <1>2, <1>3, <1>5 DEF TypeOK
<1>7. CursorOrder' /\ WatermarkInv'
  BY <1>1, <1>2 DEF CursorOrder, WatermarkInv
<1>8. BatchFits'
  <2>1. ASSUME NEW i \in 0 .. written
        PROVE  store'[Slot(Advance(tail, i))] = batch[i + 1]
    <3>1. i \in 0 .. Capacity - 1 /\ i \in 0 .. Capacity
      BY <1>3, <1>4, CapacityAssumption
    <3>2. Slot(Advance(tail, i)) \in Slots
      BY <1>2, <3>1, AdvanceLemma, SlotLemma DEF TypeOK
    <3>3. CASE i = written
      BY <1>1, <1>2, <1>5, <3>3 DEF TypeOK
    <3>4. CASE i # written
      <4>1. Slot(Advance(tail, i)) # s
        BY <1>2, <1>4, <3>1, <3>4, SlotInjective DEF TypeOK
      <4>2. i \in 0 .. written - 1
        BY <1>3, <3>4
      <4> QED
        BY <1>1, <1>2, <1>5, <3>2, <4>1, <4>2 DEF TypeOK, BatchFits
    <3> QED
      BY <3>3, <3>4
  <2>2. written' - 1 = written
    BY <1>1, <1>3
  <2>3. \A i \in 0 .. written' - 1 : store'[Slot(Advance(tail', i))] = batch'[i + 1]
    BY <1>1, <2>1, <2>2
  <2> QED
    BY <1>1, <1>2, <1>3, <2>3 DEF BatchFits
<1>9. cpc' = "read" => val' = store'[Slot(head')]
  <2> SUFFICES ASSUME cpc = "read" PROVE val = store'[Slot(head)]
    BY <1>1
  <2>1. Distance(tail, head) > 0
    <3>1. seenTail # head /\ Distance(seenTail, head) <= Distance(tail, head)
      BY <1>2 DEF CursorOrder
    <3>2. Distance(seenTail, head) = IF seenTail >= head THEN seenTail - head
                                     ELSE seenTail + 2 * Capacity - head
      BY <1>2, DistanceLemma DEF TypeOK
    <3> QED
      BY <1>2, <3>1, <3>2, DistanceTypes, CapacityAssumption DEF TypeOK, Cursors
  <2>2. 0 \in 0 .. Distance(tail, head) - 1
    BY <1>2, <2>1, DistanceTypes
  <2>3. s # Slot(Advance(head, 0))
    BY <1>1, <1>4, <2>2, SlotsDisjoint
  <2>4. Advance(head, 0) = head
    <3>1. 0 \in 0 .. Capacity
      BY CapacityAssumption
    <3>2. Advance(head, 0) = IF head + 0 >= 2 * Capacity THEN head + 0 - 2 * Capacity
                             ELSE head + 0
      BY <1>2, <3>1, AdvanceLemma DEF TypeOK
    <3> QED
      BY <1>2, <3>2, CapacityAssumption DEF TypeOK, Cursors
  <2>5. Slot(head) \in Slots
    BY <1>2, SlotLemma DEF TypeOK
  <2> QED
    BY <1>1, <1>2, <1>5, <2>3, <2>4, <2>5 DEF TypeOK, IndInv
<1> QED
  BY <1>6, <1>7, <1>8, <1>9 DEF IndInv

\* The release store of tail_ keeps the invariant.
LEMMA PushReleaseInv ==
    ASSUME IndInv, PushRelease
    PROVE  IndInv'
<1> DEFINE n == Len(batch)
<1>1. /\ ppc = "write" /\ written = n
      /\ tail' = Advance(tail, n)
      /\ ppc' = "mark"
      /\ UNCHANGED <<head, store, full_count, high_watermark, batch, written, seenHead,
                     cpc, val, seenTail, got>>
  BY DEF PushRelease, cvars
<1>2. TypeOK /\ CursorOrder /\ BatchFits
  BY DEF IndInv
<1>3. /\ batch \in Batches /\ n \in Nat
      /\ Distance(tail, seenHead) \in 0 .. 2 * Capacity - 1
      /\ Distance(tail, head) \in 0 .. 2 * Capacity - 1
      /\ Distance(tail, seenHead) + n <= Capacity
      /\ Distance(tail, head) <= Distance(tail, seenHead)
  BY <1>1, <1>2, BatchLemma, DistanceTypes DEF TypeOK, BatchFits, CursorOrder
<1> HIDE DEF n
<1>4. /\ n \in 0 .. Capacity
      /\ Distance(tail, seenHead) + n < 2 * Capacity
      /\ Distance(tail, head) + n < 2 * Capacity
  BY <1>3, CapacityAssumption
<1>5. tail' \in Cursors
  BY <1>1, <1>2, <1>4, AdvanceLemma DEF TypeOK
<1>6. /\ Distance(tail', seenHead) = Distance(tail, seenHead) + n
      /\ Distance(tail', head) = Distance(tail, head) + n
  BY <1>1, <1>2, <1>4, AdvanceDistance DEF TypeOK
<1>7. TypeOK'
  BY <1>1, <1>2, <1>3, <1>5 DEF TypeOK
<1>8. CursorOrder'
  <2>1. Distance(seenTail, head) <= Distance(tail, head)
    BY <1>2 DEF CursorOrder
  <2>2. Distance(seenTail, head) \in 0 .. 2 * Capacity - 1
    BY <1>2, DistanceTypes
  <2>3. /\ Distance(tail', seenHead) <= Capacity
        /\ Distance(tail', head) <= Distance(tail', seenHead)
        /\ Distance(seenTail, head) <= Distance(tail', head)
    BY <1>3, <1>4, <1>6, <2>1, <2>2, CapacityAssumption
  <2> QED
    BY <1>1, <1>2, <2>3 DEF CursorOrder
<1> QED
  BY <1>1, <1>7, <1>8 DEF IndInv, BatchFits, WatermarkInv

\* Raising high_watermark_ keeps the invariant.
LEMMA PushMarkInv ==
    ASSUME IndInv, PushMark
    PROVE  IndInv'
<1>1. /\ ppc = "mark" /\ ppc' = "idle"
      /\ high_watermark' = IF Distance(tail, seenHead) > high_watermark
                           THEN Distance(tail, seenHead)
                           ELSE high_watermark
      /\ UNCHANGED <<head, tail, store, full_count, batch, written, seenHead,
                     cpc, val, seenTail, got>>
  BY DEF PushMark, cvars
<1>2. TypeOK /\ CursorOrder
  BY DEF IndInv
<1>3. /\ Distance(tail, seenHead) \in 0 .. 2 * Capacity - 1
      /\ Distance(tail, seenHead) <= Capacity
      /\ high_watermark \in 0 .. Capacity
  BY <1>2, DistanceTypes DEF CursorOrder, TypeOK
<1>4. high_watermark' \in 0 .. Capacity /\ Distance(tail, seenHead) <= high_watermark'
  BY <1>1, <1>3, CapacityAssumption
<1>5. TypeOK'
  BY <1>1, <1>2, <1>4 DEF TypeOK
<1>6. CursorOrder'
  BY <1>1, <1>2 DEF CursorOrder
<1> QED
  BY <1>1, <1>4, <1>5, <1>6 DEF IndInv, BatchFits, WatermarkInv

\* What a load of tail_ by the consumer may return.
LEMMA SeenTailLoad ==
    ASSUME TypeOK, CursorOrder, NEW n \in 0 .. Distance(tail, seenTail)
    PROVE  /\ Advance(seenTail, n) \in Cursors
           /\ Distance(Advance(seenTail, n), head) = Distance(seenTail, head) + n
           /\ Distance(Advance(seenTail, n), head) <= Distance(tail, head)
<1>1. /\ Distance(tail, seenTail) = Distance(tail, head) - Distance(seenTail, head)
      /\ Distance(tail, seenTail) \in 0 .. 2 * Capacity - 1
      /\ Distance(tail, head) \in 0 .. 2 * Capacity - 1
      /\ Distance(seenTail, head) \in 0 .. 2 * Capacity - 1
      /\ Distance(tail, seenHead) \in 0 .. 2 * Capacity - 1
      /\ Distance(tail, seenHead) <= Capacity
      /\ Distance(tail, head) <= Distance(tail, seenHead)
  BY SeenLag, DistanceTypes DEF CursorOrder
<1>2. /\ n \in 0 .. Capacity
      /\ Distance(seenTail, head) + n < 2 * Capacity
      /\ Distance(seenTail, head) + n <= Distance(tail, head)
  BY <1>1, CapacityAssumption
<1>3. Distance(Advance(seenTail, n), head) = Distance(seenTail, head) + n
  BY <1>2, AdvanceDistance DEF TypeOK
<1> QED
  BY <1>2, <1>3, AdvanceLemma DEF TypeOK

\* A cursor that differs from head is at a positive distance from it.
LEMMA PositiveDistance ==
    ASSUME NEW to \in Cursors, NEW from \in Cursors
    PROVE  Distance(to, from) = 0 <=> to = from
<1>1. Distance(to, from) = IF to >= from THEN to - from ELSE to + 2 * Capacity - from
  BY DistanceLemma
<1> QED
  BY <1>1, CapacityAssumption DEF Cursors

\* peek() keeps the invariant, whichever tail_ the acquire load returns.
LEMMA PeekInv ==
    ASSUME IndInv, Peek
    PROVE  IndInv'
<1>1. PICK n \in 0 .. Distance(tail, seenTail) :
        seenTail' = Advance(seenTail, n) /\ seenTail' # head
  BY DEF Peek
<1>2. cpc' = "borrowed" /\ UNCHANGED <<pvars, head, val, got>>
  BY DEF Peek
<1>3. TypeOK /\ CursorOrder /\ BatchFits /\ WatermarkInv
  BY DEF IndInv
<1>4. seenTail' \in Cursors /\ Distance(seenTail', head) <= Distance(tail, head)
  BY <1>1, <1>3, SeenTailLoad
<1>5. TypeOK'
  BY <1>2, <1>3, <1>4 DEF TypeOK, pvars
<1>6. CursorOrder'
  BY <1>1, <1>2, <1>3, <1>4 DEF CursorOrder, pvars
<1>7. BatchFits' /\ WatermarkInv'
  BY <1>2, <1>3 DEF BatchFits, WatermarkInv, pvars
<1> QED
  BY <1>2, <1>5, <1>6, <1>7 DEF IndInv

\* A read through the borrowed pointer keeps the invariant.
LEMMA ReadInv ==
    ASSUME IndInv, Read
    PROVE  IndInv'
<1>1. TypeOK /\ CursorOrder /\ BatchFits /\ WatermarkInv
  BY DEF IndInv
<1>2. Slot(head) \in Slots
  BY <1>1, SlotLemma DEF TypeOK
<1>3. TypeOK'
  BY <1>1, <1>2 DEF Read, TypeOK, pvars
<1>4. CursorOrder' /\ BatchFits' /\ WatermarkInv'
  BY <1>1 DEF Read, CursorOrder, BatchFits, WatermarkInv, pvars
<1> QED
  BY <1>3, <1>4 DEF IndInv, Read, pvars

\* pop() keeps the invariant.
LEMMA PopInv ==
    ASSUME IndInv, Pop
    PROVE  IndInv'
<1>1. PICK n \in 0 .. Distance(tail, seenTail) :
        seenTail' = Advance(seenTail, n) /\ seenTail' # head
  BY DEF Pop
<1>2. /\ cpc = "read" /\ cpc' = "idle"
      /\ head' = Advance(head, 1)
      /\ got' = val
      /\ UNCHANGED <<tail, store, full_count, high_watermark, ppc, batch, written, seenHead, val>>
  BY DEF Pop, pvars
<1>3. TypeOK /\ CursorOrder /\ BatchFits /\ WatermarkInv
  BY DEF IndInv
<1>4. seenTail' \in Cursors /\ Distance(seenTail', head) <= Distance(tail, head)
  BY <1>1, <1>3, SeenTailLoad
<1>5. Distance(seenTail', head) # 0 /\ Distance(seenTail', head) \in 0 .. 2 * Capacity - 1
  BY <1>1, <1>3, <1>4, PositiveDistance, DistanceLemma DEF TypeOK, Cursors
<1>6. 1 \in 0 .. Capacity /\ 1 <= Distance(seenTail', head) /\ 1 <= Distance(tail, head)
  BY <1>3, <1>4, <1>5, DistanceTypes, CapacityAssumption
<1>7. head' \in Cursors
  BY <1>2, <1>3, <1>6, AdvanceLemma DEF TypeOK
<1>8. /\ Distance(tail, head') = Distance(tail, head) - 1
      /\ Distance(seenTail', head') = Distance(seenTail', head) - 1
  BY <1>2, <1>3, <1>4, <1>6, AdvanceFrom DEF TypeOK
<1>9. TypeOK'
  BY <1>2, <1>3, <1>4, <1>7 DEF TypeOK
<1>10. CursorOrder'
  <2>1. /\ Distance(tail, head') <= Distance(tail, seenHead)
        /\ Distance(seenTail', head') <= Distance(tail, head')
    BY <1>3, <1>4, <1>5, <1>6, <1>8, DistanceTypes DEF CursorOrder
  <2> QED
    BY <1>2, <1>3, <2>1 DEF CursorOrder
<1>11. BatchFits' /\ WatermarkInv'
  BY <1>2, <1>3 DEF BatchFits, WatermarkInv
<1> QED
  BY <1>2, <1>9, <1>10, <1>11 DEF IndInv

\* The cursors keep their order, the unpublished part of a batch stays intact
\* and a value read through a borrowed pointer stays the front element, in
\* every reachable state of the ring.
THEOREM Inductive == Spec => []IndInv
<1>1. IndInv /\ [Next]_vars => IndInv'
  <2> SUFFICES ASSUME IndInv, [Next]_vars PROVE IndInv'
    OBVIOUS
  <2>1. CASE \E vs \in Batches : PushCall(vs)
    BY <2>1, PushCallInv
  <2>2. CASE Producer
    BY <2>2, PushLoadInv, PushWriteInv, PushReleaseInv, PushMarkInv DEF Producer
  <2>3. CASE Consumer
    BY <2>3, PeekInv, ReadInv, PopInv DEF Consumer
  <2>4. CASE UNCHANGED vars
    BY <2>4 DEF vars, pvars, cvars, IndInv, TypeOK, CursorOrder, BatchFits, WatermarkInv
  <2> QED
    BY <2>1, <2>2, <2>3, <2>4 DEF Next
<1> QED
  BY InitIndInv, <1>1, PTL DEF Spec

--------------------------------------------------------------------------------
\* Every cursor, slot and remembered cursor of the ring keeps its type.
THEOREM TypeCorrect == Spec => []TypeOK
<1>1. IndInv => TypeOK
  BY DEF IndInv
<1> QED
  BY Inductive, <1>1, PTL

\* No slot is written while the consumer may read it, whichever cursor values
\* the loads of lf_queue.h return.
THEOREM Safety == Spec => []NoDataRace
<1>1. ASSUME IndInv PROVE NoDataRace
  <2> SUFFICES ASSUME ppc = "write",
                      NEW i \in 0 .. Len(batch) - 1, NEW j \in 0 .. Distance(tail, head) - 1
               PROVE  Slot(Advance(tail, i)) # Slot(Advance(head, j))
    BY DEF NoDataRace, Reserved, Published
  <2> QED
    BY <1>1, SlotsDisjoint
<1> QED
  BY Inductive, <1>1, PTL

\* The element front() lends stays put until pop(), and pop()'s assertion that
\* there is one never fires, whichever tail its load returns.
THEOREM BorrowIsStable == Spec => []BorrowStable
<1>1. ASSUME IndInv PROVE BorrowStable
  <2>1. ASSUME cpc # "idle", NEW n \in 0 .. Distance(tail, seenTail)
        PROVE  Advance(seenTail, n) # head
    <3>1. TypeOK /\ CursorOrder /\ seenTail # head /\ head \in Cursors /\ seenTail \in Cursors
      BY <1>1, <2>1 DEF IndInv, CursorOrder, TypeOK
    <3>2. /\ Advance(seenTail, n) \in Cursors
          /\ Distance(Advance(seenTail, n), head) = Distance(seenTail, head) + n
      BY <3>1, SeenTailLoad
    <3>3. Distance(seenTail, head) # 0 /\ Distance(seenTail, head) \in Nat
      BY <3>1, PositiveDistance, DistanceTypes
    <3>4. n \in Nat
      BY <3>1, DistanceTypes
    <3>5. Distance(Advance(seenTail, n), head) # 0
      BY <3>2, <3>3, <3>4
    <3> QED
      BY <3>1, <3>2, <3>5, PositiveDistance
  <2>2. cpc = "read" => val = store[Slot(head)]
    BY <1>1 DEF IndInv
  <2> QED
    BY <2>1, <2>2 DEF BorrowStable
<1> QED
  BY Inductive, <1>1, PTL

\* After a push has updated it, the high watermark is at least the occupancy.
THEOREM WatermarkIsHigh == Spec => []WatermarkCovers
<1>1. ASSUME IndInv PROVE WatermarkCovers
  <2>1. /\ Distance(tail, head) <= Distance(tail, seenHead)
        /\ ppc # "mark" => Distance(tail, seenHead) <= high_watermark
        /\ Distance(tail, head) \in Int /\ Distance(tail, seenHead) \in Int
        /\ high_watermark \in Int
    BY <1>1, DistanceTypes DEF IndInv, CursorOrder, WatermarkInv, TypeOK
  <2> QED
    BY <2>1 DEF WatermarkCovers
<1> QED
  BY Inductive, <1>1, PTL

--------------------------------------------------------------------------------
(***************************************************************************)
(* Refinement: Contents is the queue of BoundedQueue.                      *)
(***************************************************************************)
\* Contents is a sequence of elements as long as the cursors are apart.
LEMMA ContentsLemma ==
    ASSUME IndInv
    PROVE  /\ Contents \in Seq(Values \cup {NoValue})
           /\ Len(Contents) = Distance(tail, head)
           /\ Distance(tail, head) \in 0 .. Capacity
           /\ \A i \in 1 .. Distance(tail, head) :
                 Contents[i] = store[Slot(Advance(head, i - 1))]
<1>1. Distance(tail, head) \in 0 .. Capacity
  BY DistanceTypes, CapacityAssumption DEF IndInv, CursorOrder
<1>2. ASSUME NEW i \in 1 .. Distance(tail, head)
      PROVE  store[Slot(Advance(head, i - 1))] \in Values \cup {NoValue}
  <2>1. i - 1 \in 0 .. Capacity
    BY <1>1, CapacityAssumption
  <2>2. Slot(Advance(head, i - 1)) \in Slots
    BY <2>1, AdvanceLemma, SlotLemma DEF IndInv, TypeOK
  <2> QED
    BY <2>2 DEF IndInv, TypeOK
<1>3. Contents \in [1 .. Distance(tail, head) -> Values \cup {NoValue}]
  BY <1>2 DEF Contents
<1>4. Contents \in Seq(Values \cup {NoValue}) /\ Len(Contents) = Distance(tail, head)
  BY <1>1, <1>3
<1> QED
  BY <1>1, <1>4 DEF Contents

\* A copy into a reserved slot does not show in the abstract queue.
LEMMA PushWriteKeepsContents ==
    ASSUME IndInv, PushWrite
    PROVE  Contents' = Contents
<1>1. /\ ppc = "write" /\ written < Len(batch)
      /\ store' = [store EXCEPT ![Slot(Advance(tail, written))] = batch[written + 1]]
      /\ UNCHANGED <<head, tail>>
  BY DEF PushWrite, cvars
<1>2. written \in 0 .. Len(batch) - 1
  BY <1>1, BatchLemma DEF IndInv, TypeOK
<1>3. ASSUME NEW i \in 1 .. Distance(tail, head)
      PROVE  store'[Slot(Advance(head, i - 1))] = store[Slot(Advance(head, i - 1))]
  <2>1. Distance(tail, head) \in 0 .. Capacity
    BY ContentsLemma
  <2>2. i - 1 \in 0 .. Distance(tail, head) - 1 /\ i - 1 \in 0 .. Capacity
    BY <2>1, CapacityAssumption
  <2>3. Slot(Advance(tail, written)) # Slot(Advance(head, i - 1))
    BY <1>1, <1>2, <2>2, SlotsDisjoint
  <2>4. Slot(Advance(head, i - 1)) \in Slots
    BY <2>2, AdvanceLemma, SlotLemma DEF IndInv, TypeOK
  <2> QED
    BY <1>1, <2>3, <2>4 DEF IndInv, TypeOK
<1> QED
  BY <1>1, <1>3 DEF Contents

\* The release store of tail_ makes the whole batch appear at once, at the end.
LEMMA PushReleaseAppends ==
    ASSUME IndInv, IndInv', PushRelease
    PROVE  Queue!Push(batch) /\ batch \in Batches
<1> DEFINE d == Distance(tail, head)
           V == Values \cup {NoValue}
<1>1. /\ ppc = "write" /\ written = Len(batch)
      /\ tail' = Advance(tail, Len(batch))
      /\ UNCHANGED <<head, store, batch, got>>
  BY DEF PushRelease, cvars
<1>2. /\ batch \in Batches /\ batch \in Seq(Values) /\ Len(batch) \in Nat
      /\ head \in Cursors /\ tail \in Cursors
      /\ d \in 0 .. Capacity
      /\ Distance(tail, seenHead) \in 0 .. 2 * Capacity - 1
      /\ d <= Distance(tail, seenHead)
      /\ Distance(tail, seenHead) + Len(batch) <= Capacity
      /\ \A i \in 0 .. Len(batch) - 1 : store[Slot(Advance(tail, i))] = batch[i + 1]
  BY <1>1, BatchLemma, ContentsLemma, DistanceTypes DEF IndInv, TypeOK, CursorOrder, BatchFits
<1>3. d + Len(batch) <= Capacity /\ Len(batch) \in 0 .. Capacity /\ d + Len(batch) < 2 * Capacity
  BY <1>2, CapacityAssumption
<1>4. Distance(tail', head') = d + Len(batch)
  BY <1>1, <1>2, <1>3, AdvanceDistance
<1>5. /\ Contents \in Seq(V) /\ Len(Contents) = d
      /\ \A i \in 1 .. d : Contents[i] = store[Slot(Advance(head, i - 1))]
  BY ContentsLemma
<1>6. /\ Contents' \in Seq(V) /\ Len(Contents') = d + Len(batch)
      /\ \A i \in 1 .. d + Len(batch) : Contents'[i] = store[Slot(Advance(head, i - 1))]
  <2>1. /\ Contents' = [i \in 1 .. d + Len(batch) |-> store[Slot(Advance(head, i - 1))]]
    BY <1>1, <1>4 DEF Contents
  <2>2. ASSUME NEW i \in 1 .. d + Len(batch)
        PROVE  store[Slot(Advance(head, i - 1))] \in V
    <3>1. i - 1 \in 0 .. Capacity
      BY <1>2, <1>3, CapacityAssumption
    <3>2. Slot(Advance(head, i - 1)) \in Slots
      BY <1>2, <3>1, AdvanceLemma, SlotLemma
    <3> QED
      BY <3>2 DEF IndInv, TypeOK
  <2>3. d + Len(batch) \in Nat
    BY <1>2
  <2>4. Contents' \in [1 .. d + Len(batch) -> V]
    BY <2>1, <2>2
  <2> QED
    BY <2>1, <2>3, <2>4
<1>7. batch \in Seq(V)
  BY <1>2, SeqMonotonic
<1> HIDE DEF V
<1>8. /\ Contents \o batch \in Seq(V)
      /\ Len(Contents \o batch) = d + Len(batch)
      /\ \A i \in 1 .. d + Len(batch) :
            (Contents \o batch)[i] = IF i <= d THEN Contents[i] ELSE batch[i - d]
  <2>1. /\ Contents \o batch \in Seq(V)
        /\ Len(Contents \o batch) = Len(Contents) + Len(batch)
        /\ \A i \in 1 .. Len(Contents) + Len(batch) :
              (Contents \o batch)[i] = IF i <= Len(Contents) THEN Contents[i]
                                       ELSE batch[i - Len(Contents)]
    BY <1>5, <1>7, ConcatProperties
  <2> QED
    BY <1>5, <2>1, Zenon
<1>9. ASSUME NEW i \in 1 .. d + Len(batch)
      PROVE  Contents'[i] = (Contents \o batch)[i]
  <2>1. CASE i <= d
    <3>1. i \in 1 .. d
      BY <1>2, <2>1
    <3> QED
      BY <1>5, <1>6, <1>8, <2>1, <3>1
  <2>2. CASE ~(i <= d)
    <3>1. /\ i - d - 1 \in 0 .. Len(batch) - 1
          /\ i - d - 1 \in 0 .. Capacity
          /\ d + (i - d - 1) <= Capacity
          /\ d + (i - d - 1) = i - 1
          /\ (i - d - 1) + 1 = i - d
      BY <1>2, <1>3, <2>2, CapacityAssumption
    <3>2. Advance(head, d) = tail
      BY <1>2, CapacityAssumption, AdvanceByDistance
    <3>3. Advance(Advance(head, d), i - d - 1) = Advance(head, d + (i - d - 1))
      BY <1>2, <3>1, AdvanceAdvance
    <3>4. Advance(head, i - 1) = Advance(tail, i - d - 1)
      BY <3>1, <3>2, <3>3
    <3>5. store[Slot(Advance(tail, i - d - 1))] = batch[i - d]
      BY <1>2, <3>1
    <3> QED
      BY <1>6, <1>8, <2>2, <3>4, <3>5
  <2> QED
    BY <2>1, <2>2
<1>10. Contents' = Contents \o batch
  BY <1>6, <1>8, <1>9, SeqEqual
<1> QED
  BY <1>1, <1>2, <1>3, <1>5, <1>10 DEF Queue!Push

\* pop() hands out the head of the abstract queue.
LEMMA PopTakesHead ==
    ASSUME IndInv, IndInv', Pop
    PROVE  Queue!Pop
<1> DEFINE d == Distance(tail, head)
           V == Values \cup {NoValue}
<1>1. PICK n \in 0 .. Distance(tail, seenTail) :
        seenTail' = Advance(seenTail, n) /\ seenTail' # head
  BY DEF Pop
<1>2. /\ cpc = "read" /\ got' = val /\ head' = Advance(head, 1)
      /\ UNCHANGED <<tail, store>>
  BY DEF Pop, pvars
<1>3. /\ head \in Cursors /\ tail \in Cursors
      /\ TypeOK /\ CursorOrder
      /\ val = store[Slot(head)]
  BY <1>2 DEF IndInv, TypeOK
<1>4. d \in 0 .. Capacity /\ d > 0
  <2>1. seenTail' \in Cursors /\ Distance(seenTail', head) <= d
    BY <1>1, <1>3, SeenTailLoad
  <2>2. Distance(seenTail', head) # 0 /\ Distance(seenTail', head) \in 0 .. 2 * Capacity - 1
    BY <1>1, <1>3, <2>1, PositiveDistance, DistanceLemma DEF Cursors
  <2>3. d \in 0 .. Capacity
    BY ContentsLemma
  <2> QED
    BY <2>1, <2>2, <2>3, CapacityAssumption
<1>5. Distance(tail', head') = d - 1
  BY <1>2, <1>3, <1>4, CapacityAssumption, AdvanceFrom
<1>6. /\ Contents \in Seq(V) /\ Len(Contents) = d
      /\ \A i \in 1 .. d : Contents[i] = store[Slot(Advance(head, i - 1))]
  BY ContentsLemma
<1>7. /\ Contents' \in Seq(V) /\ Len(Contents') = d - 1
      /\ \A i \in 1 .. d - 1 : Contents'[i] = store[Slot(Advance(head', i - 1))]
  <2>1. Contents' = [i \in 1 .. d - 1 |-> store[Slot(Advance(head', i - 1))]]
    BY <1>2, <1>5 DEF Contents
  <2>2. ASSUME NEW i \in 1 .. d - 1
        PROVE  store[Slot(Advance(head', i - 1))] \in V
    <3>1. i - 1 \in 0 .. Capacity
      BY <1>4, CapacityAssumption
    <3>2. Slot(Advance(head', i - 1)) \in Slots
      BY <3>1, AdvanceLemma, SlotLemma DEF IndInv, TypeOK
    <3> QED
      BY <3>2 DEF IndInv, TypeOK
  <2>3. d - 1 \in Nat
    BY <1>4
  <2>4. Contents' \in [1 .. d - 1 -> V]
    BY <2>1, <2>2
  <2> QED
    BY <2>1, <2>3, <2>4
<1> HIDE DEF V
<1>8. Contents # <<>>
  BY <1>4, <1>6
<1>9. /\ Tail(Contents) \in Seq(V)
      /\ Len(Tail(Contents)) = d - 1
      /\ \A i \in 1 .. d - 1 : Tail(Contents)[i] = Contents[i + 1]
  BY <1>6, <1>8, HeadTailProperties
<1>10. ASSUME NEW i \in 1 .. d - 1
       PROVE  Contents'[i] = Tail(Contents)[i]
  <2>1. /\ i - 1 \in 0 .. Capacity /\ 1 \in 0 .. Capacity
        /\ 1 + (i - 1) <= Capacity /\ 1 + (i - 1) = (i + 1) - 1
        /\ i + 1 \in 1 .. d
    BY <1>4, CapacityAssumption
  <2>2. Advance(head', i - 1) = Advance(head, (i + 1) - 1)
    BY <1>2, <1>3, <2>1, AdvanceAdvance
  <2> QED
    BY <1>6, <1>7, <1>9, <2>1, <2>2
<1>11. Contents' = Tail(Contents)
  BY <1>7, <1>9, <1>10, SeqEqual
<1>12. got' = Head(Contents)
  <2>1. Head(Contents) = Contents[1]
    BY <1>6, <1>8
  <2>2. Contents[1] = store[Slot(Advance(head, 1 - 1))]
    BY <1>4, <1>6
  <2>3. Advance(head, 1 - 1) = head
    <3>1. 1 - 1 \in 0 .. Capacity /\ 1 - 1 = 0
      BY CapacityAssumption
    <3>2. Advance(head, 1 - 1) = IF head + (1 - 1) >= 2 * Capacity
                                 THEN head + (1 - 1) - 2 * Capacity ELSE head + (1 - 1)
      BY <1>3, <3>1, AdvanceLemma
    <3> QED
      BY <1>3, <3>2, CapacityAssumption DEF Cursors
  <2> QED
    BY <1>2, <1>3, <2>1, <2>2, <2>3
<1> QED
  BY <1>8, <1>11, <1>12 DEF Queue!Pop

\* The ring of lf_queue.h, at the granularity of its loads and stores,
\* implements the bounded FIFO with all-or-nothing batches.
THEOREM Refinement == Spec => QueueSpec
<1>1. Init => Queue!Init
  <2> SUFFICES ASSUME Init PROVE Queue!Init
    OBVIOUS
  <2>1. IndInv
    BY InitIndInv
  <2>2. Distance(tail, head) = 0
    <3>1. head \in Cursors /\ tail \in Cursors /\ tail = head
      BY <2>1 DEF Init, IndInv, TypeOK
    <3> QED
      BY <3>1, PositiveDistance
  <2>3. Contents = <<>>
    BY <2>1, <2>2, ContentsLemma
  <2> QED
    BY <2>3 DEF Init, Queue!Init
<1>2. IndInv /\ IndInv' /\ [Next]_vars => [Queue!Next]_<<Contents, got>>
  <2> SUFFICES ASSUME IndInv, IndInv', [Next]_vars
               PROVE  Queue!Next \/ UNCHANGED <<Contents, got>>
    OBVIOUS
  <2>1. CASE UNCHANGED <<head, tail, store, got>>
    BY <2>1 DEF Contents
  <2>2. CASE PushWrite
    BY <2>2, PushWriteKeepsContents DEF PushWrite, cvars
  <2>3. CASE PushRelease
    BY <2>3, PushReleaseAppends DEF Queue!Next
  <2>4. CASE Pop
    BY <2>4, PopTakesHead DEF Queue!Next
  <2>5. CASE \/ \E vs \in Batches : PushCall(vs)
             \/ PushLoad \/ PushMark \/ Peek \/ Read
             \/ UNCHANGED vars
    <3>1. UNCHANGED <<head, tail, store, got>>
      BY <2>5 DEF PushCall, PushLoad, PushMark, Peek, Read, vars, pvars, cvars
    <3> QED
      BY <2>1, <3>1
  <2> QED
    BY <2>2, <2>3, <2>4, <2>5 DEF Next, Producer, Consumer
<1> QED
  BY <1>1, <1>2, Inductive, PTL DEF Spec, QueueSpec, Queue!Spec
================================================================================
