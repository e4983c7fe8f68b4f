------------------------------- MODULE LFQueue -------------------------------
(***************************************************************************)
(* common/lf_queue.h: the single-producer single-consumer ring every pair  *)
(* of threads of the system talks through, at the granularity of its       *)
(* atomic loads and stores.                                                *)
(*                                                                         *)
(* head and tail are the two atomic cursors; they run over 0..2*Capacity-1 *)
(* so that equal cursors mean empty and cursors Capacity apart mean full.  *)
(* An acquire load need not return the newest value the other thread has   *)
(* stored, only one at least as new as the last one this thread observed:  *)
(* seenHead and seenTail are those observations.                           *)
(***************************************************************************)
EXTENDS Integers, Sequences

CONSTANTS Values,       \* the elements stored
          Capacity,     \* capacity of the ring
          Batches,      \* the batches the producer pushes
          NoValue,      \* content of a slot never written
          MaxFullCount  \* bound on the diagnostic counter full_count_

ASSUME CapacityAssumption == Capacity \in Nat \ {0}

\* checkedCapacity: the masks are moduli only for powers of two
ASSUME PowerOfTwoAssumption == \E k \in 0 .. Capacity : Capacity = 2 ^ k

ASSUME ValuesAssumption ==
    /\ NoValue \notin Values
    /\ Batches \subseteq Seq(Values)
    /\ \A vs \in Batches : Len(vs) > 0

VARIABLES head,            \* head_, stored by the consumer
          tail,            \* tail_, stored by the producer
          store,           \* store_
          full_count,      \* full_count_
          high_watermark,  \* high_watermark_
          ppc,             \* where the producer is in try_push / try_push_batch
          batch,           \* its argument
          written,         \* elements of it already copied into store_
          seenHead,        \* the newest head_ the producer has loaded
          cpc,             \* where the consumer is: "idle", or "borrowed" after a peek
          val,             \* what the consumer read through the borrowed pointer
          seenTail,        \* the newest tail_ the consumer has loaded
          got              \* the element the last pop gave back

pvars == <<tail, store, full_count, high_watermark, ppc, batch, written, seenHead>>
cvars == <<head, cpc, val, seenTail, got>>
vars == <<pvars, cvars>>
------------------------------------------------------------------------------
Cursors == 0 .. 2 * Capacity - 1
Slots == 0 .. Capacity - 1

AdvanceUnmasked(i, n) == i + n

\* next() iterated n times: (i + n) & cursor_mask_
Advance(i, n) == (i + n) % (2 * Capacity)

\* distance(): (to - from) & cursor_mask_
Distance(to, from) == (to - from) % (2 * Capacity)

\* i & mask_
Slot(i) == i % Capacity

\* The elements published and not yet given back.
Contents ==
    [i \in 1 .. Distance(tail, head) |-> store[Slot(Advance(head, i - 1))]]
------------------------------------------------------------------------------
Init ==
    /\ head = 0
    /\ tail = 0
    /\ store = [s \in Slots |-> NoValue]
    /\ full_count = 0
    /\ high_watermark = 0
    /\ ppc = "idle"
    /\ batch = <<>>
    /\ written = 0
    /\ seenHead = 0
    /\ cpc = "idle"
    /\ val = NoValue
    /\ seenTail = 0
    /\ got = NoValue

(***************************************************************************)
(* The producer: try_push_batch, and try_push as the batch of one element. *)
(* An empty batch returns without touching the queue.                      *)
(***************************************************************************)
PushCall(vs) ==
    /\ ppc = "idle"
    /\ ppc' = "load"
    /\ batch' = vs
    /\ UNCHANGED <<tail, store, full_count, high_watermark, written, seenHead, cvars>>

RoomForOne ==
    /\ ppc = "load"
    /\ \E n \in 0 .. Distance(head, seenHead) :
          /\ seenHead' = Advance(seenHead, n)
          /\ Distance(tail, seenHead') < Capacity
    /\ ppc' = "write"
    /\ written' = 0
    /\ UNCHANGED <<tail, store, full_count, high_watermark, batch, cvars>>

\* Load the cursors: the own one exactly, the consumer's at least as new as
\* before.  Either the whole batch fits, or recordFull() and give up.
PushLoad ==
    /\ ppc = "load"
    /\ \E n \in 0 .. Distance(head, seenHead) :
          /\ seenHead' = Advance(seenHead, n)
          /\ IF Len(batch) > Capacity - Distance(tail, seenHead')
             THEN /\ full_count < MaxFullCount
                  /\ full_count' = full_count + 1
                  /\ ppc' = "idle"
                  /\ UNCHANGED written
             ELSE /\ ppc' = "write"
                  /\ written' = 0
                  /\ UNCHANGED full_count
    /\ UNCHANGED <<tail, store, high_watermark, batch, cvars>>

\* Copy the next element into its slot.
PushWrite ==
    /\ ppc = "write"
    /\ written < Len(batch)
    /\ store' = [store EXCEPT ![Slot(Advance(tail, written))] = batch[written + 1]]
    /\ written' = written + 1
    /\ UNCHANGED <<tail, full_count, high_watermark, ppc, batch, seenHead, cvars>>

ReleaseBeforeCopy ==
    /\ ppc = "write"
    /\ tail' = Advance(tail, Len(batch))
    /\ ppc' = "mark"
    /\ UNCHANGED <<store, full_count, high_watermark, batch, written, seenHead, cvars>>

\* Publish the whole batch with one release store.
PushRelease ==
    /\ ppc = "write"
    /\ written = Len(batch)
    /\ tail' = Advance(tail, Len(batch))
    /\ ppc' = "mark"
    /\ UNCHANGED <<store, full_count, high_watermark, batch, written, seenHead, cvars>>

\* Raise the high watermark to used + n, computed from the head loaded above.
PushMark ==
    /\ ppc = "mark"
    /\ high_watermark' = IF Distance(tail, seenHead) > high_watermark
                         THEN Distance(tail, seenHead)
                         ELSE high_watermark
    /\ ppc' = "idle"
    /\ UNCHANGED <<tail, store, full_count, batch, written, seenHead, cvars>>

(***************************************************************************)
(* The consumer: peek lends a pointer to the first slot, the caller reads  *)
(* through it (as often as it likes), pop gives the slot back.  try_pop is *)
(* the same sequence inside one call.                                      *)
(***************************************************************************)
PeekUnchecked ==
    /\ cpc = "idle"
    /\ \E n \in 0 .. Distance(tail, seenTail) : seenTail' = Advance(seenTail, n)
    /\ cpc' = "borrowed"
    /\ UNCHANGED <<pvars, head, val, got>>

\* peek(): a null pointer (no step) unless the loaded tail differs from head.
Peek ==
    /\ cpc = "idle"
    /\ \E n \in 0 .. Distance(tail, seenTail) :
          /\ seenTail' = Advance(seenTail, n)
          /\ seenTail' # head
    /\ cpc' = "borrowed"
    /\ UNCHANGED <<pvars, head, val, got>>

\* *peek()
Read ==
    /\ cpc \in {"borrowed", "read"}
    /\ val' = store[Slot(head)]
    /\ cpc' = "read"
    /\ UNCHANGED <<pvars, head, seenTail, got>>

PopLeavesOne ==
    /\ cpc = "read"
    /\ \E n \in 0 .. Distance(tail, seenTail) :
          /\ seenTail' = Advance(seenTail, n)
          /\ seenTail' # Advance(head, 1)
    /\ head' = Advance(head, 1)
    /\ got' = val
    /\ cpc' = "idle"
    /\ UNCHANGED <<pvars, val>>

\* pop(), with its assertion that the queue is not empty
Pop ==
    /\ cpc = "read"
    /\ \E n \in 0 .. Distance(tail, seenTail) :
          /\ seenTail' = Advance(seenTail, n)
          /\ seenTail' # head
    /\ head' = Advance(head, 1)
    /\ got' = val
    /\ cpc' = "idle"
    /\ UNCHANGED <<pvars, val>>

Producer == PushLoad \/ PushWrite \/ PushRelease \/ PushMark
Consumer == Peek \/ Read \/ Pop

Next == Producer \/ Consumer \/ \E vs \in Batches : PushCall(vs)

Spec == Init /\ [][Next]_vars

\* Both threads run their loops; nothing forces the producer to push.
FairSpec == Spec /\ WF_vars(Producer) /\ WF_vars(Peek) /\ WF_vars(Pop)
                 /\ WF_vars(cpc = "borrowed" /\ Read)
------------------------------------------------------------------------------
TypeOK ==
    /\ head \in Cursors
    /\ tail \in Cursors
    /\ store \in [Slots -> Values \cup {NoValue}]
    /\ full_count \in Nat
    /\ high_watermark \in 0 .. Capacity
    /\ ppc \in {"idle", "load", "write", "mark"}
    /\ batch \in Batches \cup {<<>>}
    /\ (ppc # "idle" => batch \in Batches)
    /\ written \in Nat
    /\ seenHead \in Cursors
    /\ cpc \in {"idle", "borrowed", "read"}
    /\ val \in Values \cup {NoValue}
    /\ seenTail \in Cursors
    /\ got \in Values \cup {NoValue}

(***************************************************************************)
(* The slots the producer may be writing (copied but unpublished, or next) *)
(* and the slots the consumer may read are disjoint: the non-atomic store_ *)
(* accesses never race, whatever cursor values the loads returned.         *)
(***************************************************************************)
Reserved == IF ppc = "write" THEN {Slot(Advance(tail, i)) : i \in 0 .. Len(batch) - 1} ELSE {}
Published == {Slot(Advance(head, i)) : i \in 0 .. Distance(tail, head) - 1}

NoDataRace == Reserved \cap Published = {}

\* What the consumer read through the pointer peek() lent stays the element at
\* the front until pop(), which the producer never overwrites, and pop()'s
\* assertion cannot fire whichever tail_ it loads.
BorrowStable ==
    /\ cpc # "idle" => \A n \in 0 .. Distance(tail, seenTail) : Advance(seenTail, n) # head
    /\ cpc = "read" => val = store[Slot(head)]

\* The watermark the monitoring reads is never below the true occupancy once
\* the push that caused it has returned.
WatermarkCovers == ppc # "mark" => Distance(tail, head) <= high_watermark

(***************************************************************************)
(* Why: seen cursors lag behind the real ones but never past the other     *)
(* thread's, so that  seenHead <= head <= seenTail <= tail  around the     *)
(* ring and the span from seenHead to tail is at most Capacity.            *)
(***************************************************************************)
CursorOrder ==
    /\ Distance(tail, seenHead) <= Capacity
    /\ Distance(tail, head) <= Distance(tail, seenHead)
    /\ Distance(seenTail, head) <= Distance(tail, head)
    /\ cpc # "idle" => seenTail # head

BatchFits ==
    ppc = "write" =>
       /\ written <= Len(batch)
       /\ Distance(tail, seenHead) + Len(batch) <= Capacity
       /\ \A i \in 0 .. written - 1 : store[Slot(Advance(tail, i))] = batch[i + 1]

WatermarkInv == ppc # "mark" => Distance(tail, seenHead) <= high_watermark

IndInv ==
    /\ TypeOK
    /\ CursorOrder
    /\ BatchFits
    /\ WatermarkInv
    /\ cpc = "read" => val = store[Slot(head)]

\* The ring implements a bounded FIFO with all-or-nothing batches.
Queue == INSTANCE BoundedQueue WITH q <- Contents
QueueSpec == Queue!Spec

\* Whatever position has been published is eventually given back by the
\* consumer, which keeps polling.
Drains == \A t \in Cursors : tail = t ~> head = t
==============================================================================
