------------------------------ MODULE MarketData ------------------------------
(***************************************************************************)
(* The market-data path from the exchange to the trading engine's local    *)
(* book: MarketDataPublisher and SnapshotSynthesizer send one ticker's     *)
(* incremental stream and periodic snapshots over two lossy multicast      *)
(* channels; MarketDataConsumer with its MarketRecovery turns them into    *)
(* the events of one queue; TradeEngine applies those and trusts the book  *)
(* only while the generation it has applied is the current one.            *)
(*                                                                         *)
(* An order is its id and quantity: side, price and priority only travel   *)
(* along.  bookHash is taken to be collision free, so the hash of a book   *)
(* is the book.                                                            *)
(***************************************************************************)
EXTENDS Integers, Sequences, FiniteSets, SequencesExt

CONSTANTS Streams,         \* the update streams the matching engine may produce
          MaxCycle,        \* bound on the number of snapshots
          MaxFaults,       \* bound on the number of network faults
          FaultKinds,      \* which faults happen: "lose", "dup", "garble", "damage"
          Window,          \* a datagram overtakes at most Window - 1 earlier ones
          CacheLimit,      \* limit_ of MarketRecovery
          QueueCapacity,   \* capacity of the queue to the trading engine
          LocalOrders,     \* order_pool_ of the MarketOrderBook
          MaxGeneration,   \* bound on market_generation_
          OverlapSnapshots,\* may a snapshot start while another is in flight
          NoBatch          \* no recovery candidate

ASSUME MarketDataAssumption ==
    /\ MaxCycle \in Nat /\ MaxFaults \in Nat /\ Window \in Nat \ {0} /\ MaxGeneration \in Nat \ {0, 1}
    /\ QueueCapacity \in Nat /\ LocalOrders \in Nat
    /\ CacheLimit \in 3 .. QueueCapacity
    /\ OverlapSnapshots \in BOOLEAN

VARIABLES stream,     \* the updates of the matching engine, in order
          published,  \* next_inc_seq_num_ - 1
          synced,     \* last_inc_seq_num_ of the SnapshotSynthesizer
          cycles,     \* snapshot_cycle_
          incNet,     \* sequence numbers in flight on the incremental channel
          snapNet,    \* frames in flight on the snapshot channel
          faults,     \* network faults so far
          rec,        \* the MarketRecovery object
          candidate,  \* candidate_ : a recovery batch waiting for room in the queue
          observed,   \* observed_generation_
          out,        \* the queue to the trading engine
          generation, \* market_generation_, shared by the two threads
          applied,    \* applied_generation_
          epc,        \* "store" between the engine's load and store for a marker
          local,      \* the engine's MarketOrderBook
          localSeq,   \* how far into the stream it is
          bestSeq,    \* ghost: the furthest it was when trusted, unless forgotten since
          refused     \* ghost: the engine has refused an event since the last CLEAR

exchangeVars == <<stream, published, synced, cycles>>
netVars == <<incNet, snapNet, faults>>
consumerVars == <<rec, candidate, observed>>
engineVars == <<applied, epc, local, localSeq, refused>>
vars == <<exchangeVars, netVars, consumerVars, engineVars, out, generation, bestSeq>>
-------------------------------------------------------------------------------
Event(type, id, qty) == [type |-> type, id |-> id, qty |-> qty]

\* MarketRecovery::apply, and the checks of MarketOrderBook::onMarketUpdate.
Applies(book, e) ==
    CASE e.type \in {"CLEAR", "TRADE"} -> TRUE
      [] e.type = "ADD" -> e.id \notin DOMAIN book /\ e.qty > 0
      [] e.type = "MODIFY" -> e.id \in DOMAIN book /\ e.qty > 0
      [] e.type = "CANCEL" -> e.id \in DOMAIN book
      [] OTHER -> FALSE

Apply(book, e) ==
    CASE e.type = "CLEAR" -> <<>>
      [] e.type \in {"ADD", "MODIFY"} ->
           [i \in DOMAIN book \cup {e.id} |-> IF i = e.id THEN e.qty ELSE book[i]]
      [] e.type = "CANCEL" -> [i \in DOMAIN book \ {e.id} |-> book[i]]
      [] OTHER -> book

ApplyAll(book, es) == FoldLeft(Apply, book, es)
AllApply(book, es) ==
    \A i \in 1 .. Len(es) : Applies(ApplyAll(book, SubSeq(es, 1, i - 1)), es[i])

\* The matching engine's updates replay its book (MatchingEngine!FeedReplaysBook).
ASSUME StreamsAssumption ==
    \A s \in Streams :
       /\ s \in Seq([type : {"ADD", "MODIFY", "CANCEL", "TRADE"}, id : Nat, qty : Nat])
       /\ AllApply(<<>>, s)

\* The book after the first n updates of the stream.
BookAt(n) == ApplyAll(<<>>, SubSeq(stream, 1, n))

\* The live orders, in the order of their ids.
Adds(book) ==
    LET Nth(i) == CHOOSE x \in DOMAIN book : Cardinality({y \in DOMAIN book : y < x}) = i - 1
    IN  [i \in 1 .. Cardinality(DOMAIN book) |-> Event("ADD", Nth(i), book[Nth(i)])]
-------------------------------------------------------------------------------
(* The exchange: MarketDataPublisher::run and SnapshotSynthesizer::run.      *)

Frame(seq, cycle, watermark, hash, e) ==
    [seq |-> seq, cycle |-> cycle, watermark |-> watermark, hash |-> hash, ev |-> e]

\* The publisher sends the next update and hands it to the synthesizer's queue.
PublishIncremental ==
    /\ published < Len(stream)
    /\ published' = published + 1
    /\ incNet' = Append(incNet, published + 1)
    /\ UNCHANGED <<stream, synced, cycles, snapNet, faults, consumerVars, engineVars,
                   out, generation, bestSeq>>

\* addToSnapshot
Synchronize ==
    /\ synced < published
    /\ synced' = synced + 1
    /\ UNCHANGED <<stream, published, cycles, netVars, consumerVars, engineVars, out, generation,
                   bestSeq>>

\* publishSnapshot: START, CLEAR, every live order, END, all stamped with the
\* cycle, the watermark and the hash.
SnapshotFrames(cycle, watermark, book) ==
    LET es == <<Event("START", watermark, 0), Event("CLEAR", 0, 0)>> \o Adds(book)
                 \o <<Event("END", watermark, 0)>>
    IN  [i \in 1 .. Len(es) |-> Frame(i - 1, cycle, watermark, book, es[i])]

PublishSnapshot ==
    /\ cycles < MaxCycle
    /\ OverlapSnapshots \/ snapNet = <<>>
    /\ cycles' = cycles + 1
    /\ snapNet' = snapNet \o SnapshotFrames(cycles + 1, synced, BookAt(synced))
    /\ UNCHANGED <<stream, published, synced, incNet, faults, consumerVars, engineVars,
                   out, generation, bestSeq>>
-------------------------------------------------------------------------------
(* MarketRecovery, as operators on its state.                                *)

\* restart()
Restart(r) == [r EXCEPT !.recovering = TRUE, !.snap = <<>>, !.inc = <<>>, !.invalid = TRUE]

Without(f, S) == [x \in DOMAIN f \ S |-> f[x]]
With(f, x, v) == [y \in DOMAIN f \cup {x} |-> IF y = x THEN v ELSE f[y]]
Cached(r) == Cardinality(DOMAIN r.snap) + Cardinality(DOMAIN r.inc)

Unlimited(r) == r

\* The end of ingest(): too much cached, give up and wait for the next cycle.
Limit(r) == IF Cached(r) > CacheLimit THEN Restart(r) ELSE r

ForgetIncremental(r, seq, e) == r

\* ingest() of an incremental frame; a known sequence number with another
\* content discredits everything cached.
IngestIncremental(r, seq, e) ==
    IF ~r.recovering THEN r
    ELSE IF seq \in DOMAIN r.inc /\ r.inc[seq] # e THEN Restart(r)
    ELSE Limit([r EXCEPT !.inc = With(@, seq, e)])

KeepInvalid(r, f) ==
    LET r1 == IF f.cycle > r.cycle
              THEN [r EXCEPT !.cycle = f.cycle, !.snap = <<>>, !.inc = Without(@, 0 .. f.watermark)]
              ELSE r
    IN  IF ~r.recovering \/ f.cycle < r.cycle \/ r1.invalid THEN r1
        ELSE Limit([r1 EXCEPT !.snap = With(@, f.seq, f)])

\* ingest() of a snapshot frame: old cycles are ignored, a newer one replaces
\* what was collected and drops the incrementals it covers.
IngestSnapshot(r, f) ==
    LET r1 == IF f.cycle > r.cycle
              THEN [r EXCEPT !.cycle = f.cycle, !.snap = <<>>, !.invalid = FALSE,
                             !.inc = Without(@, 0 .. f.watermark)]
              ELSE r
    IN  IF ~r.recovering \/ f.cycle < r.cycle THEN r
        ELSE IF r1.invalid THEN r1
        ELSE IF f.seq \notin DOMAIN r1.snap
        THEN Limit([r1 EXCEPT !.snap = With(@, f.seq, f)])
        ELSE IF r1.snap[f.seq] = f THEN r1
        ELSE [r1 EXCEPT !.invalid = TRUE, !.snap = <<>>]

\* The one hash check between publisher and receiver.
NotVerified(book, hash) == TRUE
Verified(book, hash) == book = hash

\* build(): a batch, if the snapshot is complete, consistent and hashes to what
\* it claims, and the cached incrementals continue it without a gap.
Build(r) ==
    LET n == Cardinality(DOMAIN r.snap)
        keys == DOMAIN r.snap
        framed == /\ ~r.invalid /\ 0 \in keys
                  /\ r.snap[0].ev.type = "START"
                  /\ \E k \in keys : r.snap[k].ev.type = "END" /\ \A j \in keys : j <= k
        first == r.snap[0]
        last == r.snap[CHOOSE k \in keys : \A j \in keys : j <= k]
        w == first.watermark
        sealed == /\ last.watermark = w /\ last.hash = first.hash
                  /\ first.ev.id = w /\ last.ev.id = w
        later == {s \in DOMAIN r.inc : s > w}
        complete == last.seq = n - 1 /\ (later # {} => w + 1 \in later)
        gapless == later = (w + 1) .. (w + Cardinality(later))
        body == [i \in 1 .. n - 2 |-> r.snap[i].ev]
        uniform == /\ \A k \in keys : r.snap[k].watermark = w /\ r.snap[k].hash = first.hash
                   /\ n > 2 /\ body[1].type = "CLEAR"
                   /\ \A i \in 2 .. n - 2 : body[i].type = "ADD"
                   /\ AllApply(<<>>, body)
        book == ApplyAll(<<>>, body)
        incs == [i \in 1 .. Cardinality(later) |-> r.inc[w + i]]
        none(invalid) == [batch |-> NoBatch, rec |-> [r EXCEPT !.invalid = @ \/ invalid]]
    IN  IF ~framed THEN none(FALSE)
        ELSE IF ~sealed THEN none(TRUE)
        ELSE IF ~complete \/ ~uniform THEN none(FALSE)
        ELSE IF ~Verified(book, first.hash) THEN none(TRUE)
        ELSE IF ~gapless \/ ~AllApply(book, incs) THEN none(FALSE)
        ELSE [batch |-> [events |-> body \o incs, watermark |-> w + Len(incs)], rec |-> r]

CommitOneEarly(r, watermark) ==
    [r EXCEPT !.expected = watermark, !.recovering = FALSE, !.snap = <<>>, !.inc = <<>>]

\* commit()
Commit(r, watermark) ==
    [r EXCEPT !.expected = watermark + 1, !.recovering = FALSE, !.snap = <<>>, !.inc = <<>>]
-------------------------------------------------------------------------------
(* MarketDataConsumer.                                                       *)

\* The tail of process() with publishRecovery(): what r yields is admitted to
\* the queue as a whole with its end marker, or kept and retried.
Recover(r, o) ==
    LET b == Build(r)
        events == Append(b.batch.events, Event("COMMIT", b.batch.watermark, o))
    IN  IF b.batch = NoBatch
        THEN rec' = b.rec /\ candidate' = NoBatch /\ UNCHANGED out
        ELSE IF Len(out) + Len(events) <= QueueCapacity
        THEN /\ rec' = Commit(b.rec, b.batch.watermark)
             /\ candidate' = NoBatch
             /\ out' = out \o events
        ELSE /\ rec' = b.rec
             /\ candidate' = [events |-> events, watermark |-> b.batch.watermark]
             /\ UNCHANGED out

\* generation_->fetch_add(1) + 1
NextGeneration ==
    /\ generation < MaxGeneration
    /\ generation' = generation + 1
    /\ observed' = generation + 1

StaleSameGeneration ==
    /\ rec' = Restart(rec)
    /\ candidate' = NoBatch
    /\ UNCHANGED <<out, generation, observed>>

\* stale()
Stale ==
    /\ NextGeneration
    /\ rec' = Restart(rec)
    /\ candidate' = NoBatch
    /\ UNCHANGED out

\* process() of an incremental: the expected one goes straight to the queue, an
\* old one is ignored, a gap or a full queue starts a new recovery with this
\* frame, and a recovering consumer caches it.
ProcessIncremental(seq) ==
    LET full == Len(out) = QueueCapacity
        next == seq = rec.expected /\ ~full
        old == seq < rec.expected
    IN  \/ /\ ~rec.recovering /\ next
           /\ out' = Append(out, stream[seq])
           /\ rec' = [rec EXCEPT !.expected = @ + 1]
           /\ UNCHANGED <<candidate, observed, generation>>
        \/ /\ ~rec.recovering /\ old
           /\ UNCHANGED <<rec, candidate, observed, generation, out>>
        \/ /\ ~rec.recovering /\ ~next /\ ~old
           /\ NextGeneration
           /\ Recover(IngestIncremental(Restart(rec), seq, stream[seq]), generation + 1)
        \/ /\ rec.recovering
           /\ Recover(IngestIncremental(rec, seq, stream[seq]), observed)
           /\ UNCHANGED <<observed, generation>>

\* receive() and process() of a snapshot frame: ignored when live.
ProcessSnapshot(f) ==
    /\ UNCHANGED <<observed, generation>>
    /\ \/ /\ ~rec.recovering
          /\ UNCHANGED <<rec, candidate, out>>
       \/ /\ rec.recovering
          /\ Recover(IngestSnapshot(rec, f), observed)

Fault(kind) ==
    /\ kind \in FaultKinds
    /\ faults < MaxFaults
    /\ faults' = faults + 1

InFlight(net) == {i \in 1 .. Len(net) : i <= Window}

\* The cache overflows: the consumer forgets how far it had been.
Forget == bestSeq' = IF rec.recovering /\ rec'.recovering
                        /\ Cached(rec) = CacheLimit /\ Cached(rec') = 0
                     THEN 0 ELSE bestSeq

\* A datagram arrives, out of order within the window, perhaps not for the last time.
ReceiveIncremental ==
    /\ \E i \in InFlight(incNet) :
          /\ ProcessIncremental(incNet[i])
          /\ \/ incNet' = RemoveAt(incNet, i) /\ UNCHANGED faults
             \/ Fault("dup") /\ UNCHANGED incNet
    /\ Forget
    /\ UNCHANGED <<exchangeVars, snapNet, engineVars>>

ReceiveSnapshot ==
    /\ \E i \in InFlight(snapNet) :
          /\ ProcessSnapshot(snapNet[i])
          /\ \/ snapNet' = RemoveAt(snapNet, i) /\ UNCHANGED faults
             \/ Fault("dup") /\ UNCHANGED snapNet
    /\ Forget
    /\ UNCHANGED <<exchangeVars, incNet, engineVars>>

\* A truncated or undecodable datagram: receive() calls stale(), except for a
\* snapshot that arrives when live.
ReceiveDamaged ==
    /\ Fault("damage")
    /\ \/ /\ incNet # <<>> /\ incNet' = Tail(incNet)
          /\ Stale /\ UNCHANGED snapNet
       \/ /\ snapNet # <<>> /\ snapNet' = Tail(snapNet)
          /\ UNCHANGED incNet
          /\ IF rec.recovering THEN Stale ELSE UNCHANGED <<consumerVars, out, generation>>
    /\ bestSeq' = IF rec' = rec THEN bestSeq ELSE 0
    /\ UNCHANGED <<exchangeVars, engineVars>>

\* run(): the trading engine asked for another recovery.
ObserveGeneration ==
    /\ generation # observed
    /\ observed' = generation
    /\ rec' = Restart(rec)
    /\ candidate' = NoBatch
    /\ bestSeq' = 0
    /\ UNCHANGED <<exchangeVars, netVars, engineVars, out, generation>>

\* run(): publishRecovery() of a waiting candidate, once there is room.
PublishRecovery ==
    /\ candidate # NoBatch
    /\ Len(out) + Len(candidate.events) <= QueueCapacity
    /\ out' = out \o candidate.events
    /\ rec' = Commit(rec, candidate.watermark)
    /\ candidate' = NoBatch
    /\ UNCHANGED <<exchangeVars, netVars, engineVars, observed, generation, bestSeq>>
-------------------------------------------------------------------------------
(* The network loses a datagram, or delivers a snapshot frame altered.       *)

Lose ==
    /\ Fault("lose")
    /\ \/ incNet # <<>> /\ incNet' = Tail(incNet) /\ UNCHANGED snapNet
       \/ snapNet # <<>> /\ snapNet' = Tail(snapNet) /\ UNCHANGED incNet
    /\ UNCHANGED <<exchangeVars, consumerVars, engineVars, out, generation, bestSeq>>

Garble ==
    /\ Fault("garble")
    /\ \E i \in 1 .. Len(snapNet) :
          LET e == snapNet[i].ev
              g == IF e.type = "ADD" THEN [e EXCEPT !.qty = @ + 1] ELSE [e EXCEPT !.id = @ + 1]
          IN  snapNet' = [snapNet EXCEPT ![i].ev = g]
    /\ UNCHANGED <<exchangeVars, incNet, consumerVars, engineVars, out, generation, bestSeq>>
-------------------------------------------------------------------------------
(* TradeEngine::run on the market-data queue.                                *)

\* marketReady()
Ready == applied = generation

\* onMarketUpdate() of a book event; a refused one invalidates the market data.
EngineUpdate ==
    /\ out # <<>> /\ Head(out).type # "COMMIT"
    /\ LET e == Head(out)
           fits == e.type # "ADD" \/ Cardinality(DOMAIN local) < LocalOrders
           seq == IF e.type = "CLEAR" THEN 0 ELSE localSeq + 1
       IN  \/ /\ Applies(local, e) /\ fits
              /\ local' = Apply(local, e)
              /\ localSeq' = seq
              /\ refused' = (refused /\ e.type # "CLEAR")
              /\ bestSeq' = IF Ready THEN Max({bestSeq, seq}) ELSE bestSeq
              /\ UNCHANGED generation
           \/ /\ ~(Applies(local, e) /\ fits)
              /\ generation < MaxGeneration
              /\ generation' = generation + 1
              /\ refused' = TRUE
              /\ UNCHANGED <<local, localSeq, bestSeq>>
    /\ out' = Tail(out)
    /\ UNCHANGED <<exchangeVars, netVars, consumerVars, applied, epc>>

\* A RECOVERY_COMMIT of the current generation is recorded in two steps, between
\* which the consumer may start another generation; an outdated one is skipped.
EngineCheckMarker ==
    /\ out # <<>> /\ Head(out).type = "COMMIT" /\ epc = "check"
    /\ localSeq' = Head(out).id
    /\ IF Head(out).qty = generation
       THEN epc' = "store" /\ UNCHANGED out
       ELSE out' = Tail(out) /\ UNCHANGED epc
    /\ UNCHANGED <<exchangeVars, netVars, consumerVars, generation, applied, local, refused, bestSeq>>

EngineStoreMarker ==
    /\ epc = "store"
    /\ applied' = Head(out).qty
    /\ bestSeq' = IF Head(out).qty = generation THEN Max({bestSeq, localSeq}) ELSE bestSeq
    /\ epc' = "check"
    /\ out' = Tail(out)
    /\ UNCHANGED <<exchangeVars, netVars, consumerVars, generation, local, localSeq, refused>>
-------------------------------------------------------------------------------
Init ==
    /\ stream \in Streams
    /\ published = 0 /\ synced = 0 /\ cycles = 0
    /\ incNet = <<>> /\ snapNet = <<>> /\ faults = 0
    /\ rec = [recovering |-> TRUE, invalid |-> FALSE, cycle |-> 0, expected |-> 1,
              snap |-> <<>>, inc |-> <<>>]
    /\ candidate = NoBatch /\ observed = 2 /\ out = <<>> /\ generation = 2
    /\ applied = 0 /\ epc = "check" /\ local = <<>> /\ localSeq = 0 /\ bestSeq = 0
    /\ refused = FALSE

Exchange == PublishIncremental \/ Synchronize \/ PublishSnapshot
Network == Lose \/ Garble
Consumer == \/ ReceiveIncremental \/ ReceiveSnapshot \/ ReceiveDamaged
            \/ ObserveGeneration \/ PublishRecovery
Engine == EngineUpdate \/ EngineCheckMarker \/ EngineStoreMarker

Next == Exchange \/ Network \/ Consumer \/ Engine

Spec == Init /\ [][Next]_vars

\* Every thread keeps running; the consumer polls both sockets in each round.
FairSpec ==
    /\ Spec
    /\ WF_vars(PublishIncremental) /\ WF_vars(Synchronize) /\ WF_vars(PublishSnapshot)
    /\ WF_vars(ReceiveIncremental) /\ WF_vars(ReceiveSnapshot)
    /\ WF_vars(ObserveGeneration) /\ WF_vars(PublishRecovery)
    /\ WF_vars(Engine)
-------------------------------------------------------------------------------
Orders == UNION {{s[i].id : i \in DOMAIN s} : s \in Streams}

\* Every variable has its type.
TypeOK ==
    /\ stream \in Streams
    /\ published \in 0 .. Len(stream) /\ synced \in 0 .. published
    /\ cycles \in 0 .. MaxCycle /\ faults \in 0 .. MaxFaults
    /\ \A i \in DOMAIN incNet : incNet[i] \in 1 .. published
    /\ \A i \in DOMAIN snapNet : snapNet[i].cycle \in 1 .. cycles
    /\ rec.recovering \in BOOLEAN /\ rec.invalid \in BOOLEAN
    /\ rec.cycle \in 0 .. cycles /\ rec.expected \in 1 .. published + 1
    /\ DOMAIN rec.inc \subseteq 1 .. published
    /\ Cached(rec) <= CacheLimit
    /\ observed \in 2 .. generation /\ generation \in 2 .. MaxGeneration
    /\ applied \in {0} \cup 2 .. generation
    /\ Len(out) <= QueueCapacity
    /\ epc \in {"check", "store"}
    /\ DOMAIN local \subseteq Orders /\ localSeq \in Nat /\ bestSeq \in Nat
    /\ refused \in BOOLEAN

\* While marketReady() holds, the engine's book is exactly the exchange's book
\* after the first localSeq updates: no lost, repeated or reordered datagram, no
\* altered snapshot frame and no leftover of an older generation shows in a trusted
\* book.  (An altered incremental would: nothing in it could be checked.)
TrustedBookIsTrue ==
    Ready => localSeq <= published /\ local = BookAt(localSeq)

\* While marketReady() holds the consumer is live in the same generation, and
\* the queue holds the updates between the book and expected_, in order.
TrustedFeedIsGapless ==
    Ready => /\ ~rec.recovering /\ observed = generation
             /\ rec.expected = localSeq + Len(out) + 1
             /\ out = SubSeq(stream, localSeq + 1, localSeq + Len(out))

\* The checks of the engine's book never refuse an event, not even those that were
\* queued before a gap and are followed by a batch of a newer generation.  (An
\* order the pool had no room for is missing until the next CLEAR.)
EngineNeverRejects ==
    ~refused /\ out # <<>> /\ Head(out).type # "COMMIT" => Applies(local, Head(out))

\* Recovery never takes a trusted book back behind one that was trusted before,
\* although late snapshots with older watermarks still arrive: the incremental
\* that revealed the gap stays cached, and every batch must connect to it.  (A
\* damaged datagram, an event the engine refused or a cache overflow leaves
\* nothing to connect to; the ghost starts again there.)
NoRegress == Ready => localSeq >= bestSeq

\* A consumer that waits for a snapshot when the stream is complete, with one
\* cycle to come and no fault left, ends with the final book, trusted.
CatchesUp ==
    (/\ faults = MaxFaults /\ synced = Len(stream)
     /\ rec.recovering /\ candidate = NoBatch
     /\ cycles < MaxCycle /\ snapNet = <<>>)
      ~> (Ready /\ local = BookAt(Len(stream)))
===============================================================================
