--------------------------- MODULE AuditTrailProofs ---------------------------
(***************************************************************************)
(* The journal can be replayed after any crash, and what a client may have *)
(* seen is durable, for any number of requests and starts.                 *)
(*                                                                         *)
(* The inductive invariant AuditInv says who owns the mutex and how far    *)
(* its record is written (so records do not mix), that what is in the      *)
(* file but not synced is the record being appended, and, for the order of *)
(* the records, which of them are logged for each id that is still on its  *)
(* way through the queues.                                                 *)
(***************************************************************************)
EXTENDS AuditTrail, CommonLemmas

AuditRecords == [kind : Kinds, id : Nat]
Active == life \in {"creating", "running"}

\* The i-th record of the file is whole, and is r; it is within the first n parts.
RecordAt(i, r, n) == i \in Nat /\ i >= 1 /\ 2 * i <= n /\ file[2 * i][1] = r
LoggedWithin(r, n) == \E i \in Nat : RecordAt(i, r, n)
Logged(r) == LoggedWithin(r, Len(file))
Durable(r) == LoggedWithin(r, synced)

\* How much of the record being appended is in the file.
Written == IF mutex = None THEN 0 ELSE thread[mutex].done

Pending(t, kind, id) == thread[t].pc # "idle" /\ thread[t].rec = Record(kind, id)

ThreadInv ==
    /\ thread \in [Threads -> [pc : {"idle", "lock", "write", "sync"}, rec : AuditRecords, done : 0 .. 2]]
    /\ mutex \in Threads \cup {None}
    /\ \A t \in Threads :
          /\ thread[t].pc = "idle" => thread[t] = Idle
          /\ thread[t].pc = "lock" => thread[t].done = 0
          /\ thread[t].pc = "write" => thread[t].done \in {0, 1}
          /\ thread[t].pc = "sync" => thread[t].done = 2
          /\ thread[t].pc \in {"write", "sync"} <=> mutex = t
    /\ thread["main"].pc # "idle" => thread["main"].rec = Record("HEADER", 0)
    /\ thread["server"].pc # "idle" => thread["server"].rec.kind \in {"RECEIVED", "REJECT"}
    /\ thread["engine"].pc # "idle" => thread["engine"].rec.kind \in {"APPLY", "RESPONSE"}

LifeInv ==
    /\ life \in {"down", "creating", "running", "refused"}
    /\ ~Active => /\ \A t \in Threads : thread[t] = Idle
                  /\ mutex = None
    /\ life # "running" => /\ thread["server"] = Idle /\ thread["engine"] = Idle
                           /\ requests = <<>> /\ responses = <<>> /\ outbound = <<>>
    /\ life = "creating" =>
          /\ thread["main"] # Idle => Len(file) = thread["main"].done
          /\ thread["main"] = Idle => Len(file) = 2
    /\ life = "running" => thread["main"] = Idle /\ entry /\ Len(file) >= 2
    /\ Active \/ life = "refused" => file # None

\* The file: parts alternate, the first record is the header.
FileInv ==
    /\ entry \in BOOLEAN
    /\ file # None =>
          /\ file \in Seq(FileParts)
          /\ synced \in 0 .. Len(file)
          /\ \A i \in 1 .. Len(file) : /\ file[i][2] = IF i % 2 = 1 THEN 1 ELSE 2
                                       /\ i % 2 = 0 => file[i][1] = file[i - 1][1]
          /\ Len(file) >= 2 => file[2][1] = Record("HEADER", 0)
    /\ file = None => synced = 0

\* Only the record being appended may be lost, and it is the last one.
TailInv ==
    Active =>
      /\ (Len(file) - Written) % 2 = 0
      /\ synced = Len(file) - Written
      /\ \A t \in Threads : mutex = t /\ thread[t].done > 0 =>
            /\ Len(file) >= thread[t].done
            /\ file[Len(file)][1] = thread[t].rec

\* No record twice, each request's records in order.
OrderInv ==
    file # None =>
      /\ \A r \in AuditRecords, i, j \in Nat :
            RecordAt(i, r, Len(file)) /\ RecordAt(j, r, Len(file)) => i = j
      /\ \A id \in Nat, i \in Nat :
            /\ RecordAt(i, Record("RESPONSE", id), Len(file)) =>
                  \E j \in Nat : j < i /\ RecordAt(j, Record("APPLY", id), Len(file))
            /\ RecordAt(i, Record("APPLY", id), Len(file)) =>
                  \E j \in Nat : j < i /\ RecordAt(j, Record("RECEIVED", id), Len(file))

\* What is still to be logged is not in the file.
FreshInv ==
    /\ next \in Nat /\ next >= 1
    /\ file # None => \A r \in AuditRecords : Logged(r) => r.id < next
    /\ \A t \in Threads : thread[t].rec.id < next
    /\ \A t \in Threads : thread[t].pc \in {"lock", "write"} => ~Logged(thread[t].rec)
    /\ \A id \in Nat : Pending("server", "RECEIVED", id) =>
          /\ ~Logged(Record("APPLY", id)) /\ ~Logged(Record("RESPONSE", id))
          /\ \A i \in 1 .. Len(requests) : requests[i] # id

\* The requests between the server and the engine.
RequestInv ==
    /\ requests \in Seq(Nat)
    /\ \A i, j \in 1 .. Len(requests) : requests[i] = requests[j] => i = j
    /\ thread["engine"].pc # "idle" => /\ Len(requests) >= 1
                                       /\ requests[1] = thread["engine"].rec.id
                                       /\ thread["engine"].rec.kind = "RESPONSE" =>
                                             Logged(Record("APPLY", requests[1]))
    /\ \A i \in 1 .. Len(requests) :
          /\ requests[i] < next
          /\ Logged(Record("RECEIVED", requests[i]))
          /\ i > 1 \/ thread["engine"].pc = "idle" => ~Logged(Record("APPLY", requests[i]))
          /\ i > 1 \/ thread["engine"].pc = "idle" \/ thread["engine"].rec.kind = "APPLY" =>
                ~Logged(Record("RESPONSE", requests[i]))

Answered(id) == Durable(Record("RESPONSE", id)) \/ Durable(Record("REJECT", id))
Archived(id) == Record("RESPONSE", id) \in archive \/ Record("REJECT", id) \in archive

\* A response is durable before it leaves the process.
DurableInv ==
    /\ responses \in Seq(Nat) /\ outbound \in Seq(Nat) /\ seen \subseteq Nat
    /\ \A i \in 1 .. Len(responses) : Durable(Record("RESPONSE", responses[i]))
    /\ \A i \in 1 .. Len(outbound) :
          Answered(outbound[i]) \/ Pending("server", "REJECT", outbound[i])
    /\ \A id \in seen : Archived(id) \/ (file # None /\ entry /\ Answered(id))

AuditInv == /\ ThreadInv /\ LifeInv /\ FileInv /\ TailInv /\ OrderInv
            /\ FreshInv /\ RequestInv /\ DurableInv

LEMMA RecordType ==
    ASSUME NEW kind \in Kinds, NEW id \in Nat
    PROVE  /\ Record(kind, id) \in AuditRecords
           /\ Record(kind, id).kind = kind /\ Record(kind, id).id = id
BY DEF Record, AuditRecords

LEMMA RecordEq ==
    ASSUME NEW r \in AuditRecords PROVE r = Record(r.kind, r.id)
BY DEF Record, AuditRecords

LEMMA IdleType == /\ Idle.pc = "idle" /\ Idle.done = 0 /\ Idle.rec = Record("NONE", 0)
                  /\ Idle \in [pc : {"idle", "lock", "write", "sync"}, rec : AuditRecords, done : 0 .. 2]
BY RecordType DEF Idle, Kinds

LEMMA AppendingType ==
    ASSUME NEW r \in AuditRecords
    PROVE  /\ Appending(r).pc = "lock" /\ Appending(r).done = 0 /\ Appending(r).rec = r
           /\ Appending(r) \in [pc : {"idle", "lock", "write", "sync"}, rec : AuditRecords, done : 0 .. 2]
BY DEF Appending

\* Records gives the whole records.
LEMMA RecordsAre ==
    ASSUME NEW S, NEW f \in Seq(S)
    PROVE  /\ DOMAIN Records(f) = {i \in Nat : i >= 1 /\ 2 * i <= Len(f)}
           /\ \A i \in DOMAIN Records(f) : Records(f)[i] = f[2 * i][1]
           /\ Records(f) = <<>> <=> Len(f) < 2
           /\ Len(Records(f)) \in Nat /\ DOMAIN Records(f) = 1 .. Len(Records(f))
<1>1. PICK n \in Nat : n = Len(f) \div 2
  OBVIOUS
<1>2. \A i \in Nat : i <= n <=> 2 * i <= Len(f)
  BY <1>1
<1>3. Records(f) = [i \in 1 .. n |-> f[2 * i][1]]
  BY <1>1 DEF Records
<1>4. Records(f) = <<>> <=> n = 0
  <2>1. PICK R : R = {f[2 * i][1] : i \in 1 .. n}
    OBVIOUS
  <2>2. [i \in 1 .. n |-> f[2 * i][1]] \in [1 .. n -> R]
    BY <2>1
  <2>3. Records(f) \in Seq(R) /\ Len(Records(f)) = n
    BY <1>3, <2>2
  <2> QED
    BY <2>3, EmptySeq
<1> QED
  <2>1. DOMAIN Records(f) = 1 .. n /\ Len(Records(f)) = n
    BY <1>3
  <2>2. 1 .. n = {i \in Nat : i >= 1 /\ 2 * i <= Len(f)}
    BY <1>2
  <2>3. n = 0 <=> Len(f) < 2
    BY <1>1
  <2> QED
    BY <1>3, <1>4, <2>1, <2>2, <2>3

\* The file stays: so does what is logged.
LEMMA SameLog ==
    ASSUME file' = file
    PROVE  /\ \A r : Logged(r)' <=> Logged(r)
           /\ \A i, r : RecordAt(i, r, Len(file))' <=> RecordAt(i, r, Len(file))
BY DEF Logged, LoggedWithin, RecordAt

\* What was durable stays so when more is synced.
LEMMA MoreDurable ==
    ASSUME file' = file, synced' = synced \/ (synced \in Nat /\ synced' \in Nat /\ synced <= synced')
    PROVE  /\ \A r : Durable(r) => Durable(r)'
           /\ \A id : Answered(id) => Answered(id)'
<1>1. \A r : Durable(r) => Durable(r)'
  BY DEF Durable, LoggedWithin, RecordAt
<1> QED
  BY <1>1 DEF Answered

\* Lock: only who holds the mutex, and how far a thread is, change.
LEMMA LockStep ==
    ASSUME AuditInv, NEW t \in Threads, Lock(t) PROVE AuditInv'
<1>1. /\ thread[t].pc = "lock" /\ mutex = None /\ mutex' = t
      /\ thread' = [thread EXCEPT ![t].pc = "write"]
      /\ UNCHANGED <<file, synced, entry, archive, life, requests, responses, outbound, seen, next>>
  BY DEF Lock, diskVars, memoryVars
<1>2. /\ ThreadInv /\ LifeInv /\ FileInv /\ TailInv /\ OrderInv
      /\ FreshInv /\ RequestInv /\ DurableInv
  BY DEF AuditInv
<1>3. /\ thread' \in [Threads -> [pc : {"idle", "lock", "write", "sync"}, rec : AuditRecords, done : 0 .. 2]]
      /\ thread'[t].pc = "write" /\ thread'[t].rec = thread[t].rec /\ thread'[t].done = 0
      /\ \A u \in Threads : u # t => thread'[u] = thread[u]
      /\ \A u \in Threads : thread'[u].rec = thread[u].rec /\ thread'[u].done = thread[u].done
      /\ \A u \in Threads : thread'[u].pc = "idle" <=> thread[u].pc = "idle"
  BY <1>1, <1>2 DEF ThreadInv
<1>4. "main" \in Threads /\ "server" \in Threads /\ "engine" \in Threads
  BY DEF Threads
<1>5. ThreadInv'
  BY <1>1, <1>2, <1>3, <1>4, NoneAssumption DEF ThreadInv
<1>6. \A u \in Threads : thread'[u] = Idle <=> thread[u] = Idle
  BY <1>2, <1>3, IdleType DEF ThreadInv
<1>7. LifeInv'
  BY <1>1, <1>2, <1>3, <1>4, <1>6, IdleType DEF LifeInv, Active
<1>8. FileInv' /\ OrderInv'
  BY <1>1, <1>2, SameLog DEF FileInv, OrderInv
<1>9. TailInv'
  BY <1>1, <1>2, <1>3, NoneAssumption DEF TailInv, Active, Written
<1>10. FreshInv'
  BY <1>1, <1>2, <1>3, <1>4, SameLog DEF FreshInv, Pending
<1>11. RequestInv'
  BY <1>1, <1>2, <1>3, <1>4, SameLog DEF RequestInv
<1>12. DurableInv'
  BY <1>1, <1>2, <1>3, <1>4, MoreDurable DEF DurableInv, Pending, Archived
<1> QED
  BY <1>5, <1>7, <1>8, <1>9, <1>10, <1>11, <1>12 DEF AuditInv

\* A write appends the parts from d + 1 to n of a record.
Grows(rec, d, n) ==
    /\ file' \in Seq(FileParts)
    /\ Len(file') = Len(file) + (n - d)
    /\ \A i \in 1 .. Len(file) : file'[i] = file[i]
    /\ \A j \in 1 .. n - d : file'[Len(file) + j] = <<rec, d + j>>

LEMMA PartsGrow ==
    ASSUME file \in Seq(FileParts), NEW rec \in AuditRecords, NEW d \in {0, 1}, NEW n \in d + 1 .. 2,
           file' = file \o Parts(rec, d, n)
    PROVE  Grows(rec, d, n)
<1>1. PICK k \in 1 .. 2 : k = n - d
  OBVIOUS
<1>2. PICK p : p = Parts(rec, d, n)
  OBVIOUS
<1>3. p = [i \in 1 .. k |-> <<rec, d + i>>]
  BY <1>1, <1>2 DEF Parts
<1>4. \A i \in 1 .. k : <<rec, d + i>> \in FileParts
  BY <1>1 DEF FileParts, AuditRecords
<1>5. p \in Seq(FileParts) /\ Len(p) = k
  BY <1>3, <1>4
<1>6. PICK L \in Nat : L = Len(file)
  OBVIOUS
<1>7. /\ file' \in Seq(FileParts) /\ Len(file') = L + k
      /\ \A i \in 1 .. L + k : file'[i] = IF i <= L THEN file[i] ELSE p[i - L]
  BY <1>2, <1>5, <1>6, ConcatProperties
<1>8. \A i \in 1 .. L : file'[i] = file[i]
  BY <1>7
<1>9. ASSUME NEW j \in 1 .. k PROVE file'[L + j] = <<rec, d + j>>
  <2>1. L + j \in 1 .. L + k /\ ~(L + j <= L) /\ (L + j) - L = j
    OBVIOUS
  <2> QED
    BY <1>3, <1>7, <2>1
<1> QED
  BY <1>1, <1>6, <1>7, <1>8, <1>9 DEF Grows

\* After it the file holds the same records, and the new one when it is whole.
LEMMA GrowLog ==
    ASSUME file \in Seq(FileParts), NEW rec \in AuditRecords, NEW d \in {0, 1}, NEW n \in d + 1 .. 2,
           (Len(file) - d) % 2 = 0, Grows(rec, d, n)
    PROVE  /\ \A i \in Nat : \A r : RecordAt(i, r, Len(file))' <=>
                 RecordAt(i, r, Len(file)) \/ (n = 2 /\ r = rec /\ i \in Nat /\ 2 * i = Len(file'))
           /\ \A r : Logged(r)' <=> Logged(r) \/ (n = 2 /\ r = rec)
           /\ n = 2 => file'[Len(file')][1] = rec /\ Len(file') % 2 = 0
<1>1. PICK L \in Nat : L = Len(file)
  OBVIOUS
<1>2. Len(file') = L + (n - d)
  BY <1>1 DEF Grows
<1>3. n = 2 => /\ (L + (n - d)) % 2 = 0
               /\ file'[L + (n - d)][1] = rec
  <2>1. ASSUME n = 2 PROVE file'[L + (n - d)] = <<rec, 2>>
    BY <1>1, <2>1 DEF Grows
  <2> QED
    BY <1>1, <2>1
<1>4. ASSUME NEW i \in Nat, NEW r, RecordAt(i, r, Len(file))
      PROVE  RecordAt(i, r, Len(file))'
  BY <1>1, <1>2, <1>4 DEF RecordAt, Grows
<1>5. ASSUME NEW i \in Nat, n = 2, 2 * i = Len(file')
      PROVE  RecordAt(i, rec, Len(file))'
  BY <1>1, <1>2, <1>3, <1>5 DEF RecordAt
<1>6. ASSUME NEW i \in Nat, NEW r, RecordAt(i, r, Len(file))'
      PROVE  RecordAt(i, r, Len(file)) \/ (n = 2 /\ r = rec /\ 2 * i = Len(file'))
  <2>1. i >= 1 /\ 2 * i <= L + (n - d) /\ file'[2 * i][1] = r
    BY <1>2, <1>6 DEF RecordAt
  <2>2. CASE 2 * i <= L
    BY <1>1, <2>1, <2>2 DEF RecordAt, Grows
  <2>3. CASE 2 * i > L
    <3>1. n = 2 /\ 2 * i = L + (n - d)
      BY <1>1, <2>1, <2>3
    <3> QED
      BY <1>2, <1>3, <2>1, <3>1
  <2> QED
    BY <2>2, <2>3
<1>7. \A i \in Nat : \A r : RecordAt(i, r, Len(file))' <=>
                 RecordAt(i, r, Len(file)) \/ (n = 2 /\ r = rec /\ i \in Nat /\ 2 * i = Len(file'))
  BY <1>4, <1>5, <1>6
<1>8. \A r : Logged(r)' <=> Logged(r) \/ (n = 2 /\ r = rec)
  <2>1. ASSUME n = 2 PROVE \E i \in Nat : 2 * i = Len(file')
    <3>1. PICK e \in Nat : e = L + (n - d)
      OBVIOUS
    <3>2. PICK h \in Nat : h = e \div 2
      OBVIOUS
    <3>3. 2 * h = e
      BY <1>3, <2>1, <3>1, <3>2
    <3> QED
      BY <1>2, <3>1, <3>3
  <2>2. \A r : Logged(r)' <=> \E i \in Nat : RecordAt(i, r, Len(file))'
    BY DEF Logged, LoggedWithin
  <2>3. \A r : Logged(r) <=> \E i \in Nat : RecordAt(i, r, Len(file))
    BY DEF Logged, LoggedWithin
  <2>4. ASSUME NEW r, Logged(r)' PROVE Logged(r) \/ (n = 2 /\ r = rec)
    BY <1>7, <2>2, <2>3, <2>4
  <2>5. ASSUME NEW r, Logged(r) PROVE Logged(r)'
    BY <1>7, <2>2, <2>3, <2>5
  <2>6. ASSUME n = 2 PROVE Logged(rec)'
    BY <1>7, <2>1, <2>2, <2>6
  <2> QED
    BY <2>4, <2>5, <2>6
<1> QED
  BY <1>2, <1>3, <1>7, <1>8

\* The facts every part of the invariant needs of a write.
Writing(t, d, n) ==
    /\ t \in Threads /\ d \in {0, 1} /\ n \in d + 1 .. 2
    /\ thread[t].pc = "write" /\ thread[t].done = d /\ thread[t].rec \in AuditRecords
    /\ mutex = t /\ mutex' = mutex /\ Active /\ file \in Seq(FileParts)
    /\ (Len(file) - d) % 2 = 0 /\ synced = Len(file) - d
    /\ Grows(thread[t].rec, d, n)
    /\ thread' \in [Threads -> [pc : {"idle", "lock", "write", "sync"}, rec : AuditRecords, done : 0 .. 2]]
    /\ thread'[t].done = n /\ thread'[t].pc = (IF n = 2 THEN "sync" ELSE "write")
    /\ \A u \in Threads : thread'[u].rec = thread[u].rec
    /\ \A u \in Threads : u # t => thread'[u] = thread[u]
    /\ \A u \in Threads : thread'[u].pc = "idle" <=> thread[u].pc = "idle"
    /\ UNCHANGED <<synced, entry, archive, life, requests, responses, outbound, seen, next>>

LEMMA WriteFacts ==
    ASSUME AuditInv, NEW t \in Threads, Write(t)
    PROVE  \E d \in {0, 1} : \E n \in d + 1 .. 2 : Writing(t, d, n)
<1>1. /\ ThreadInv /\ LifeInv /\ FileInv /\ TailInv
  BY DEF AuditInv
<1>2. /\ thread[t].pc = "write" /\ thread[t].rec \in AuditRecords /\ mutex = t
      /\ thread[t].done \in {0, 1}
  BY <1>1 DEF ThreadInv, Write
<1>3. PICK d \in {0, 1} : d = thread[t].done
  BY <1>2
<1>4. PICK n \in d + 1 .. 2 :
          /\ file' = file \o Parts(thread[t].rec, d, n)
          /\ thread' = [thread EXCEPT ![t].done = n, ![t].pc = IF n = 2 THEN "sync" ELSE "write"]
  BY <1>3 DEF Write
<1>5. Active
  BY <1>1, <1>2, NoneAssumption DEF LifeInv
<1>6. file \in Seq(FileParts)
  BY <1>1, <1>5 DEF LifeInv, FileInv
<1>7. Written = d
  BY <1>2, <1>3, NoneAssumption DEF Written
<1>8. (Len(file) - d) % 2 = 0 /\ synced = Len(file) - d
  BY <1>1, <1>5, <1>7 DEF TailInv
<1>9. Grows(thread[t].rec, d, n)
  BY <1>2, <1>4, <1>6, PartsGrow
<1>10. /\ thread' \in [Threads -> [pc : {"idle", "lock", "write", "sync"}, rec : AuditRecords, done : 0 .. 2]]
       /\ thread'[t].done = n /\ thread'[t].pc = (IF n = 2 THEN "sync" ELSE "write")
       /\ \A u \in Threads : thread'[u].rec = thread[u].rec
       /\ \A u \in Threads : u # t => thread'[u] = thread[u]
  <2>1. PICK pc : pc = (IF n = 2 THEN "sync" ELSE "write")
    OBVIOUS
  <2>2. pc \in {"idle", "lock", "write", "sync"} /\ n \in 0 .. 2
    BY <2>1
  <2>3. thread' = [thread EXCEPT ![t].done = n, ![t].pc = pc]
    BY <1>4, <2>1
  <2>4. /\ DOMAIN thread' = Threads /\ thread' = [u \in Threads |-> thread'[u]]
        /\ thread'[t] = [thread[t] EXCEPT !.done = n, !.pc = pc]
        /\ \A u \in Threads : u # t => thread'[u] = thread[u]
    BY <1>1, <2>3 DEF ThreadInv
  <2>5. thread[t] \in [pc : {"idle", "lock", "write", "sync"}, rec : AuditRecords, done : 0 .. 2]
    BY <1>1 DEF ThreadInv
  <2>6. /\ thread'[t].done = n /\ thread'[t].pc = pc /\ thread'[t].rec = thread[t].rec
        /\ thread'[t] \in [pc : {"idle", "lock", "write", "sync"}, rec : AuditRecords, done : 0 .. 2]
    BY <2>2, <2>4, <2>5
  <2>7. \A u \in Threads :
           thread'[u] \in [pc : {"idle", "lock", "write", "sync"}, rec : AuditRecords, done : 0 .. 2]
    BY <1>1, <2>4, <2>6 DEF ThreadInv
  <2>8. thread' \in [Threads -> [pc : {"idle", "lock", "write", "sync"}, rec : AuditRecords, done : 0 .. 2]]
    BY <2>4, <2>7
  <2>9. \A u \in Threads : thread'[u].rec = thread[u].rec
    BY <2>4, <2>6
  <2> QED
    BY <2>1, <2>4, <2>6, <2>8, <2>9
<1>11. \A u \in Threads : thread'[u].pc = "idle" <=> thread[u].pc = "idle"
  BY <1>2, <1>10
<1>12. UNCHANGED <<synced, entry, archive, life, mutex, requests, responses, outbound, seen, next>>
  BY DEF Write, memoryVars
<1>13. Writing(t, d, n)
  BY <1>2, <1>3, <1>5, <1>6, <1>8, <1>9, <1>10, <1>11, <1>12 DEF Writing
<1> QED
  BY <1>13

LEMMA WriteThread ==
    ASSUME AuditInv, NEW t, NEW d, NEW n, Writing(t, d, n)
    PROVE  ThreadInv' /\ LifeInv'
<1>1. ThreadInv /\ LifeInv
  BY DEF AuditInv
<1>2. "main" \in Threads /\ "server" \in Threads /\ "engine" \in Threads
  BY DEF Threads
<1>3. n \in 1 .. 2 /\ (n # 2 => n = 1) /\ thread[t].pc # "idle"
  BY DEF Writing
<1>4. ThreadInv'
  <2>1. mutex' \in Threads \cup {None}
    BY DEF Writing
  <2>2. ASSUME NEW u \in Threads
        PROVE  /\ thread'[u].pc = "idle" => thread'[u] = Idle
               /\ thread'[u].pc = "lock" => thread'[u].done = 0
               /\ thread'[u].pc = "write" => thread'[u].done \in {0, 1}
               /\ thread'[u].pc = "sync" => thread'[u].done = 2
               /\ thread'[u].pc \in {"write", "sync"} <=> mutex' = u
    <3>1. CASE u = t
      BY <1>3, <3>1 DEF Writing
    <3>2. CASE u # t
      BY <1>1, <3>2 DEF Writing, ThreadInv
    <3> QED
      BY <3>1, <3>2
  <2>3. /\ thread'["main"].pc # "idle" => thread'["main"].rec = Record("HEADER", 0)
        /\ thread'["server"].pc # "idle" => thread'["server"].rec.kind \in {"RECEIVED", "REJECT"}
        /\ thread'["engine"].pc # "idle" => thread'["engine"].rec.kind \in {"APPLY", "RESPONSE"}
    BY <1>1, <1>2 DEF Writing, ThreadInv
  <2> QED
    BY <2>1, <2>2, <2>3 DEF ThreadInv, Writing
<1>5. \A u \in Threads : thread'[u] = Idle <=> thread[u] = Idle
  BY <1>1, <1>4, IdleType DEF ThreadInv, Writing
<1>6. file' # None /\ Len(file') = Len(file) + (n - d) /\ Len(file) \in Nat
  BY NoneAssumption DEF Writing, Grows
<1>7. life = "creating" => t = "main" /\ Len(file') = n /\ thread'["main"] # Idle
  BY <1>1, <1>2, <1>3, <1>5, <1>6, IdleType DEF Writing, LifeInv, Threads
<1>8. life = "running" => Len(file') >= 2
  BY <1>1, <1>6 DEF Writing, LifeInv
<1>9. LifeInv'
  BY <1>1, <1>2, <1>5, <1>6, <1>7, <1>8 DEF Writing, LifeInv, Active
<1> QED
  BY <1>4, <1>9

LEMMA WriteFile ==
    ASSUME AuditInv, NEW t, NEW d, NEW n, Writing(t, d, n)
    PROVE  FileInv' /\ TailInv'
<1>1. ThreadInv /\ LifeInv /\ FileInv /\ TailInv
  BY DEF AuditInv
<1>2. PICK L \in Nat : L = Len(file)
  BY DEF Writing
<1>3. PICK rec : rec = thread[t].rec
  OBVIOUS
<1>4. /\ d \in {0, 1} /\ n \in d + 1 .. 2 /\ (L - d) % 2 = 0 /\ synced' = synced /\ synced = L - d
      /\ entry' = entry /\ file' \in Seq(FileParts) /\ Len(file') = L + (n - d)
      /\ \A i \in 1 .. L : file'[i] = file[i]
      /\ \A j \in 1 .. n - d : file'[L + j] = <<rec, d + j>>
  BY <1>2, <1>3 DEF Writing, Grows
<1>5. file # None /\ file' # None
  BY <1>4, NoneAssumption DEF Writing
<1>6. d = 1 => L >= 1 /\ file[L][1] = rec
  BY <1>1, <1>2, <1>3 DEF TailInv, Writing
<1>7. \A i \in 1 .. L + (n - d) : /\ file'[i][2] = IF i % 2 = 1 THEN 1 ELSE 2
                                  /\ i % 2 = 0 => file'[i][1] = file'[i - 1][1]
  <2>1. ASSUME NEW i \in 1 .. L + (n - d)
        PROVE  /\ file'[i][2] = IF i % 2 = 1 THEN 1 ELSE 2
               /\ i % 2 = 0 => file'[i][1] = file'[i - 1][1]
    <3>1. CASE i <= L
      <4>1. i \in 1 .. L /\ file'[i] = file[i] /\ (i % 2 = 0 => i - 1 \in 1 .. L /\ file'[i - 1] = file[i - 1])
        BY <1>4, <2>1, <3>1
      <4> QED
        BY <1>1, <1>2, <1>5, <4>1 DEF FileInv
    <3>2. CASE i = L + 1 /\ d = 0
      <4>1. 1 \in 1 .. n - d /\ i % 2 = 1
        BY <1>2, <1>4, <3>2
      <4>2. file'[L + 1] = <<rec, d + 1>>
        BY <1>4, <4>1
      <4> QED
        BY <3>2, <4>1, <4>2
    <3>3. CASE i = L + 1 /\ d = 1
      <4>1. file'[i] = <<rec, 2>> /\ i % 2 = 0 /\ i - 1 = L
        BY <1>4, <3>3
      <4>2. file'[L] = file[L]
        BY <1>4, <1>6, <3>3
      <4> QED
        BY <1>6, <3>3, <4>1, <4>2
    <3>4. CASE i = L + 2
      <4>1. d = 0 /\ n = 2 /\ file'[i] = <<rec, 2>> /\ file'[i - 1] = <<rec, 1>> /\ i % 2 = 0
        BY <1>4, <2>1, <3>4
      <4> QED
        BY <4>1
    <3> QED
      BY <1>4, <2>1, <3>1, <3>2, <3>3, <3>4
  <2> QED
    BY <2>1
<1>8. L + (n - d) >= 2 => file'[2][1] = Record("HEADER", 0)
  <2>1. CASE L >= 2
    BY <1>1, <1>2, <1>4, <1>5, <2>1 DEF FileInv
  <2>2. CASE L < 2 /\ L + (n - d) >= 2
    <3>1. life = "creating"
      BY <1>1, <1>2, <2>2 DEF Writing, LifeInv, Active
    <3>2. t = "main"
      BY <1>1, <3>1, IdleType DEF Writing, LifeInv, Threads
    <3>3. L = d /\ rec = Record("HEADER", 0)
      BY <1>1, <1>2, <1>3, <3>1, <3>2, IdleType DEF Writing, LifeInv, ThreadInv
    <3>4. n = 2 /\ file'[2] = <<rec, 2>>
      BY <1>4, <2>2, <3>3
    <3> QED
      BY <3>3, <3>4
  <2> QED
    BY <1>2, <2>1, <2>2
<1>9. FileInv'
  <2>1. synced' \in 0 .. Len(file')
    BY <1>4, <1>6
  <2>2. entry' \in BOOLEAN
    BY <1>1, <1>4 DEF FileInv
  <2>3. \A i \in 1 .. Len(file') : /\ file'[i][2] = IF i % 2 = 1 THEN 1 ELSE 2
                                   /\ i % 2 = 0 => file'[i][1] = file'[i - 1][1]
    BY <1>4, <1>7
  <2>4. Len(file') >= 2 => file'[2][1] = Record("HEADER", 0)
    BY <1>4, <1>8
  <2> QED
    BY <1>4, <1>5, <2>1, <2>2, <2>3, <2>4 DEF FileInv
<1>10. Written' = n
  BY NoneAssumption DEF Written, Writing
<1>11. file'[L + (n - d)][1] = rec
  <2>1. file'[L + (n - d)] = <<rec, d + (n - d)>>
    BY <1>4
  <2> QED
    BY <2>1
<1>12. TailInv'
  <2>1. \A u \in Threads : mutex' = u => u = t
    BY DEF Writing
  <2>2. thread'[t].done = n /\ thread'[t].rec = rec
    BY <1>3 DEF Writing
  <2>3. L + (n - d) >= n /\ ((L + (n - d)) - n) % 2 = 0 /\ synced' = (L + (n - d)) - n
    BY <1>4, <1>6
  <2> QED
    BY <1>4, <1>10, <1>11, <2>1, <2>2, <2>3 DEF TailInv
<1> QED
  BY <1>9, <1>12

\* The records of different threads differ in their kind.
LEMMA KindsApart ==
    ASSUME ThreadInv
    PROVE  /\ \A t, u \in Threads : thread[t].pc # "idle" /\ thread[u].pc # "idle"
                                    /\ thread[t].rec = thread[u].rec => t = u
           /\ \A t \in Threads : thread[t].pc # "idle" =>
                 /\ thread[t].rec.kind \in {"APPLY", "RESPONSE"} => t = "engine"
                 /\ thread[t].rec.kind # "NONE"
                 /\ thread[t].rec.kind = "HEADER" => t = "main"
<1>1. Record("HEADER", 0).kind = "HEADER"
  BY RecordType DEF Kinds
<1>2. /\ thread["main"].pc # "idle" => thread["main"].rec.kind = "HEADER"
      /\ thread["server"].pc # "idle" => thread["server"].rec.kind \in {"RECEIVED", "REJECT"}
      /\ thread["engine"].pc # "idle" => thread["engine"].rec.kind \in {"APPLY", "RESPONSE"}
  BY <1>1 DEF ThreadInv
<1> QED
  BY <1>2 DEF Threads

LEMMA WriteOrder ==
    ASSUME AuditInv, NEW t, NEW d, NEW n, Writing(t, d, n)
    PROVE  OrderInv'
<1>1. ThreadInv /\ OrderInv /\ FreshInv /\ RequestInv /\ LifeInv
  BY DEF AuditInv
<1>2. PICK L \in Nat : L = Len(file)
  BY DEF Writing
<1>3. PICK rec \in AuditRecords : rec = thread[t].rec
  BY DEF Writing
<1>4. t \in Threads /\ thread[t].pc = "write" /\ Len(file') = L + (n - d) /\ d < n /\ d \in Nat /\ n \in Nat
  BY <1>2 DEF Writing, Grows
<1>5. \A i \in Nat : \A r : RecordAt(i, r, Len(file))' <=>
         RecordAt(i, r, Len(file)) \/ (n = 2 /\ r = rec /\ i \in Nat /\ 2 * i = Len(file'))
  BY <1>3, GrowLog DEF Writing
<1>6. file # None
  BY NoneAssumption DEF Writing
<1>7. ~Logged(rec)
  BY <1>1, <1>3, <1>4 DEF FreshInv
<1>8. \A i \in Nat : ~RecordAt(i, rec, Len(file))
  BY <1>7 DEF Logged, LoggedWithin
<1>9. ASSUME NEW r \in AuditRecords, NEW i \in Nat, NEW j \in Nat,
             RecordAt(i, r, Len(file))', RecordAt(j, r, Len(file))'
      PROVE  i = j
  <2>1. CASE r = rec
    BY <1>4, <1>5, <1>8, <1>9, <2>1
  <2>2. CASE r # rec
    BY <1>1, <1>5, <1>6, <1>9, <2>2 DEF OrderInv
  <2> QED
    BY <2>1, <2>2
<1>10. \A i, r : RecordAt(i, r, Len(file)) => 2 * i <= L /\ i \in Nat
  BY <1>2 DEF RecordAt
<1>11. ASSUME NEW id \in Nat, NEW kind, NEW before,
              <<kind, before>> \in {<<"RESPONSE", "APPLY">>, <<"APPLY", "RECEIVED">>},
              rec = Record(kind, id)
       PROVE  Logged(Record(before, id))
  <2>1. rec.kind = kind /\ rec.id = id
    BY <1>11, RecordType DEF Kinds
  <2>2. t = "engine"
    BY <1>1, <1>3, <1>4, <1>11, <2>1, KindsApart
  <2>3. Len(requests) >= 1 /\ requests[1] = id /\ Len(requests) \in Nat
    BY <1>1, <1>3, <1>4, <2>1, <2>2 DEF RequestInv
  <2>4. kind = "RESPONSE" => Logged(Record("APPLY", requests[1]))
    BY <1>1, <1>3, <1>4, <2>1, <2>2 DEF RequestInv
  <2>5. Logged(Record("RECEIVED", requests[1]))
    BY <1>1, <2>3 DEF RequestInv
  <2>6. CASE kind = "RESPONSE" /\ before = "APPLY"
    BY <2>3, <2>4, <2>6
  <2>7. CASE kind = "APPLY" /\ before = "RECEIVED"
    BY <2>3, <2>5, <2>7
  <2> QED
    BY <1>11, <2>6, <2>7
<1>12. ASSUME NEW id \in Nat, NEW i \in Nat, NEW kind, NEW before,
              <<kind, before>> \in {<<"RESPONSE", "APPLY">>, <<"APPLY", "RECEIVED">>},
              RecordAt(i, Record(kind, id), Len(file))'
       PROVE  \E j \in Nat : j < i /\ RecordAt(j, Record(before, id), Len(file))'
  <2>1. CASE RecordAt(i, Record(kind, id), Len(file))
    <3>1. PICK j \in Nat : j < i /\ RecordAt(j, Record(before, id), Len(file))
      BY <1>1, <1>6, <1>12, <2>1 DEF OrderInv
    <3> QED
      BY <1>5, <3>1
  <2>2. CASE ~RecordAt(i, Record(kind, id), Len(file))
    <3>1. rec = Record(kind, id) /\ 2 * i = Len(file')
      BY <1>5, <1>12, <2>2
    <3>2. PICK j \in Nat : RecordAt(j, Record(before, id), Len(file))
      BY <1>11, <1>12, <3>1 DEF Logged, LoggedWithin
    <3>3. j < i
      BY <1>4, <1>10, <3>1, <3>2
    <3> QED
      BY <1>5, <3>2, <3>3
  <2> QED
    BY <2>1, <2>2
<1>13. /\ \A id \in Nat, i \in Nat : RecordAt(i, Record("RESPONSE", id), Len(file))' =>
             \E j \in Nat : j < i /\ RecordAt(j, Record("APPLY", id), Len(file))'
       /\ \A id \in Nat, i \in Nat : RecordAt(i, Record("APPLY", id), Len(file))' =>
             \E j \in Nat : j < i /\ RecordAt(j, Record("RECEIVED", id), Len(file))'
  BY <1>12
<1>14. \A r \in AuditRecords, i, j \in Nat :
          RecordAt(i, r, Len(file))' /\ RecordAt(j, r, Len(file))' => i = j
  BY <1>9
<1> QED
  BY <1>13, <1>14 DEF OrderInv

LEMMA WriteQueues ==
    ASSUME AuditInv, NEW t, NEW d, NEW n, Writing(t, d, n)
    PROVE  FreshInv' /\ RequestInv' /\ DurableInv'
<1>1. ThreadInv /\ FreshInv /\ RequestInv /\ DurableInv
  BY DEF AuditInv
<1>2. PICK rec \in AuditRecords : rec = thread[t].rec
  BY DEF Writing
<1>3. \A r : Logged(r)' <=> Logged(r) \/ (n = 2 /\ r = rec)
  BY <1>2, GrowLog DEF Writing
<1>4. /\ t \in Threads /\ thread[t].pc = "write"
      /\ "main" \in Threads /\ "server" \in Threads /\ "engine" \in Threads
  BY DEF Writing, Threads
<1>5. file # None
  BY NoneAssumption DEF Writing
<1>6. \A kind \in {"APPLY", "RESPONSE"}, id \in Nat :
         rec = Record(kind, id) => /\ t = "engine" /\ rec.kind = kind
                                   /\ id = requests[1] /\ Len(requests) >= 1
  <2>1. ASSUME NEW kind \in {"APPLY", "RESPONSE"}, NEW id \in Nat, rec = Record(kind, id)
        PROVE  t = "engine" /\ rec.kind = kind /\ id = requests[1] /\ Len(requests) >= 1
    <3>1. rec.kind = kind /\ rec.id = id
      BY <2>1, RecordType DEF Kinds
    <3>2. t = "engine"
      BY <1>1, <1>2, <1>4, <2>1, <3>1, KindsApart
    <3> QED
      BY <1>1, <1>2, <1>4, <3>1, <3>2 DEF RequestInv
  <2> QED
    BY <2>1
<1>7. FreshInv'
  <2>1. next' \in Nat /\ next' >= 1
    BY <1>1 DEF FreshInv, Writing
  <2>2. \A r \in AuditRecords : Logged(r)' => r.id < next'
    BY <1>1, <1>2, <1>3, <1>4, <1>5 DEF FreshInv, Writing
  <2>3. \A u \in Threads : thread'[u].rec.id < next'
    BY <1>1 DEF FreshInv, Writing
  <2>4. ASSUME NEW u \in Threads, thread'[u].pc \in {"lock", "write"} PROVE ~Logged(thread[u].rec)'
    <3>1. CASE u = t
      BY <1>1, <1>2, <1>3, <1>4, <2>4, <3>1 DEF FreshInv, Writing
    <3>2. CASE u # t
      <4>1. thread[u].pc \in {"lock", "write"} /\ thread'[u].rec = thread[u].rec
        BY <2>4, <3>2 DEF Writing
      <4>2. thread[u].rec # rec
        BY <1>1, <1>2, <1>4, <3>2, <4>1, KindsApart
      <4> QED
        BY <1>1, <1>3, <4>1, <4>2 DEF FreshInv
    <3> QED
      BY <3>1, <3>2
  <2>5. ASSUME NEW id \in Nat, Pending("server", "RECEIVED", id)'
        PROVE  /\ ~Logged(Record("APPLY", id))' /\ ~Logged(Record("RESPONSE", id))'
               /\ \A i \in 1 .. Len(requests') : requests'[i] # id
    <3>1. Pending("server", "RECEIVED", id) /\ requests' = requests
      BY <1>4, <2>5 DEF Pending, Writing
    <3>2. requests \in Seq(Nat)
      BY <1>1 DEF RequestInv
    <3>3. Len(requests) >= 1 => id # requests[1]
      BY <1>1, <3>1, <3>2 DEF FreshInv
    <3> QED
      BY <1>1, <1>3, <1>6, <3>1, <3>3 DEF FreshInv
  <2> QED
    BY <2>1, <2>2, <2>3, <2>4, <2>5 DEF FreshInv
<1>8. RequestInv'
  <2>1. /\ requests' = requests /\ next' = next
        /\ thread'["engine"].pc = "idle" <=> thread["engine"].pc = "idle"
        /\ thread'["engine"].rec = thread["engine"].rec
    BY <1>4 DEF Writing
  <2>2. requests \in Seq(Nat) /\ Len(requests) \in Nat
    BY <1>1 DEF RequestInv
  <2>3. ASSUME NEW i \in 1 .. Len(requests)
        PROVE  /\ i > 1 \/ thread["engine"].pc = "idle" => ~Logged(Record("APPLY", requests[i]))'
               /\ i > 1 \/ thread["engine"].pc = "idle" \/ thread["engine"].rec.kind = "APPLY" =>
                     ~Logged(Record("RESPONSE", requests[i]))'
    <3>1. requests[i] \in Nat
      BY <2>2, <2>3
    <3>2. i > 1 => requests[i] # requests[1]
      BY <1>1, <2>2, <2>3 DEF RequestInv
    <3>3. rec = Record("APPLY", requests[i]) => ~(i > 1 \/ thread["engine"].pc = "idle")
      BY <1>4, <1>6, <3>1, <3>2
    <3>4. rec = Record("RESPONSE", requests[i]) =>
             ~(i > 1 \/ thread["engine"].pc = "idle" \/ thread["engine"].rec.kind = "APPLY")
      BY <1>2, <1>4, <1>6, <3>1, <3>2
    <3> QED
      BY <1>1, <1>3, <2>1, <2>3, <3>3, <3>4 DEF RequestInv
  <2> QED
    BY <1>1, <1>3, <2>1, <2>2, <2>3 DEF RequestInv
<1>9. DurableInv'
  <2>1. \A r : Durable(r) => Durable(r)'
    <3>1. synced' = synced /\ synced <= Len(file) /\ synced \in Int /\ Len(file) \in Nat
      BY DEF Writing
    <3>2. \A i \in 1 .. Len(file) : file'[i] = file[i]
      BY DEF Writing, Grows
    <3>3. \A i, r : RecordAt(i, r, synced) => RecordAt(i, r, synced)'
      BY <3>1, <3>2 DEF RecordAt
    <3> QED
      BY <3>3 DEF Durable, LoggedWithin
  <2>2. \A id : Answered(id) => Answered(id)'
    BY <2>1 DEF Answered
  <2>3. \A id : Pending("server", "REJECT", id) => Pending("server", "REJECT", id)'
    BY <1>4 DEF Pending, Writing
  <2>4. file' # None
    BY NoneAssumption DEF Writing, Grows
  <2> QED
    BY <1>1, <2>1, <2>2, <2>3, <2>4 DEF DurableInv, Writing, Archived
<1> QED
  BY <1>7, <1>8, <1>9

LEMMA WriteStep ==
    ASSUME AuditInv, NEW t \in Threads, Write(t) PROVE AuditInv'
<1>1. PICK d \in {0, 1} : \E n \in d + 1 .. 2 : Writing(t, d, n)
  BY WriteFacts
<1>2. PICK n \in d + 1 .. 2 : Writing(t, d, n)
  BY <1>1
<1> QED
  BY <1>2, WriteThread, WriteFile, WriteOrder, WriteQueues DEF AuditInv

\* The facts every part of the invariant needs of a sync.
Syncing(t, rec) ==
    /\ t \in Threads /\ rec \in AuditRecords /\ rec = thread[t].rec /\ thread[t].pc = "sync"
    /\ mutex = t /\ mutex' = None /\ Active /\ file \in Seq(FileParts) /\ file # None
    /\ file' = file /\ synced' = Len(file) /\ synced \in Nat /\ synced <= Len(file)
    /\ Len(file) % 2 = 0 /\ Len(file) >= 2 /\ Durable(rec)' /\ Logged(rec)
    /\ rec.kind = "APPLY" => /\ thread'[t].pc = "lock" /\ thread'[t].done = 0
                             /\ thread'[t].rec = Record("RESPONSE", rec.id)
    /\ rec.kind # "APPLY" => thread'[t] = Idle
    /\ thread'[t] \in [pc : {"idle", "lock", "write", "sync"}, rec : AuditRecords, done : 0 .. 2]
    /\ DOMAIN thread' = Threads /\ thread' = [u \in Threads |-> thread'[u]]
    /\ \A u \in Threads : u # t => thread'[u] = thread[u]
    /\ requests' = IF rec.kind = "RECEIVED" THEN Append(requests, rec.id)
                   ELSE IF rec.kind = "RESPONSE" THEN Tail(requests) ELSE requests
    /\ responses' = IF rec.kind = "RESPONSE" THEN Append(responses, rec.id) ELSE responses
    /\ UNCHANGED <<entry, archive, life, outbound, seen, next>>

LEMMA SyncFacts ==
    ASSUME AuditInv, NEW t \in Threads, Sync(t)
    PROVE  \E rec : Syncing(t, rec)
<1>1. ThreadInv /\ LifeInv /\ FileInv /\ TailInv
  BY DEF AuditInv
<1>2. PICK rec : rec = thread[t].rec
  OBVIOUS
<1>3. /\ rec \in AuditRecords /\ thread[t].pc = "sync" /\ mutex = t /\ thread[t].done = 2
      /\ DOMAIN thread = Threads
  BY <1>1, <1>2 DEF ThreadInv, Sync
<1>4. Active
  BY <1>1, <1>3, NoneAssumption DEF LifeInv
<1>5. file # None /\ file \in Seq(FileParts) /\ synced \in 0 .. Len(file)
  BY <1>1, <1>4 DEF LifeInv, FileInv
<1>6. Written = 2
  BY <1>3, NoneAssumption DEF Written
<1>7. Len(file) % 2 = 0 /\ Len(file) >= 2 /\ file[Len(file)][1] = rec
  <2>1. PICK L \in Nat : L = Len(file)
    BY <1>5
  <2>2. (L - 2) % 2 = 0 /\ L >= 2 /\ file[L][1] = rec
    BY <1>1, <1>2, <1>3, <1>4, <1>6, <2>1 DEF TailInv
  <2>3. L % 2 = 0
    BY <2>2
  <2> QED
    BY <2>1, <2>2, <2>3
<1>8. file' = file /\ synced' = Len(file)
  BY DEF Sync
<1>9. Durable(rec)' /\ Logged(rec)
  <2>1. PICK L \in Nat : L = Len(file)
    BY <1>5
  <2>2. PICK h \in Nat : h = L \div 2
    BY <2>1
  <2>3. 2 * h = L /\ h >= 1
    BY <1>7, <2>1, <2>2
  <2>4. RecordAt(h, rec, Len(file)) /\ RecordAt(h, rec, synced)'
    BY <1>7, <1>8, <2>1, <2>3 DEF RecordAt
  <2> QED
    BY <2>4 DEF Durable, Logged, LoggedWithin
<1>10. PICK v : v = (IF rec.kind = "APPLY" THEN Appending(Record("RESPONSE", rec.id)) ELSE Idle)
  OBVIOUS
<1>11. thread' = [thread EXCEPT ![t] = v]
  BY <1>2, <1>10 DEF Sync, Continue
<1>12. /\ v \in [pc : {"idle", "lock", "write", "sync"}, rec : AuditRecords, done : 0 .. 2]
       /\ rec.kind = "APPLY" => v.pc = "lock" /\ v.done = 0 /\ v.rec = Record("RESPONSE", rec.id)
       /\ rec.kind # "APPLY" => v = Idle
  <2>1. Record("RESPONSE", rec.id) \in AuditRecords
    BY <1>3, RecordType DEF Kinds, AuditRecords
  <2> QED
    BY <1>10, <2>1, IdleType, AppendingType
<1>13. /\ thread'[t] = v /\ DOMAIN thread' = Threads /\ thread' = [u \in Threads |-> thread'[u]]
       /\ \A u \in Threads : u # t => thread'[u] = thread[u]
  BY <1>3, <1>11
<1>14. /\ requests' = IF rec.kind = "RECEIVED" THEN Append(requests, rec.id)
                      ELSE IF rec.kind = "RESPONSE" THEN Tail(requests) ELSE requests
       /\ responses' = IF rec.kind = "RESPONSE" THEN Append(responses, rec.id) ELSE responses
       /\ mutex' = None /\ UNCHANGED <<entry, archive, life, outbound, seen, next>>
  BY <1>2 DEF Sync, Continue
<1>15. Syncing(t, rec)
  BY <1>2, <1>3, <1>4, <1>5, <1>7, <1>8, <1>9, <1>12, <1>13, <1>14 DEF Syncing
<1> QED
  BY <1>15

LEMMA SyncThread ==
    ASSUME AuditInv, NEW t, NEW rec, Syncing(t, rec)
    PROVE  ThreadInv' /\ LifeInv'
<1>1. ThreadInv /\ LifeInv
  BY DEF AuditInv
<1>2. "main" \in Threads /\ "server" \in Threads /\ "engine" \in Threads /\ t \in Threads
  BY DEF Threads, Syncing
<1>3. rec.kind = "APPLY" => t = "engine"
  BY <1>1, <1>2, KindsApart DEF Syncing
<1>4. ThreadInv'
  <2>1. \A u \in Threads :
           thread'[u] \in [pc : {"idle", "lock", "write", "sync"}, rec : AuditRecords, done : 0 .. 2]
    BY <1>1 DEF ThreadInv, Syncing
  <2>2. thread' \in [Threads -> [pc : {"idle", "lock", "write", "sync"}, rec : AuditRecords, done : 0 .. 2]]
    BY <2>1 DEF Syncing
  <2>3. ASSUME NEW u \in Threads
        PROVE  /\ thread'[u].pc = "idle" => thread'[u] = Idle
               /\ thread'[u].pc = "lock" => thread'[u].done = 0
               /\ thread'[u].pc = "write" => thread'[u].done \in {0, 1}
               /\ thread'[u].pc = "sync" => thread'[u].done = 2
               /\ thread'[u].pc \in {"write", "sync"} <=> mutex' = u
    <3>1. CASE u = t
      BY <3>1, IdleType, NoneAssumption DEF Syncing
    <3>2. CASE u # t
      BY <1>1, <3>2, NoneAssumption DEF Syncing, ThreadInv
    <3> QED
      BY <3>1, <3>2
  <2>4. Record("RESPONSE", rec.id).kind = "RESPONSE"
    BY DEF Record
  <2>5. /\ thread'["main"].pc # "idle" => thread'["main"].rec = Record("HEADER", 0)
        /\ thread'["server"].pc # "idle" => thread'["server"].rec.kind \in {"RECEIVED", "REJECT"}
        /\ thread'["engine"].pc # "idle" => thread'["engine"].rec.kind \in {"APPLY", "RESPONSE"}
    BY <1>1, <1>2, <1>3, <2>4, IdleType DEF ThreadInv, Syncing
  <2> QED
    BY <2>2, <2>3, <2>5 DEF ThreadInv, Syncing
<1>5. LifeInv'
  <2>1. thread[t] # Idle
    BY IdleType DEF Syncing
  <2>2. CASE life = "creating"
    <3>1. t = "main" /\ rec = Record("HEADER", 0) /\ Len(file) = 2
      BY <1>1, <1>2, <2>1, <2>2, IdleType DEF LifeInv, ThreadInv, Syncing, Threads
    <3>2. rec.kind = "HEADER"
      BY <3>1 DEF Record
    <3> QED
      BY <1>1, <1>2, <2>2, <3>1, <3>2 DEF LifeInv, Syncing, Active
  <2>3. CASE life = "running"
    <3>1. t # "main"
      BY <1>1, <2>1, <2>3 DEF LifeInv
    <3> QED
      BY <1>1, <1>2, <2>3, <3>1 DEF LifeInv, Syncing, Active
  <2> QED
    BY <2>2, <2>3 DEF Syncing, Active
<1> QED
  BY <1>4, <1>5

LEMMA SyncFile ==
    ASSUME AuditInv, NEW t, NEW rec, Syncing(t, rec)
    PROVE  FileInv' /\ TailInv' /\ OrderInv'
<1>1. FileInv /\ TailInv /\ OrderInv
  BY DEF AuditInv
<1>2. FileInv'
  BY <1>1 DEF FileInv, Syncing
<1>3. Written' = 0
  BY DEF Written, Syncing
<1>4. TailInv'
  BY <1>3, NoneAssumption DEF TailInv, Syncing
<1> QED
  BY <1>1, <1>2, <1>4, SameLog DEF OrderInv, Syncing

LEMMA SyncQueues ==
    ASSUME AuditInv, NEW t, NEW rec, Syncing(t, rec)
    PROVE  FreshInv' /\ RequestInv'
<1>1. ThreadInv /\ FreshInv /\ RequestInv
  BY DEF AuditInv
<1>2. "main" \in Threads /\ "server" \in Threads /\ "engine" \in Threads /\ t \in Threads
  BY DEF Threads, Syncing
<1>3. /\ requests \in Seq(Nat) /\ Len(requests) \in Nat /\ rec.id \in Nat /\ rec.id < next /\ next' = next
      /\ \A i \in 1 .. Len(requests) : requests[i] \in Nat
  <2>1. requests \in Seq(Nat)
    BY <1>1 DEF RequestInv
  <2>2. rec.id \in Nat /\ next' = next /\ rec = thread[t].rec
    BY DEF Syncing, AuditRecords
  <2>3. rec.id < next
    BY <1>1, <1>2, <2>2 DEF FreshInv
  <2> QED
    BY <2>1, <2>2, <2>3
<1>4. \A r : Logged(r)' <=> Logged(r)
  BY SameLog DEF Syncing
<1>5. rec = Record(rec.kind, rec.id)
  BY RecordEq DEF Syncing
<1>6. /\ rec.kind = "RECEIVED" => t = "server"
      /\ rec.kind \in {"APPLY", "RESPONSE"} => t = "engine"
  BY <1>1, <1>2 DEF ThreadInv, Syncing, Threads, Record
<1>7. t = "engine" => Len(requests) >= 1 /\ requests[1] = rec.id /\ rec.kind \in {"APPLY", "RESPONSE"}
  BY <1>1 DEF RequestInv, Syncing, ThreadInv
<1>8. rec.kind = "RECEIVED" =>
         /\ ~Logged(Record("APPLY", rec.id)) /\ ~Logged(Record("RESPONSE", rec.id))
         /\ \A i \in 1 .. Len(requests) : requests[i] # rec.id
  <2>1. rec.kind = "RECEIVED" => Pending("server", "RECEIVED", rec.id)
    BY <1>5, <1>6 DEF Pending, Syncing
  <2> QED
    BY <1>1, <1>3, <2>1 DEF FreshInv
<1>9. FreshInv'
  <2>1. \A u \in Threads : thread'[u].rec.id < next'
    <3>1. thread'[t].rec.id < next'
      <4>1. Record("RESPONSE", rec.id).id = rec.id /\ Idle.rec.id = 0
        BY DEF Record, Idle
      <4> QED
        BY <1>1, <1>3, <4>1 DEF Syncing, FreshInv
    <3> QED
      BY <1>1, <1>3, <3>1 DEF Syncing, FreshInv
  <2>2. ASSUME NEW u \in Threads, thread'[u].pc \in {"lock", "write"} PROVE ~Logged(thread[u].rec)'
    <3>1. CASE u # t
      BY <1>1, <1>4, <2>2, <3>1 DEF FreshInv, Syncing
    <3>2. CASE u = t
      <4>1. rec.kind = "APPLY" /\ thread'[u].rec = Record("RESPONSE", rec.id)
        BY <2>2, <3>2, IdleType DEF Syncing
      <4>2. ~Logged(Record("RESPONSE", requests[1]))
        BY <1>1, <1>3, <1>6, <1>7, <4>1 DEF RequestInv, Syncing
      <4> QED
        BY <1>4, <1>6, <1>7, <4>1, <4>2
    <3> QED
      BY <3>1, <3>2
  <2>3. ASSUME NEW id \in Nat, Pending("server", "RECEIVED", id)'
        PROVE  /\ ~Logged(Record("APPLY", id))' /\ ~Logged(Record("RESPONSE", id))'
               /\ \A i \in 1 .. Len(requests') : requests'[i] # id
    <3>1. t # "server"
      BY <1>2, <1>6, <2>3, IdleType DEF Pending, Syncing
    <3>2. Pending("server", "RECEIVED", id)
      BY <1>2, <2>3, <3>1 DEF Pending, Syncing
    <3>3. /\ ~Logged(Record("APPLY", id)) /\ ~Logged(Record("RESPONSE", id))
          /\ \A i \in 1 .. Len(requests) : requests[i] # id
      BY <1>1, <3>2 DEF FreshInv
    <3>4. CASE rec.kind = "RESPONSE"
      <4>1. requests' = Tail(requests) /\ Len(requests) >= 1
        BY <1>6, <1>7, <3>4 DEF Syncing
      <4>2. Len(requests') = Len(requests) - 1 /\ \A i \in 1 .. Len(requests') : requests'[i] = requests[i + 1]
        BY <1>3, <4>1
      <4> QED
        BY <1>3, <1>4, <3>3, <4>2
    <3>5. CASE rec.kind # "RESPONSE"
      <4>1. requests' = requests
        BY <1>6, <3>1, <3>5 DEF Syncing
      <4> QED
        BY <1>4, <3>3, <4>1
    <3> QED
      BY <3>4, <3>5
  <2> QED
    BY <1>1, <1>3, <1>4, <2>1, <2>2, <2>3 DEF FreshInv, Syncing
<1>10. RequestInv'
  <2>1. CASE rec.kind = "RECEIVED"
    <3>1. requests' = Append(requests, rec.id) /\ thread'["engine"] = thread["engine"]
      BY <1>2, <1>6, <2>1 DEF Syncing
    <3>2. PICK n \in Nat : n = Len(requests)
      BY <1>3
    <3>3. /\ requests' \in Seq(Nat) /\ Len(requests') = n + 1 /\ requests'[n + 1] = rec.id
          /\ \A i \in 1 .. n : requests'[i] = requests[i]
      BY <1>3, <3>1, <3>2
    <3>4. \A i, j \in 1 .. n + 1 : requests'[i] = requests'[j] => i = j
      BY <1>1, <1>8, <2>1, <3>2, <3>3 DEF RequestInv
    <3>5. thread'["engine"].pc # "idle" => n >= 1 /\ requests'[1] = requests[1]
      BY <1>1, <3>1, <3>2, <3>3 DEF RequestInv
    <3>6. ASSUME NEW i \in 1 .. n + 1, NEW x, x = requests'[i]
          PROVE  /\ x < next
                 /\ Logged(Record("RECEIVED", x))
                 /\ i > 1 \/ thread["engine"].pc = "idle" => ~Logged(Record("APPLY", x))
                 /\ i > 1 \/ thread["engine"].pc = "idle" \/ thread["engine"].rec.kind = "APPLY" =>
                       ~Logged(Record("RESPONSE", x))
      <4>1. CASE i <= n
        BY <1>1, <3>2, <3>3, <3>6, <4>1 DEF RequestInv
      <4>2. CASE i = n + 1
        BY <1>3, <1>5, <1>8, <2>1, <3>3, <3>6, <4>2 DEF Syncing
      <4> QED
        BY <4>1, <4>2
    <3> QED
      BY <1>1, <1>3, <1>4, <3>1, <3>3, <3>4, <3>5, <3>6 DEF RequestInv
  <2>2. CASE rec.kind = "RESPONSE"
    <3>1. requests' = Tail(requests) /\ Len(requests) >= 1 /\ thread'["engine"].pc = "idle"
      BY <1>6, <1>7, <2>2, IdleType DEF Syncing
    <3>2. PICK n \in Nat : n = Len(requests) - 1
      BY <1>3, <3>1
    <3>3. requests' \in Seq(Nat) /\ Len(requests') = n /\ \A i \in 1 .. n : requests'[i] = requests[i + 1]
      BY <1>3, <3>1, <3>2
    <3>4. ASSUME NEW i \in 1 .. n, NEW j \in 1 .. n, requests'[i] = requests'[j] PROVE i = j
      <4>1. i + 1 \in 1 .. Len(requests) /\ j + 1 \in 1 .. Len(requests) /\ requests[i + 1] = requests[j + 1]
        BY <3>2, <3>3, <3>4
      <4>2. i + 1 = j + 1
        BY <1>1, <4>1 DEF RequestInv
      <4> QED
        BY <4>2
    <3>5. ASSUME NEW i \in 1 .. n, NEW x, x = requests'[i]
          PROVE  /\ x < next
                 /\ Logged(Record("RECEIVED", x))
                 /\ ~Logged(Record("APPLY", x))
                 /\ ~Logged(Record("RESPONSE", x))
      <4>1. i + 1 \in 1 .. Len(requests) /\ i + 1 > 1 /\ x = requests[i + 1]
        BY <3>2, <3>3, <3>5
      <4> QED
        BY <1>1, <4>1 DEF RequestInv
    <3> QED
      BY <1>1, <1>3, <1>4, <3>1, <3>3, <3>4, <3>5 DEF RequestInv
  <2>3. CASE rec.kind = "APPLY"
    <3>1. /\ requests' = requests /\ t = "engine" /\ thread'["engine"].pc = "lock"
          /\ thread'["engine"].rec.kind = "RESPONSE" /\ thread'["engine"].rec.id = rec.id
      BY <1>6, <2>3 DEF Syncing, Record
    <3>2. Logged(Record("APPLY", requests[1]))
      BY <1>5, <1>7, <2>3, <3>1 DEF Syncing
    <3>3. thread["engine"].pc # "idle" /\ thread["engine"].rec.kind = "APPLY"
      BY <2>3, <3>1 DEF Syncing
    <3> QED
      BY <1>1, <1>3, <1>4, <1>7, <3>1, <3>2, <3>3 DEF RequestInv
  <2>4. CASE rec.kind \notin {"RECEIVED", "RESPONSE", "APPLY"}
    <3>1. requests' = requests /\ thread'["engine"] = thread["engine"]
      BY <1>2, <1>7, <2>4 DEF Syncing
    <3> QED
      BY <1>1, <1>3, <1>4, <3>1 DEF RequestInv
  <2> QED
    BY <2>1, <2>2, <2>3, <2>4
<1> QED
  BY <1>9, <1>10

LEMMA SyncDurable ==
    ASSUME AuditInv, NEW t, NEW rec, Syncing(t, rec)
    PROVE  DurableInv'
<1>1. DurableInv /\ ThreadInv
  BY DEF AuditInv
<1>2. /\ \A r : Durable(r) => Durable(r)'
      /\ \A id : Answered(id) => Answered(id)'
  BY MoreDurable DEF Syncing
<1>3. rec.id \in Nat /\ rec = Record(rec.kind, rec.id) /\ "server" \in Threads /\ t \in Threads
  BY RecordEq DEF Syncing, AuditRecords, Threads
<1>4. responses' \in Seq(Nat) /\ \A i \in 1 .. Len(responses') : Durable(Record("RESPONSE", responses[i]))'
  <2>1. CASE rec.kind = "RESPONSE"
    <3>1. responses' = Append(responses, rec.id) /\ responses \in Seq(Nat)
      BY <1>1, <2>1 DEF Syncing, DurableInv
    <3>2. PICK n \in Nat : n = Len(responses)
      BY <3>1
    <3>3. /\ responses' \in Seq(Nat) /\ Len(responses') = n + 1 /\ responses'[n + 1] = rec.id
          /\ \A i \in 1 .. n : responses'[i] = responses[i]
      BY <1>3, <3>1, <3>2
    <3>4. Durable(rec)' /\ rec = Record("RESPONSE", rec.id)
      BY <1>3, <2>1 DEF Syncing
    <3>5. ASSUME NEW i \in 1 .. n + 1 PROVE Durable(Record("RESPONSE", responses[i]))'
      <4>1. CASE i <= n
        BY <1>1, <1>2, <3>2, <3>3, <3>5, <4>1 DEF DurableInv
      <4>2. CASE i = n + 1
        BY <3>3, <3>4, <4>2
      <4> QED
        BY <4>1, <4>2
    <3> QED
      BY <3>3, <3>5
  <2>2. CASE rec.kind # "RESPONSE"
    BY <1>1, <1>2, <2>2 DEF DurableInv, Syncing
  <2> QED
    BY <2>1, <2>2
<1>5. \A id : Pending("server", "REJECT", id) => Answered(id)' \/ Pending("server", "REJECT", id)'
  <2>1. ASSUME NEW id, Pending("server", "REJECT", id), t = "server" PROVE Answered(id)'
    <3>1. rec = Record("REJECT", id)
      BY <2>1 DEF Pending, Syncing
    <3> QED
      BY <3>1 DEF Syncing, Answered
  <2>2. ASSUME NEW id, Pending("server", "REJECT", id), t # "server" PROVE Pending("server", "REJECT", id)'
    BY <1>3, <2>2 DEF Pending, Syncing
  <2> QED
    BY <2>1, <2>2
<1>6. outbound' = outbound /\ seen' = seen /\ entry' = entry /\ archive' = archive /\ file' # None
  BY DEF Syncing
<1>7. \A i \in 1 .. Len(outbound') : Answered(outbound[i])' \/ Pending("server", "REJECT", outbound[i])'
  BY <1>1, <1>2, <1>5, <1>6 DEF DurableInv
<1>8. \A id \in seen' : Archived(id)' \/ (entry' /\ Answered(id)')
  BY <1>1, <1>2, <1>6 DEF DurableInv, Archived
<1> QED
  BY <1>1, <1>4, <1>6, <1>7, <1>8 DEF DurableInv

LEMMA SyncStep ==
    ASSUME AuditInv, NEW t \in Threads, Sync(t) PROVE AuditInv'
<1>1. PICK rec : Syncing(t, rec)
  BY SyncFacts
<1> QED
  BY <1>1, SyncThread, SyncFile, SyncQueues, SyncDurable DEF AuditInv

\* The parts of the invariant, and the threads.
LEMMA InvParts == ASSUME AuditInv
                  PROVE  /\ ThreadInv /\ LifeInv /\ FileInv /\ TailInv /\ OrderInv
                       /\ FreshInv /\ RequestInv /\ DurableInv
                       /\ "main" \in Threads /\ "server" \in Threads /\ "engine" \in Threads
BY DEF AuditInv, Threads

\* A thread of the running exchange begins to append rec.
Begins(t, rec) ==
    /\ life = "running" /\ t \in {"server", "engine"} /\ rec \in AuditRecords
    /\ thread[t] = Idle /\ thread'[t] = Appending(rec)
    /\ DOMAIN thread' = Threads /\ thread' = [u \in Threads |-> thread'[u]]
    /\ \A u \in Threads : u # t => thread'[u] = thread[u]
    /\ UNCHANGED <<file, synced, entry, archive, life, mutex, requests, responses, seen>>

LEMMA BeginThread ==
    ASSUME AuditInv, NEW t, NEW rec, Begins(t, rec),
           t = "server" => rec.kind \in {"RECEIVED", "REJECT"},
           t = "engine" => rec.kind \in {"APPLY", "RESPONSE"}, outbound' \in Seq(Nat)
    PROVE  ThreadInv' /\ LifeInv' /\ FileInv' /\ TailInv' /\ OrderInv'
<1>1. /\ ThreadInv /\ LifeInv /\ FileInv /\ TailInv /\ OrderInv
      /\ "main" \in Threads /\ "server" \in Threads /\ "engine" \in Threads
  BY InvParts
<1>2. t \in Threads /\ t # "main"
  BY DEF Begins, Threads
<1>3. /\ thread'[t].pc = "lock" /\ thread'[t].done = 0 /\ thread'[t].rec = rec
      /\ thread'[t] \in [pc : {"idle", "lock", "write", "sync"}, rec : AuditRecords, done : 0 .. 2]
  BY AppendingType DEF Begins
<1>4. ThreadInv'
  <2>1. \A u \in Threads :
           thread'[u] \in [pc : {"idle", "lock", "write", "sync"}, rec : AuditRecords, done : 0 .. 2]
    BY <1>1, <1>3 DEF ThreadInv, Begins
  <2>2. thread' \in [Threads -> [pc : {"idle", "lock", "write", "sync"}, rec : AuditRecords, done : 0 .. 2]]
    BY <2>1 DEF Begins
  <2>3. ASSUME NEW u \in Threads
        PROVE  /\ thread'[u].pc = "idle" => thread'[u] = Idle
               /\ thread'[u].pc = "lock" => thread'[u].done = 0
               /\ thread'[u].pc = "write" => thread'[u].done \in {0, 1}
               /\ thread'[u].pc = "sync" => thread'[u].done = 2
               /\ thread'[u].pc \in {"write", "sync"} <=> mutex' = u
    <3>1. CASE u = t
      <4>1. mutex # t
        BY <1>1, <1>2, IdleType DEF ThreadInv, Begins
      <4> QED
        BY <1>3, <3>1, <4>1 DEF Begins
    <3>2. CASE u # t
      BY <1>1, <3>2 DEF Begins, ThreadInv
    <3> QED
      BY <3>1, <3>2
  <2>4. /\ thread'["main"].pc # "idle" => thread'["main"].rec = Record("HEADER", 0)
        /\ thread'["server"].pc # "idle" => thread'["server"].rec.kind \in {"RECEIVED", "REJECT"}
        /\ thread'["engine"].pc # "idle" => thread'["engine"].rec.kind \in {"APPLY", "RESPONSE"}
    BY <1>1, <1>2, <1>3 DEF ThreadInv, Begins
  <2> QED
    BY <1>1, <2>2, <2>3, <2>4 DEF ThreadInv, Begins
<1>5. LifeInv'
  BY <1>1, <1>2 DEF LifeInv, Begins, Active
<1>6. FileInv' /\ OrderInv'
  BY <1>1, SameLog DEF FileInv, OrderInv, Begins
<1>7. Written' = Written
  <2>1. mutex # t
    BY <1>1, <1>2, IdleType DEF ThreadInv, Begins
  <2> QED
    BY <1>1, <2>1, NoneAssumption DEF Written, Begins, ThreadInv
<1>8. TailInv'
  <2>1. mutex # t
    BY <1>1, <1>2, IdleType DEF ThreadInv, Begins
  <2> QED
    BY <1>1, <1>7, <2>1 DEF TailInv, Begins, Active
<1> QED
  BY <1>4, <1>5, <1>6, <1>8

\* What is not in the file with an id nobody used.
LEMMA NextIsFresh ==
    ASSUME AuditInv, file # None, NEW kind \in Kinds
    PROVE  next \in Nat /\ Record(kind, next) \in AuditRecords /\ ~Logged(Record(kind, next))
<1>1. next \in Nat /\ \A r \in AuditRecords : Logged(r) => r.id < next
  BY InvParts DEF FreshInv
<1>2. Record(kind, next) \in AuditRecords /\ Record(kind, next).id = next
  BY <1>1, RecordType
<1> QED
  BY <1>1, <1>2

LEMMA ServerBegins ==
    ASSUME AuditInv, NEW kind \in {"RECEIVED", "REJECT"}, Begins("server", Record(kind, next)),
           next' = next + 1, outbound' = IF kind = "REJECT" THEN Append(outbound, next) ELSE outbound
    PROVE  AuditInv'
<1>1. /\ ThreadInv /\ LifeInv /\ FileInv /\ TailInv /\ OrderInv
      /\ FreshInv /\ RequestInv /\ DurableInv
      /\ "main" \in Threads /\ "server" \in Threads /\ "engine" \in Threads
  BY InvParts
<1>2. file # None /\ file' = file
  BY <1>1 DEF LifeInv, Begins, Active
<1>3. /\ next \in Nat /\ next >= 1 /\ Record(kind, next) \in AuditRecords
      /\ Record(kind, next).kind = kind /\ Record(kind, next).id = next
      /\ ~Logged(Record(kind, next)) /\ ~Logged(Record("APPLY", next)) /\ ~Logged(Record("RESPONSE", next))
  BY <1>1, <1>2, NextIsFresh, RecordType DEF Kinds, FreshInv
<1>4. /\ thread'["server"].pc = "lock" /\ thread'["server"].rec = Record(kind, next)
      /\ thread'["main"] = thread["main"] /\ thread'["engine"] = thread["engine"]
  BY <1>1, <1>3, AppendingType DEF Begins
<1>5. \A r : Logged(r)' <=> Logged(r)
  BY <1>2, SameLog
<1>6. outbound \in Seq(Nat) /\ outbound' \in Seq(Nat)
  BY <1>1, <1>3 DEF DurableInv
<1>7. ThreadInv' /\ LifeInv' /\ FileInv' /\ TailInv' /\ OrderInv'
  BY <1>3, <1>6, BeginThread
<1>8. requests' = requests /\ requests \in Seq(Nat) /\ \A i \in 1 .. Len(requests) : requests[i] < next
  BY <1>1 DEF RequestInv, Begins
<1>9. FreshInv'
  <2>1. \A r \in AuditRecords : Logged(r)' => r.id < next'
    <3>1. \A r \in AuditRecords : r.id \in Nat
      BY DEF AuditRecords
    <3> QED
      BY <1>1, <1>2, <1>3, <1>5, <3>1 DEF FreshInv
  <2>2. \A u \in Threads : thread'[u].rec.id < next'
    <3>1. \A u \in Threads : thread[u].rec.id \in Nat
      BY <1>1 DEF ThreadInv, AuditRecords
    <3> QED
      BY <1>1, <1>3, <1>4, <3>1 DEF FreshInv, Threads
  <2>3. \A u \in Threads : thread'[u].pc \in {"lock", "write"} => ~Logged(thread[u].rec)'
    BY <1>1, <1>3, <1>4, <1>5 DEF FreshInv, Threads
  <2>4. ASSUME NEW id \in Nat, Pending("server", "RECEIVED", id)' PROVE id = next
    BY <1>3, <1>4, <2>4 DEF Pending, Record
  <2>5. \A i \in 1 .. Len(requests) : requests[i] # next
    BY <1>3, <1>8
  <2>6. ASSUME NEW id \in Nat, Pending("server", "RECEIVED", id)'
        PROVE  /\ ~Logged(Record("APPLY", id))' /\ ~Logged(Record("RESPONSE", id))'
               /\ \A i \in 1 .. Len(requests') : requests'[i] # id
    <3>1. id = next
      BY <2>4, <2>6
    <3> QED
      BY <1>3, <1>5, <1>8, <2>5, <3>1
  <2>7. next' \in Nat /\ next' >= 1
    BY <1>3
  <2> QED
    BY <2>1, <2>2, <2>3, <2>6, <2>7 DEF FreshInv
<1>10. RequestInv'
  <2>1. \A i \in 1 .. Len(requests) : requests[i] < next'
    BY <1>3, <1>8
  <2> QED
    BY <1>1, <1>4, <1>5, <1>8, <2>1 DEF RequestInv
<1>11. DurableInv'
  <2>1. /\ \A r : Durable(r) => Durable(r)'
        /\ \A id : Answered(id) => Answered(id)'
    BY MoreDurable DEF Begins
  <2>2. \A id : ~Pending("server", "REJECT", id)
    BY IdleType DEF Pending, Begins
  <2>3. \A i \in 1 .. Len(outbound') : Answered(outbound[i])' \/ Pending("server", "REJECT", outbound[i])'
    <3>1. CASE kind = "RECEIVED"
      BY <1>1, <2>1, <2>2, <3>1 DEF DurableInv
    <3>2. CASE kind = "REJECT"
      <4>1. PICK n \in Nat : n = Len(outbound)
        BY <1>6
      <4>2. /\ Len(outbound') = n + 1 /\ outbound'[n + 1] = next
            /\ \A i \in 1 .. n : outbound'[i] = outbound[i]
        BY <1>6, <3>2, <4>1
      <4>4. thread'["server"].pc # "idle" /\ thread'["server"].rec = Record("REJECT", next)
        BY <1>4, <3>2
      <4>5. ASSUME NEW i \in 1 .. n + 1
            PROVE  Answered(outbound[i])' \/ Pending("server", "REJECT", outbound[i])'
        <5>1. CASE i <= n
          BY <1>1, <2>1, <2>2, <4>1, <4>2, <4>5, <5>1 DEF DurableInv
        <5>2. CASE i = n + 1
          <6>1. PICK x : x = outbound'[i]
            OBVIOUS
          <6>2. thread'["server"].rec = Record("REJECT", x)
            BY <4>2, <4>4, <5>2, <6>1
          <6>3. Pending("server", "REJECT", x)'
            BY <4>4, <6>2 DEF Pending
          <6> QED
            BY <6>1, <6>3
        <5>3. i <= n \/ i = n + 1
          BY <4>5
        <5> QED
          BY <5>1, <5>2, <5>3
      <4> QED
        BY <4>2, <4>5
    <3> QED
      BY <3>1, <3>2
  <2> QED
    BY <1>1, <1>2, <1>6, <2>1, <2>3 DEF DurableInv, Begins, Archived
<1> QED
  BY <1>7, <1>9, <1>10, <1>11 DEF AuditInv

LEMMA ReceiveStep == ASSUME AuditInv, Receive PROVE AuditInv'
<1>1. "server" \in Threads /\ DOMAIN thread = Threads /\ file # None
  BY InvParts DEF ThreadInv, LifeInv, Active, Receive, Free
<1>2. Record("RECEIVED", next) \in AuditRecords
  BY <1>1, NextIsFresh DEF Kinds
<1>3. thread' = [thread EXCEPT !["server"] = Appending(Record("RECEIVED", next))]
  BY DEF Receive
<1>4. Begins("server", Record("RECEIVED", next))
  BY <1>1, <1>2, <1>3 DEF Begins, Receive, Free, diskVars, memoryVars
<1> QED
  BY <1>4, ServerBegins DEF Receive, memoryVars

LEMMA RejectStep == ASSUME AuditInv, Reject PROVE AuditInv'
<1>1. "server" \in Threads /\ DOMAIN thread = Threads /\ file # None
  BY InvParts DEF ThreadInv, LifeInv, Active, Reject, Free
<1>2. Record("REJECT", next) \in AuditRecords
  BY <1>1, NextIsFresh DEF Kinds
<1>3. thread' = [thread EXCEPT !["server"] = Appending(Record("REJECT", next))]
  BY DEF Reject
<1>4. Begins("server", Record("REJECT", next))
  BY <1>1, <1>2, <1>3 DEF Begins, Reject, Free, diskVars
<1> QED
  BY <1>4, ServerBegins DEF Reject

LEMMA ApplyStep == ASSUME AuditInv, ApplyRequest PROVE AuditInv'
<1>1. /\ ThreadInv /\ LifeInv /\ FreshInv /\ RequestInv /\ DurableInv
      /\ "main" \in Threads /\ "server" \in Threads /\ "engine" \in Threads /\ DOMAIN thread = Threads
  BY InvParts DEF ThreadInv
<1>2. /\ requests \in Seq(Nat) /\ Len(requests) >= 1 /\ Len(requests) \in Nat /\ requests[1] \in Nat
      /\ Head(requests) = requests[1]
  BY <1>1, EmptySeq DEF RequestInv, ApplyRequest
<1>3. PICK rec : rec = Record("APPLY", requests[1])
  OBVIOUS
<1>4. rec \in AuditRecords /\ rec.kind = "APPLY" /\ rec.id = requests[1]
  BY <1>2, <1>3, RecordType DEF Kinds
<1>5. thread' = [thread EXCEPT !["engine"] = Appending(rec)]
  BY <1>2, <1>3 DEF ApplyRequest
<1>6. /\ Begins("engine", rec) /\ outbound' = outbound /\ next' = next /\ file' = file
      /\ requests' = requests
  BY <1>1, <1>4, <1>5 DEF Begins, ApplyRequest, Free, diskVars, memoryVars
<1>7. outbound \in Seq(Nat)
  BY <1>1 DEF DurableInv
<1>8. ThreadInv' /\ LifeInv' /\ FileInv' /\ TailInv' /\ OrderInv'
  BY <1>4, <1>6, <1>7, BeginThread
<1>9. /\ thread'["engine"].pc = "lock" /\ thread'["engine"].rec = rec
      /\ thread["engine"].pc = "idle"
      /\ thread'["main"] = thread["main"] /\ thread'["server"] = thread["server"]
  BY <1>1, <1>4, <1>6, AppendingType, IdleType DEF Begins
<1>10. \A r : Logged(r)' <=> Logged(r)
  BY <1>6, SameLog
<1>11. ~Logged(rec) /\ rec.id < next /\ ~Logged(Record("RESPONSE", requests[1]))
  BY <1>1, <1>2, <1>3, <1>4, <1>9 DEF RequestInv
<1>12. FreshInv'
  <2>1. \A u \in Threads : thread'[u].rec.id < next'
    BY <1>1, <1>6, <1>9, <1>11 DEF FreshInv, Threads
  <2>2. \A u \in Threads : thread'[u].pc \in {"lock", "write"} => ~Logged(thread[u].rec)'
    BY <1>1, <1>9, <1>10, <1>11 DEF FreshInv, Threads
  <2> QED
    BY <1>1, <1>6, <1>9, <1>10, <2>1, <2>2 DEF FreshInv, Pending
<1>13. RequestInv'
  BY <1>1, <1>2, <1>4, <1>6, <1>9, <1>10, <1>11 DEF RequestInv
<1>14. DurableInv'
  <2>1. /\ \A r : Durable(r) => Durable(r)'
        /\ \A id : Answered(id) => Answered(id)'
    BY <1>6, MoreDurable DEF Begins
  <2> QED
    BY <1>1, <1>6, <1>9, <2>1 DEF DurableInv, Pending, Archived, Begins
<1> QED
  BY <1>8, <1>12, <1>13, <1>14 DEF AuditInv

\* Only the answers move.
LEMMA AnswersMove ==
    ASSUME AuditInv, DurableInv', life = "running",
           UNCHANGED <<file, synced, entry, archive, life, mutex, thread, requests, next>>
    PROVE  AuditInv'
<1>1. /\ ThreadInv /\ LifeInv /\ FileInv /\ TailInv /\ OrderInv /\ FreshInv /\ RequestInv
  BY InvParts
<1>2. ThreadInv' /\ LifeInv' /\ FileInv'
  BY <1>1 DEF ThreadInv, LifeInv, FileInv, Active
<1>3. TailInv' /\ OrderInv' /\ FreshInv' /\ RequestInv'
  BY <1>1, SameLog DEF TailInv, OrderInv, FreshInv, RequestInv, Active, Written, Pending
<1> QED
  BY <1>2, <1>3 DEF AuditInv

LEMMA RespondStep == ASSUME AuditInv, Respond PROVE AuditInv'
<1>1. /\ DurableInv /\ life = "running" /\ thread["server"] = Idle
      /\ UNCHANGED <<file, synced, entry, archive, life, mutex, thread, requests, next, seen>>
  BY InvParts DEF Respond, Free, diskVars
<1>2. /\ \A r : Durable(r) => Durable(r)'
      /\ \A id : Answered(id) => Answered(id)'
  BY <1>1, MoreDurable
<1>3. /\ responses \in Seq(Nat) /\ outbound \in Seq(Nat) /\ Len(responses) \in Nat /\ Len(responses) >= 1
      /\ Head(responses) = responses[1] /\ responses[1] \in Nat
  BY <1>1, EmptySeq DEF DurableInv, Respond
<1>4. responses' = Tail(responses) /\ outbound' = Append(outbound, responses[1])
  BY <1>3 DEF Respond
<1>5. PICK n \in Nat : n = Len(outbound)
  BY <1>3
<1>6. /\ responses' \in Seq(Nat) /\ Len(responses') = Len(responses) - 1
      /\ \A i \in 1 .. Len(responses') : i + 1 \in 1 .. Len(responses) /\ responses'[i] = responses[i + 1]
      /\ outbound' \in Seq(Nat) /\ Len(outbound') = n + 1 /\ outbound'[n + 1] = responses[1]
      /\ \A i \in 1 .. n : outbound'[i] = outbound[i]
  BY <1>3, <1>4, <1>5
<1>7. Durable(Record("RESPONSE", responses[1]))
  BY <1>1, <1>3 DEF DurableInv
<1>8. Answered(responses[1])
  BY <1>7 DEF Answered
<1>9. \A id : Pending("server", "REJECT", id) => FALSE
  BY <1>1, IdleType DEF Pending
<1>10. \A i \in 1 .. n + 1 : Answered(outbound'[i])
  <2>1. \A i \in 1 .. n : Answered(outbound[i])
    BY <1>1, <1>5, <1>9 DEF DurableInv
  <2>2. ASSUME NEW i \in 1 .. n + 1 PROVE Answered(outbound'[i])
    <3>1. CASE i <= n
      BY <1>6, <2>1, <2>2, <3>1
    <3>2. CASE i = n + 1
      BY <1>6, <1>8, <3>2
    <3> QED
      BY <3>1, <3>2
  <2> QED
    BY <2>2
<1>11. \A i \in 1 .. Len(responses') : Durable(Record("RESPONSE", responses'[i]))
  BY <1>1, <1>6 DEF DurableInv
<1>12. \A i \in 1 .. Len(outbound') : Answered(outbound[i])'
  <2>1. ASSUME NEW i \in 1 .. Len(outbound') PROVE Answered(outbound[i])'
    <3>1. PICK x : x = outbound'[i]
      OBVIOUS
    <3>2. Answered(x)
      BY <1>6, <1>10, <2>1, <3>1
    <3>3. Answered(x)'
      BY <1>2, <3>2
    <3> QED
      BY <3>1, <3>3
  <2> QED
    BY <2>1
<1>13. \A i \in 1 .. Len(responses') : Durable(Record("RESPONSE", responses[i]))'
  <2>1. ASSUME NEW i \in 1 .. Len(responses') PROVE Durable(Record("RESPONSE", responses[i]))'
    <3>1. PICK x : x = responses'[i]
      OBVIOUS
    <3>2. Durable(Record("RESPONSE", x))
      BY <1>11, <2>1, <3>1
    <3>3. Durable(Record("RESPONSE", x))'
      BY <1>2, <3>2
    <3> QED
      BY <3>1, <3>3
  <2> QED
    BY <2>1
<1>14. DurableInv'
  BY <1>1, <1>2, <1>6, <1>12, <1>13 DEF DurableInv, Archived
<1> QED
  BY <1>1, <1>14, AnswersMove

LEMMA FlushStep == ASSUME AuditInv, Flush PROVE AuditInv'
<1>1. /\ DurableInv /\ LifeInv /\ life = "running" /\ thread["server"] = Idle
      /\ UNCHANGED <<file, synced, entry, archive, life, mutex, thread, requests, responses, next>>
  BY InvParts DEF Flush, Free, diskVars
<1>2. /\ \A r : Durable(r) => Durable(r)'
      /\ \A id : Answered(id) => Answered(id)'
  BY <1>1, MoreDurable
<1>3. outbound \in Seq(Nat) /\ outbound' = <<>> /\ seen' = seen \cup ToSet(outbound)
  BY <1>1 DEF DurableInv, Flush
<1>4. \A id : Pending("server", "REJECT", id) => FALSE
  BY <1>1, IdleType DEF Pending
<1>5. \A id \in ToSet(outbound) : id \in Nat /\ Answered(id)
  <2>1. ToSet(outbound) = {outbound[i] : i \in 1 .. Len(outbound)}
    BY <1>3, ToSetSeq
  <2> QED
    BY <1>1, <1>3, <1>4, <2>1 DEF DurableInv
<1>6. file # None /\ entry
  BY <1>1 DEF LifeInv, Active
<1>7. outbound' \in Seq(Nat) /\ Len(outbound') = 0
  BY <1>3
<1>8. DurableInv'
  <2>1. seen' \subseteq Nat
    BY <1>1, <1>3, <1>5 DEF DurableInv
  <2>2. \A id \in seen' : Archived(id)' \/ (file' # None /\ entry' /\ Answered(id)')
    BY <1>1, <1>2, <1>3, <1>5, <1>6 DEF DurableInv, Archived
  <2>3. responses' \in Seq(Nat) /\ \A i \in 1 .. Len(responses') : Durable(Record("RESPONSE", responses[i]))'
    BY <1>1, <1>2 DEF DurableInv
  <2>4. \A i \in 1 .. Len(outbound') : FALSE
    BY <1>7
  <2> QED
    BY <1>7, <2>1, <2>2, <2>3, <2>4 DEF DurableInv
<1> QED
  BY <1>1, <1>8, AnswersMove

LEMMA DirectoryStep == ASSUME AuditInv, SyncDirectory PROVE AuditInv'
<1>1. /\ ThreadInv /\ LifeInv /\ FileInv /\ TailInv /\ OrderInv /\ FreshInv /\ RequestInv /\ DurableInv
  BY InvParts
<1>2. /\ life = "creating" /\ thread["main"] = Idle /\ entry' = TRUE /\ life' = "running"
      /\ UNCHANGED <<file, synced, archive, mutex, thread, requests, responses, outbound, seen, next>>
  BY DEF SyncDirectory, memoryVars
<1>3. /\ \A r : Durable(r) => Durable(r)'
      /\ \A id : Answered(id) => Answered(id)'
  BY <1>2, MoreDurable
<1>4. ThreadInv' /\ FileInv'
  BY <1>1, <1>2 DEF ThreadInv, FileInv
<1>5. LifeInv'
  <2>1. Len(file) = 2 /\ file # None
    BY <1>1, <1>2 DEF LifeInv, Active
  <2> QED
    BY <1>1, <1>2, <2>1 DEF LifeInv, Active
<1>6. TailInv'
  BY <1>1, <1>2 DEF TailInv, Active, Written
<1>7. OrderInv' /\ FreshInv' /\ RequestInv'
  BY <1>1, <1>2, SameLog DEF OrderInv, FreshInv, RequestInv, Pending
<1>8. DurableInv'
  BY <1>1, <1>2, <1>3 DEF DurableInv, Archived, Pending
<1> QED
  BY <1>4, <1>5, <1>6, <1>7, <1>8 DEF AuditInv

\* No exchange is up, nothing is in memory.
Quiet == /\ \A t \in Threads : thread[t] = Idle
         /\ thread \in [Threads -> [pc : {"idle", "lock", "write", "sync"}, rec : AuditRecords, done : 0 .. 2]]
         /\ mutex = None /\ requests = <<>> /\ responses = <<>> /\ outbound = <<>>
         /\ next \in Nat /\ next >= 1

\* Then the file is all the invariant is about.
QuietState ==
    /\ Quiet /\ life \in {"down", "refused"} /\ (life = "refused" => file # None)
    /\ FileInv /\ OrderInv
    /\ file # None => \A r \in AuditRecords : Logged(r) => r.id < next
    /\ seen \subseteq Nat
    /\ \A id \in seen : Archived(id) \/ (file # None /\ entry /\ Answered(id))

LEMMA QuietInv == QuietState => AuditInv
<1> SUFFICES ASSUME QuietState PROVE AuditInv
  OBVIOUS
<1>0. /\ Quiet /\ life \in {"down", "refused"} /\ (life = "refused" => file # None)
      /\ FileInv /\ OrderInv
      /\ file # None => \A r \in AuditRecords : Logged(r) => r.id < next
      /\ seen \subseteq Nat
      /\ \A id \in seen : Archived(id) \/ (file # None /\ entry /\ Answered(id))
  BY DEF QuietState
<1>1. "main" \in Threads /\ "server" \in Threads /\ "engine" \in Threads
  BY DEF Threads
<1>2. /\ \A t \in Threads : thread[t] = Idle /\ thread[t].pc = "idle" /\ thread[t].rec = Record("NONE", 0)
      /\ Record("NONE", 0).id = 0
  BY <1>0, IdleType, RecordType DEF Quiet, Record
<1>3. ThreadInv
  BY <1>0, <1>1, <1>2, NoneAssumption DEF ThreadInv, Quiet
<1>4. LifeInv
  BY <1>0, <1>1 DEF LifeInv, Quiet, Active
<1>5. TailInv
  BY <1>0 DEF TailInv, Active
<1>6. FreshInv
  BY <1>0, <1>1, <1>2 DEF FreshInv, Quiet, Pending
<1>7. RequestInv
  <2>1. requests \in Seq(Nat) /\ Len(requests) = 0
    BY <1>0 DEF Quiet
  <2> QED
    BY <1>1, <1>2, <2>1 DEF RequestInv
<1>8. DurableInv
  <2>1. responses \in Seq(Nat) /\ Len(responses) = 0 /\ outbound \in Seq(Nat) /\ Len(outbound) = 0
    BY <1>0 DEF Quiet
  <2> QED
    BY <1>0, <2>1 DEF DurableInv
<1> QED
  BY <1>0, <1>3, <1>4, <1>5, <1>6, <1>7, <1>8 DEF AuditInv

LEMMA LostIsQuiet == ASSUME AuditInv, Lost PROVE Quiet' /\ life' = "down" /\ seen' = seen /\ archive' = archive
<1>1. next \in Nat /\ next >= 1
  BY InvParts DEF FreshInv
<1>2. thread' = [t \in Threads |-> Idle]
  BY DEF Lost
<1>3. /\ \A t \in Threads : thread'[t] = Idle
      /\ thread' \in [Threads -> [pc : {"idle", "lock", "write", "sync"}, rec : AuditRecords, done : 0 .. 2]]
  BY <1>2, IdleType
<1> QED
  BY <1>1, <1>3 DEF Quiet, Lost

LEMMA ProcessCrashStep == ASSUME AuditInv, ProcessCrash PROVE AuditInv'
<1>1. FileInv /\ OrderInv /\ FreshInv /\ DurableInv
  BY InvParts
<1>2. /\ Quiet' /\ life' = "down" /\ seen' = seen /\ archive' = archive /\ next' = next
      /\ UNCHANGED <<file, synced, entry>>
  BY LostIsQuiet DEF ProcessCrash, Lost
<1>3. FileInv' /\ OrderInv'
  BY <1>1, <1>2, SameLog DEF FileInv, OrderInv
<1>4. file' # None => \A r \in AuditRecords : Logged(r)' => r.id < next'
  BY <1>1, <1>2, SameLog DEF FreshInv
<1>5. seen' \subseteq Nat /\ \A id \in seen' : Archived(id)' \/ (file' # None /\ entry' /\ Answered(id)')
  BY <1>1, <1>2, MoreDurable DEF DurableInv, Archived
<1>6. QuietState'
  BY <1>2, <1>3, <1>4, <1>5 DEF QuietState
<1> QED
  BY <1>6, QuietInv, PTL

\* What a machine crash leaves is a prefix of the file with all that was synced.
LEMMA PrefixStep ==
    ASSUME AuditInv, Lost, file # None, NEW n \in synced .. Len(file),
           file' = SubSeq(file, 1, n), synced' = n, entry' = TRUE
    PROVE  AuditInv'
<1>1. FileInv /\ OrderInv /\ FreshInv /\ DurableInv
  BY InvParts
<1>2. Quiet' /\ life' = "down" /\ seen' = seen /\ archive' = archive /\ next' = next
  BY LostIsQuiet DEF Lost
<1>3. PICK L \in Nat : L = Len(file)
  BY <1>1 DEF FileInv
<1>4. file \in Seq(FileParts) /\ synced \in 0 .. L /\ n \in Nat /\ synced <= n /\ n <= L
  BY <1>1, <1>3 DEF FileInv
<1>5. file' \in Seq(FileParts) /\ Len(file') = n /\ \A i \in 1 .. n : file'[i] = file[i]
  <2>1. Len(SubSeq(file, 1, n)) = n /\ SubSeq(file, 1, n) \in Seq(FileParts)
    BY <1>3, <1>4, SubSeqProperties
  <2>2. \A i \in 1 .. n : SubSeq(file, 1, n)[i] = file[i]
    BY <1>3, <1>4
  <2> QED
    BY <2>1, <2>2
<1>6. file' # None
  BY <1>5, NoneAssumption
<1>7. FileInv'
  <2>1. \A i \in 1 .. n : /\ file'[i][2] = IF i % 2 = 1 THEN 1 ELSE 2
                          /\ i % 2 = 0 => file'[i][1] = file'[i - 1][1]
    <3>1. ASSUME NEW i \in 1 .. n
          PROVE  /\ file'[i][2] = IF i % 2 = 1 THEN 1 ELSE 2
                 /\ i % 2 = 0 => file'[i][1] = file'[i - 1][1]
      <4>1. i \in 1 .. L /\ file'[i] = file[i] /\ (i % 2 = 0 => i - 1 \in 1 .. n /\ file'[i - 1] = file[i - 1])
        BY <1>4, <1>5, <3>1
      <4> QED
        BY <1>1, <1>3, <4>1 DEF FileInv
    <3> QED
      BY <3>1
  <2>2. n >= 2 => file'[2][1] = Record("HEADER", 0)
    BY <1>1, <1>3, <1>4, <1>5 DEF FileInv
  <2> QED
    BY <1>4, <1>5, <1>6, <2>1, <2>2 DEF FileInv
<1>8. \A i \in Nat, r, m \in Nat : m <= n => (RecordAt(i, r, m) <=> (i >= 1 /\ 2 * i <= m /\ file'[2 * i][1] = r))
  BY <1>4, <1>5 DEF RecordAt
<1>9. \A i \in Nat : \A r : RecordAt(i, r, Len(file))' => RecordAt(i, r, Len(file)) /\ 2 * i <= n
  BY <1>3, <1>4, <1>5 DEF RecordAt
<1>10. \A i \in Nat : \A r : RecordAt(i, r, Len(file)) /\ 2 * i <= n => RecordAt(i, r, Len(file))'
  BY <1>3, <1>4, <1>5 DEF RecordAt
<1>11. OrderInv'
  <2>1. ASSUME NEW i \in Nat, NEW id \in Nat, NEW kind, NEW before,
               <<kind, before>> \in {<<"RESPONSE", "APPLY">>, <<"APPLY", "RECEIVED">>},
               RecordAt(i, Record(kind, id), Len(file))'
        PROVE  \E j \in Nat : j < i /\ RecordAt(j, Record(before, id), Len(file))'
    <3>1. RecordAt(i, Record(kind, id), Len(file)) /\ 2 * i <= n
      BY <1>9, <2>1
    <3>2. PICK j \in Nat : j < i /\ RecordAt(j, Record(before, id), Len(file))
      BY <1>1, <2>1, <3>1 DEF OrderInv
    <3>3. 2 * j <= n
      BY <1>4, <3>1, <3>2
    <3> QED
      BY <1>10, <3>2, <3>3
  <2>2. \A r \in AuditRecords, i, j \in Nat :
           RecordAt(i, r, Len(file))' /\ RecordAt(j, r, Len(file))' => i = j
    BY <1>1, <1>9 DEF OrderInv
  <2>3. /\ \A id \in Nat, i \in Nat : RecordAt(i, Record("RESPONSE", id), Len(file))' =>
              \E j \in Nat : j < i /\ RecordAt(j, Record("APPLY", id), Len(file))'
        /\ \A id \in Nat, i \in Nat : RecordAt(i, Record("APPLY", id), Len(file))' =>
              \E j \in Nat : j < i /\ RecordAt(j, Record("RECEIVED", id), Len(file))'
    BY <2>1
  <2> QED
    BY <2>2, <2>3 DEF OrderInv
<1>12. \A r \in AuditRecords : Logged(r)' => r.id < next'
  <2>1. \A r : Logged(r)' => Logged(r)
    BY <1>9 DEF Logged, LoggedWithin
  <2> QED
    BY <1>1, <1>2, <2>1 DEF FreshInv
<1>13. \A id : Answered(id) => Answered(id)'
  <2>1. \A i, r : RecordAt(i, r, synced) => RecordAt(i, r, synced)'
    BY <1>3, <1>4, <1>5 DEF RecordAt
  <2> QED
    BY <2>1 DEF Answered, Durable, LoggedWithin
<1>14. seen' \subseteq Nat /\ \A id \in seen' : Archived(id)' \/ (file' # None /\ entry' /\ Answered(id)')
  BY <1>1, <1>2, <1>6, <1>13 DEF DurableInv, Archived
<1>15. QuietState'
  BY <1>2, <1>7, <1>11, <1>12, <1>14 DEF QuietState
<1> QED
  BY <1>15, QuietInv, PTL

LEMMA MachineCrashStep == ASSUME AuditInv, MachineCrash PROVE AuditInv'
<1>1. CASE \E n \in synced .. Len(file) : file' = SubSeq(file, 1, n) /\ synced' = n /\ entry' = TRUE
  BY <1>1, PrefixStep DEF MachineCrash
<1>2. CASE ~entry /\ file' = None /\ synced' = 0 /\ UNCHANGED entry
  <2>1. Quiet' /\ life' = "down" /\ seen' = seen /\ archive' = archive /\ next' = next
    BY LostIsQuiet DEF Lost, MachineCrash
  <2>2. FileInv /\ DurableInv
    BY InvParts
  <2>3. FileInv' /\ OrderInv'
    BY <1>2, <2>2 DEF FileInv, OrderInv
  <2>4. seen' \subseteq Nat /\ \A id \in seen' : Archived(id)'
    BY <1>2, <2>1, <2>2 DEF DurableInv, Archived
  <2>5. QuietState'
    BY <1>2, <2>1, <2>3, <2>4 DEF QuietState
  <2> QED
    BY <2>5, QuietInv, PTL
<1> QED
  BY <1>1, <1>2 DEF MachineCrash

LEMMA StartStep == ASSUME AuditInv, Start PROVE AuditInv'
<1>1. /\ ThreadInv /\ LifeInv /\ FileInv /\ OrderInv /\ FreshInv /\ RequestInv /\ DurableInv
      /\ "main" \in Threads /\ "server" \in Threads /\ "engine" \in Threads
  BY InvParts
<1>2. life = "down" /\ UNCHANGED <<archive, mutex, requests, responses, outbound, seen, next>>
  BY DEF Start, memoryVars
<1>3. Quiet
  BY <1>1, <1>2 DEF LifeInv, Quiet, Active, ThreadInv, FreshInv
<1>4. CASE file # None
  <2>1. life' = "refused" /\ UNCHANGED <<file, synced, entry, thread>>
    BY <1>4 DEF Start
  <2>2. Quiet'
    BY <1>2, <1>3, <2>1 DEF Quiet
  <2>3. FileInv' /\ OrderInv'
    BY <1>1, <2>1, SameLog DEF FileInv, OrderInv
  <2>4. \A r \in AuditRecords : Logged(r)' => r.id < next'
    BY <1>1, <1>2, <1>4, <2>1, SameLog DEF FreshInv
  <2>5. seen' \subseteq Nat /\ \A id \in seen' : Archived(id)' \/ (file' # None /\ entry' /\ Answered(id)')
    BY <1>1, <1>2, <2>1, MoreDurable DEF DurableInv, Archived
  <2>6. QuietState'
    BY <1>4, <2>1, <2>2, <2>3, <2>4, <2>5 DEF QuietState
  <2> QED
    BY <2>6, QuietInv, PTL
<1>5. CASE file = None
  <2>1. /\ file' = <<>> /\ synced' = 0 /\ entry' = FALSE /\ life' = "creating"
        /\ thread' = [thread EXCEPT !["main"] = Appending(Record("HEADER", 0))]
    BY <1>5 DEF Start
  <2>2. Record("HEADER", 0) \in AuditRecords /\ Record("HEADER", 0).id = 0
    BY RecordType DEF Kinds
  <2>3. file' \in Seq(FileParts) /\ Len(file') = 0 /\ file' # None
    BY <2>1, NoneAssumption, EmptySeq
  <2>4. /\ thread'["main"].pc = "lock" /\ thread'["main"].done = 0 /\ thread'["main"].rec = Record("HEADER", 0)
        /\ thread'["server"] = Idle /\ thread'["engine"] = Idle
        /\ thread'["server"].pc = "idle" /\ thread'["engine"].pc = "idle"
        /\ thread'["server"].rec.id = 0 /\ thread'["engine"].rec.id = 0
    <3>1. DOMAIN thread = Threads /\ thread["server"] = Idle /\ thread["engine"] = Idle
      BY <1>1, <1>3 DEF ThreadInv, Quiet
    <3>2. Idle.pc = "idle" /\ Idle.rec.id = 0
      BY DEF Idle, Record
    <3> QED
      BY <1>1, <2>1, <2>2, <3>1, <3>2, AppendingType
  <2>5. thread' \in [Threads -> [pc : {"idle", "lock", "write", "sync"}, rec : AuditRecords, done : 0 .. 2]]
    BY <1>1, <2>1, <2>2, AppendingType DEF ThreadInv
  <2>6. ThreadInv'
    BY <1>2, <1>3, <2>4, <2>5, IdleType, NoneAssumption DEF ThreadInv, Quiet, Threads
  <2>7. LifeInv'
    <3>1. thread'["main"] # Idle
      BY <2>4, IdleType
    <3>2. requests' = <<>> /\ responses' = <<>> /\ outbound' = <<>>
      BY <1>2, <1>3 DEF Quiet
    <3> QED
      BY <2>1, <2>3, <2>4, <3>1, <3>2 DEF LifeInv, Active
  <2>8. FileInv'
    <3>1. PICK L \in Nat : L = Len(file') /\ L = 0
      BY <2>3
    <3>2. synced' \in 0 .. L /\ ~(L >= 2) /\ \A i \in 1 .. L : FALSE
      BY <2>1, <3>1
    <3>0. entry' \in BOOLEAN
      <4>1. entry' = FALSE
        BY <2>1
      <4> QED
        BY <4>1, Zenon
    <3>3. ASSUME NEW i \in 1 .. Len(file') PROVE FALSE
      BY <3>1, <3>2, <3>3
    <3>4. synced' \in 0 .. Len(file') /\ ~(Len(file') >= 2)
      BY <3>1, <3>2
    <3> QED
      BY <2>3, <3>0, <3>3, <3>4 DEF FileInv
  <2>9. Written' = 0
    BY <1>2, <1>3 DEF Written, Quiet
  <2>10. TailInv'
    BY <1>2, <1>3, <2>1, <2>3, <2>9, NoneAssumption DEF TailInv, Quiet
  <2>11. \A i \in Nat : \A r : ~RecordAt(i, r, Len(file))'
    BY <2>3 DEF RecordAt
  <2>12. \A r : ~Logged(r)'
    BY <2>11 DEF Logged, LoggedWithin
  <2>13. OrderInv'
    BY <2>11 DEF OrderInv
  <2>14. requests' = <<>> /\ responses' = <<>> /\ outbound' = <<>> /\ next' \in Nat /\ next' >= 1
    BY <1>2, <1>3 DEF Quiet
  <2>15. /\ requests' \in Seq(Nat) /\ Len(requests') = 0 /\ responses' \in Seq(Nat) /\ Len(responses') = 0
         /\ outbound' \in Seq(Nat) /\ Len(outbound') = 0
    BY <2>14
  <2>16. FreshInv'
    BY <1>1, <2>2, <2>4, <2>12, <2>14, <2>15 DEF FreshInv, Threads, Pending
  <2>17. RequestInv'
    BY <2>4, <2>15 DEF RequestInv
  <2>18. \A id \in seen' : Archived(id)'
    BY <1>1, <1>2, <1>5 DEF DurableInv, Archived
  <2>19. DurableInv'
    BY <1>1, <1>2, <2>15, <2>18 DEF DurableInv
  <2> QED
    BY <2>6, <2>7, <2>8, <2>10, <2>13, <2>16, <2>17, <2>19 DEF AuditInv
<1> QED
  BY <1>4, <1>5

LEMMA ArchiveStep == ASSUME AuditInv, Archive PROVE AuditInv'
<1>1. /\ ThreadInv /\ LifeInv /\ FileInv /\ OrderInv /\ FreshInv /\ DurableInv
      /\ "main" \in Threads /\ "server" \in Threads /\ "engine" \in Threads
  BY InvParts
<1>2. /\ life = "refused" /\ archive' = archive \cup ToSet(Records(file))
      /\ file' = None /\ synced' = 0 /\ entry' = FALSE /\ life' = "down"
      /\ UNCHANGED <<mutex, thread, requests, responses, outbound, seen, next>>
  BY DEF Archive, memoryVars
<1>3. Quiet'
  BY <1>1, <1>2 DEF LifeInv, Quiet, Active, ThreadInv, FreshInv
<1>4. file # None /\ file \in Seq(FileParts) /\ synced \in 0 .. Len(file)
  BY <1>1, <1>2 DEF LifeInv, FileInv
<1>5. \A r : Durable(r) => r \in ToSet(Records(file))
  <2>1. ASSUME NEW r, Durable(r) PROVE r \in ToSet(Records(file))
    <3>1. PICK i \in Nat : i >= 1 /\ 2 * i <= synced /\ file[2 * i][1] = r
      BY <2>1 DEF Durable, LoggedWithin, RecordAt
    <3>2. 2 * i <= Len(file)
      BY <1>4, <3>1
    <3>3. i \in DOMAIN Records(file) /\ Records(file)[i] = r
      BY <1>4, <3>1, <3>2, RecordsAre
    <3> QED
      BY <3>3 DEF ToSet
  <2> QED
    BY <2>1
<1>6. \A id \in seen' : Archived(id)'
  BY <1>1, <1>2, <1>5 DEF DurableInv, Archived, Answered
<1>7. FileInv' /\ OrderInv'
  BY <1>2 DEF FileInv, OrderInv
<1>8. QuietState'
  BY <1>1, <1>2, <1>3, <1>6, <1>7 DEF QuietState, DurableInv
<1> QED
  BY <1>8, QuietInv, PTL

LEMMA AuditInitial == ASSUME Init PROVE AuditInv
<1>1. thread = [t \in Threads |-> Idle]
  BY DEF Init
<1>2. /\ \A t \in Threads : thread[t] = Idle
      /\ thread \in [Threads -> [pc : {"idle", "lock", "write", "sync"}, rec : AuditRecords, done : 0 .. 2]]
  BY <1>1, IdleType
<1>3. Quiet
  BY <1>2 DEF Quiet, Init
<1>4. QuietState
  BY <1>3 DEF QuietState, Init, FileInv, OrderInv
<1> QED
  BY <1>4, QuietInv

LEMMA AuditStutter == ASSUME AuditInv, UNCHANGED vars PROVE AuditInv'
<1>1. ThreadInv /\ LifeInv /\ FileInv /\ TailInv /\ OrderInv /\ FreshInv /\ RequestInv /\ DurableInv
  BY InvParts
<1>2. UNCHANGED <<file, synced, entry, archive, life, mutex, thread, requests, responses, outbound, seen, next>>
  BY DEF vars, diskVars, memoryVars
<1>3. ThreadInv' /\ LifeInv' /\ FileInv' /\ TailInv'
  <2>1. ThreadInv' /\ FileInv'
    BY <1>1, <1>2 DEF ThreadInv, FileInv
  <2>2. LifeInv'
    BY <1>1, <1>2 DEF LifeInv, Active
  <2>3. TailInv'
    BY <1>1, <1>2 DEF TailInv, Active, Written
  <2> QED
    BY <2>1, <2>2, <2>3
<1>4. OrderInv' /\ FreshInv' /\ RequestInv'
  BY <1>1, <1>2, SameLog DEF OrderInv, FreshInv, RequestInv, Pending
<1>5. DurableInv'
  BY <1>1, <1>2, MoreDurable DEF DurableInv, Archived, Pending
<1> QED
  BY <1>3, <1>4, <1>5 DEF AuditInv

LEMMA AuditInductive == Spec => []AuditInv
<1>1. Init => AuditInv
  BY AuditInitial
<1>2. AuditInv /\ [Next]_vars => AuditInv'
  <2> SUFFICES ASSUME AuditInv, [Next]_vars PROVE AuditInv'
    OBVIOUS
  <2>1. CASE Journal
    BY <2>1, LockStep, WriteStep, SyncStep DEF Journal
  <2>2. CASE Start
    BY <2>2, StartStep
  <2>3. CASE SyncDirectory
    BY <2>3, DirectoryStep
  <2>4. CASE Archive
    BY <2>4, ArchiveStep
  <2>5. CASE Receive \/ Reject
    BY <2>5, ReceiveStep, RejectStep
  <2>6. CASE Respond \/ Flush \/ ApplyRequest
    BY <2>6, RespondStep, FlushStep, ApplyStep
  <2>7. CASE ProcessCrash \/ MachineCrash
    BY <2>7, ProcessCrashStep, MachineCrashStep
  <2>8. CASE UNCHANGED vars
    BY <2>8, AuditStutter
  <2> QED
    BY <2>1, <2>2, <2>3, <2>4, <2>5, <2>6, <2>7, <2>8 DEF Next
<1> QED
  BY <1>1, <1>2, PTL DEF Spec

LEMMA InvReplays == AuditInv => JournalReplays
<1> SUFFICES ASSUME AuditInv, file # None
    PROVE LET rs == Records(file)
              at(kind, id) == {i \in DOMAIN rs : rs[i] = Record(kind, id)}
          IN  /\ \A i \in DOMAIN file : file[i][2] = IF i % 2 = 1 THEN 1 ELSE 2
              /\ \A i \in DOMAIN file : i % 2 = 0 => file[i][1] = file[i - 1][1]
              /\ rs # <<>> => rs[1] = Record("HEADER", 0)
              /\ \A i, j \in DOMAIN rs : rs[i] = rs[j] => i = j
              /\ \A i \in DOMAIN rs :
                    /\ rs[i].kind = "RESPONSE" => \E j \in at("APPLY", rs[i].id) : j < i
                    /\ rs[i].kind = "APPLY" => \E j \in at("RECEIVED", rs[i].id) : j < i
  BY DEF JournalReplays
<1>1. FileInv /\ OrderInv
  BY InvParts
<1>2. file \in Seq(FileParts) /\ DOMAIN file = 1 .. Len(file)
  BY <1>1 DEF FileInv
<1>3. PICK rs : rs = Records(file)
  OBVIOUS
<1>4. /\ \A i : i \in DOMAIN rs <=> i \in Nat /\ i >= 1 /\ 2 * i <= Len(file)
      /\ \A i \in DOMAIN rs : rs[i] = file[2 * i][1]
      /\ rs # <<>> => Len(file) >= 2
  <2>1. /\ DOMAIN rs = {i \in Nat : i >= 1 /\ 2 * i <= Len(file)}
        /\ \A i \in DOMAIN rs : rs[i] = file[2 * i][1]
        /\ rs = <<>> <=> Len(file) < 2
    BY <1>2, <1>3, RecordsAre
  <2>2. Len(file) \in Nat
    BY <1>2
  <2> QED
    BY <2>1, <2>2
<1>5. \A i, r : RecordAt(i, r, Len(file)) <=> i \in DOMAIN rs /\ rs[i] = r
  BY <1>4 DEF RecordAt
<1>6. \A i \in DOMAIN rs : rs[i] \in AuditRecords /\ rs[i].id \in Nat /\ rs[i] = Record(rs[i].kind, rs[i].id)
  <2>1. ASSUME NEW i \in DOMAIN rs PROVE rs[i] \in AuditRecords
    <3>1. 2 * i \in 1 .. Len(file)
      BY <1>2, <1>4, <2>1
    <3>2. file[2 * i] \in FileParts
      BY <1>2, <3>1
    <3> QED
      BY <1>4, <2>1, <3>2 DEF FileParts, AuditRecords
  <2> QED
    BY <2>1, RecordEq DEF AuditRecords
<1>7. /\ \A i \in DOMAIN file : file[i][2] = IF i % 2 = 1 THEN 1 ELSE 2
      /\ \A i \in DOMAIN file : i % 2 = 0 => file[i][1] = file[i - 1][1]
  BY <1>1, <1>2 DEF FileInv
<1>8. rs # <<>> => rs[1] = Record("HEADER", 0)
  BY <1>1, <1>2, <1>4 DEF FileInv
<1>9. \A i, j \in DOMAIN rs : rs[i] = rs[j] => i = j
  BY <1>1, <1>4, <1>5, <1>6 DEF OrderInv
<1>10. ASSUME NEW i \in DOMAIN rs
       PROVE  /\ rs[i].kind = "RESPONSE" => \E j \in DOMAIN rs : rs[j] = Record("APPLY", rs[i].id) /\ j < i
              /\ rs[i].kind = "APPLY" => \E j \in DOMAIN rs : rs[j] = Record("RECEIVED", rs[i].id) /\ j < i
  <2>1. i \in Nat /\ RecordAt(i, Record(rs[i].kind, rs[i].id), Len(file)) /\ rs[i].id \in Nat
    BY <1>4, <1>5, <1>6, <1>10
  <2>2. ASSUME rs[i].kind = "RESPONSE"
        PROVE  \E j \in DOMAIN rs : rs[j] = Record("APPLY", rs[i].id) /\ j < i
    <3>1. PICK j \in Nat : j < i /\ RecordAt(j, Record("APPLY", rs[i].id), Len(file))
      BY <1>1, <2>1, <2>2 DEF OrderInv
    <3> QED
      BY <1>5, <3>1
  <2>3. ASSUME rs[i].kind = "APPLY"
        PROVE  \E j \in DOMAIN rs : rs[j] = Record("RECEIVED", rs[i].id) /\ j < i
    <3>1. PICK j \in Nat : j < i /\ RecordAt(j, Record("RECEIVED", rs[i].id), Len(file))
      BY <1>1, <2>1, <2>3 DEF OrderInv
    <3> QED
      BY <1>5, <3>1
  <2> QED
    BY <2>2, <2>3
<1> QED
  BY <1>3, <1>7, <1>8, <1>9, <1>10

LEMMA InvDurable == AuditInv => SeenIsDurable
<1> SUFFICES ASSUME AuditInv,
                    NEW id \in seen,
                    NEW durable, durable = IF file = None \/ ~entry THEN <<>> ELSE Records(SubSeq(file, 1, synced))
             PROVE  \E r \in archive \cup ToSet(durable) : r.kind \in {"RESPONSE", "REJECT"} /\ r.id = id
  BY DEF SeenIsDurable
<1>1. DurableInv /\ FileInv
  BY InvParts
<1>2. id \in Nat
  BY <1>1 DEF DurableInv
<1>3. /\ Record("RESPONSE", id).kind = "RESPONSE" /\ Record("RESPONSE", id).id = id
      /\ Record("REJECT", id).kind = "REJECT" /\ Record("REJECT", id).id = id
  BY DEF Record
<1>4. CASE Archived(id)
  BY <1>3, <1>4 DEF Archived
<1>5. CASE file # None /\ entry /\ Answered(id)
  <2>1. file \in Seq(FileParts) /\ synced \in 0 .. Len(file) /\ Len(file) \in Nat
    BY <1>1, <1>5 DEF FileInv
  <2>2. PICK f : f = SubSeq(file, 1, synced)
    OBVIOUS
  <2>3. f \in Seq(FileParts) /\ Len(f) = synced /\ \A i \in 1 .. synced : f[i] = file[i]
    <3>1. \A i \in 1 .. synced : file[i] \in FileParts
      BY <2>1
    <3> QED
      BY <2>1, <2>2, <3>1, SubSeqProperties
  <2>4. ASSUME NEW r, Durable(r) PROVE r \in ToSet(durable)
    <3>1. PICK i \in Nat : i >= 1 /\ 2 * i <= synced /\ file[2 * i][1] = r
      BY <2>4 DEF Durable, LoggedWithin, RecordAt
    <3>2. 2 * i \in 1 .. synced
      BY <2>1, <3>1
    <3>3. i \in DOMAIN Records(f) /\ Records(f)[i] = r
      <4>1. /\ DOMAIN Records(f) = {j \in Nat : j >= 1 /\ 2 * j <= Len(f)}
            /\ \A j \in DOMAIN Records(f) : Records(f)[j] = f[2 * j][1]
        BY <2>3, RecordsAre
      <4>2. i \in DOMAIN Records(f)
        BY <2>3, <3>1, <4>1
      <4>3. f[2 * i] = file[2 * i]
        BY <2>3, <3>2
      <4> QED
        BY <3>1, <4>1, <4>2, <4>3
    <3>4. durable = Records(f)
      BY <1>5, <2>2
    <3> QED
      BY <3>3, <3>4 DEF ToSet
  <2> QED
    BY <1>3, <1>5, <2>4 DEF Answered
<1> QED
  BY <1>1, <1>4, <1>5 DEF DurableInv

\* After any crash, what is in the journal's file can be replayed: records of the
\* two threads never mix (CriticalJournal::append holds writer_), none is there
\* twice, and every request is received, applied and answered in this order.
THEOREM JournalCanBeReplayed == Spec => []JournalReplays
BY AuditInductive, InvReplays, PTL

\* What a client may have seen is durable: append() returns after fsync, and the
\* answer leaves the process after append() returned.
THEOREM AnswersAreDurable == Spec => []SeenIsDurable
BY AuditInductive, InvDurable, PTL
===============================================================================
