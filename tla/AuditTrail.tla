------------------------------ MODULE AuditTrail ------------------------------
(***************************************************************************)
(* The exchange's durable audit: CriticalJournal, to which the order       *)
(* server's thread and the matching thread append under one mutex, and the *)
(* file it leaves behind when the process or the machine crashes at any    *)
(* point, up to the start that refuses to run over an existing journal.    *)
(*                                                                         *)
(* A record is written in one or more writes: it has two parts, and what a *)
(* crash leaves is a sequence of parts.  Each request gets one response.   *)
(* FATAL and failed ASSERTs are crashes of the process.  The file system   *)
(* is external: of the parts not yet synced, and of a directory entry not  *)
(* yet synced, a machine crash keeps any prefix, or nothing.               *)
(***************************************************************************)
EXTENDS Integers, Sequences, FiniteSets, SequencesExt

CONSTANTS MaxRequests, \* bound on the requests
          MaxStarts,   \* bound on the starts of the exchange
          None         \* no file; nobody holds the mutex

ASSUME AuditAssumption == MaxRequests \in Nat /\ MaxStarts \in Nat

VARIABLES file,     \* the parts in the journal file, or None
          synced,   \* how many of them fsync has made durable
          entry,    \* the directory entry is durable
          archive,  \* the records of journals that were reconciled and moved away
          life,     \* "down", "creating", "running", "refused"
          starts,   \* starts of the exchange so far
          mutex,    \* owner of writer_
          thread,   \* what each thread is appending
          requests, responses, \* the queues between the two threads
          outbound, \* responses in the server's TCP buffers
          seen,     \* responses that have left the process
          next      \* the next request

diskVars == <<file, synced, entry, archive>>
memoryVars == <<requests, responses, outbound>>
vars == <<diskVars, life, starts, mutex, thread, memoryVars, seen, next>>

Threads == {"main", "server", "engine"}
Kinds == {"HEADER", "RECEIVED", "APPLY", "RESPONSE", "REJECT", "NONE"}
Record(kind, id) == [kind |-> kind, id |-> id]
FileParts == [kind : Kinds, id : Nat] \X {1, 2}

ASSUME NoneAssumption == None \notin Threads /\ None \notin Seq(FileParts)

Idle == [pc |-> "idle", rec |-> Record("NONE", 0), done |-> 0]
Appending(rec) == [pc |-> "lock", rec |-> rec, done |-> 0]
Parts(rec, m, n) == [i \in 1 .. n - m |-> <<rec, m + i>>]

\* The whole records among parts, in order: a record ends at every other part.
Records(parts) == [i \in 1 .. Len(parts) \div 2 |-> parts[2 * i][1]]
-------------------------------------------------------------------------------
(* CriticalJournal::append                                                   *)

LockAnyway(t) ==
    /\ thread[t].pc = "lock"
    /\ mutex' = t
    /\ thread' = [thread EXCEPT ![t].pc = "write"]
    /\ UNCHANGED <<diskVars, life, starts, memoryVars, seen, next>>

Lock(t) ==
    /\ thread[t].pc = "lock" /\ mutex = None
    /\ mutex' = t
    /\ thread' = [thread EXCEPT ![t].pc = "write"]
    /\ UNCHANGED <<diskVars, life, starts, memoryVars, seen, next>>

\* ::write takes some of what is left of the record.
Write(t) ==
    /\ thread[t].pc = "write"
    /\ \E n \in thread[t].done + 1 .. 2 :
          /\ file' = file \o Parts(thread[t].rec, thread[t].done, n)
          /\ thread' = [thread EXCEPT ![t].done = n, ![t].pc = IF n = 2 THEN "sync" ELSE "write"]
    /\ UNCHANGED <<synced, entry, archive, life, starts, mutex, memoryVars, seen, next>>

\* What the caller does once append() has returned.
\*   RECEIVED  addClientRequest; the sequencer publishes it
\*   APPLY     the engine processes the request and audits its response
\*   RESPONSE  the response is pushed, and the request popped
\*   REJECT    nothing: the rejection is already in the TCP buffer
\*   HEADER    the constructor goes on
Continue(t) ==
    LET rec == thread[t].rec
    IN  /\ requests' = CASE rec.kind = "RECEIVED" -> Append(requests, rec.id)
                         [] rec.kind = "RESPONSE" -> Tail(requests)
                         [] OTHER -> requests
        /\ responses' = IF rec.kind = "RESPONSE" THEN Append(responses, rec.id) ELSE responses
        /\ thread' = [thread EXCEPT ![t] = IF rec.kind = "APPLY"
                                           THEN Appending(Record("RESPONSE", rec.id)) ELSE Idle]

SyncLater(t) ==
    /\ thread[t].pc = "sync"
    /\ mutex' = None
    /\ Continue(t)
    /\ UNCHANGED <<diskVars, life, starts, outbound, seen, next>>

\* fsync makes everything in the file durable; the mutex is released.
Sync(t) ==
    /\ thread[t].pc = "sync"
    /\ synced' = Len(file)
    /\ mutex' = None
    /\ Continue(t)
    /\ UNCHANGED <<file, entry, archive, life, starts, outbound, seen, next>>
-------------------------------------------------------------------------------
(* The constructor, on the main thread.                                      *)

\* O_EXCL: an existing journal must first be reconciled.
Start ==
    /\ life = "down" /\ starts < MaxStarts
    /\ starts' = starts + 1
    /\ IF file = None
       THEN /\ file' = <<>> /\ synced' = 0 /\ entry' = FALSE
            /\ life' = "creating"
            /\ thread' = [thread EXCEPT !["main"] = Appending(Record("HEADER", 0))]
       ELSE life' = "refused" /\ UNCHANGED <<file, synced, entry, thread>>
    /\ UNCHANGED <<archive, mutex, memoryVars, seen, next>>

\* fsync of the parent directory; only then the threads are started.
SyncDirectory ==
    /\ life = "creating" /\ thread["main"] = Idle
    /\ entry' = TRUE
    /\ life' = "running"
    /\ UNCHANGED <<file, synced, archive, starts, mutex, thread, memoryVars, seen, next>>

\* The operator reconciles the journal and moves it away.
Archive ==
    /\ life = "refused"
    /\ archive' = archive \cup ToSet(Records(file))
    /\ file' = None /\ synced' = 0 /\ entry' = FALSE
    /\ life' = "down"
    /\ UNCHANGED <<starts, mutex, thread, memoryVars, seen, next>>
-------------------------------------------------------------------------------
(* OrderServer and MatchingEngine, between two appends.                      *)

Free(t) == life = "running" /\ thread[t] = Idle

\* recvCallback accepts a request: audited before it is stored.
Receive ==
    /\ Free("server") /\ next <= MaxRequests
    /\ thread' = [thread EXCEPT !["server"] = Appending(Record("RECEIVED", next))]
    /\ next' = next + 1
    /\ UNCHANGED <<diskVars, life, starts, mutex, memoryVars, seen>>

\* reject(): audited after it is in the TCP buffer, on the thread that will flush.
Reject ==
    /\ Free("server") /\ next <= MaxRequests
    /\ outbound' = Append(outbound, next)
    /\ thread' = [thread EXCEPT !["server"] = Appending(Record("REJECT", next))]
    /\ next' = next + 1
    /\ UNCHANGED <<diskVars, life, starts, mutex, requests, responses, seen>>

\* run(): a response goes into its TCP buffer.
Respond ==
    /\ Free("server") /\ responses # <<>>
    /\ outbound' = Append(outbound, Head(responses))
    /\ responses' = Tail(responses)
    /\ UNCHANGED <<diskVars, life, starts, mutex, thread, requests, seen, next>>

Flush ==
    /\ Free("server") /\ outbound # <<>>
    /\ seen' = seen \cup ToSet(outbound)
    /\ outbound' = <<>>
    /\ UNCHANGED <<diskVars, life, starts, mutex, thread, requests, responses, next>>

\* processClientRequest: audited before it is applied.
ApplyRequest ==
    /\ Free("engine") /\ requests # <<>>
    /\ thread' = [thread EXCEPT !["engine"] = Appending(Record("APPLY", Head(requests)))]
    /\ UNCHANGED <<diskVars, life, starts, mutex, memoryVars, seen, next>>
-------------------------------------------------------------------------------
(* Crashes.  The process loses its memory; the machine also what is not synced. *)

Lost ==
    /\ life' = "down" /\ mutex' = None
    /\ thread' = [t \in Threads |-> Idle]
    /\ requests' = <<>> /\ responses' = <<>> /\ outbound' = <<>>
    /\ UNCHANGED <<archive, starts, seen, next>>

ProcessCrash ==
    /\ life \in {"creating", "running"}
    /\ Lost
    /\ UNCHANGED <<file, synced, entry>>

MachineCrash ==
    /\ file # None
    /\ Lost
    /\ \/ \E n \in synced .. Len(file) :
             file' = SubSeq(file, 1, n) /\ synced' = n /\ entry' = TRUE
       \/ ~entry /\ file' = None /\ synced' = 0 /\ UNCHANGED entry
-------------------------------------------------------------------------------
Init ==
    /\ file = None /\ synced = 0 /\ entry = FALSE /\ archive = {}
    /\ life = "down" /\ starts = 0 /\ mutex = None
    /\ thread = [t \in Threads |-> Idle]
    /\ requests = <<>> /\ responses = <<>> /\ outbound = <<>> /\ seen = {} /\ next = 1

Journal == \E t \in Threads : Lock(t) \/ Write(t) \/ Sync(t)

Next == \/ Journal \/ Start \/ SyncDirectory \/ Archive
        \/ Receive \/ Reject \/ Respond \/ Flush \/ ApplyRequest
        \/ ProcessCrash \/ MachineCrash

Spec == Init /\ [][Next]_vars
-------------------------------------------------------------------------------
\* Every response a client may have seen is on record, in the journal or in one
\* that was reconciled, whatever crash comes next: it is durable before it leaves
\* the process, and no start of the exchange runs over the journal.
SeenIsDurable ==
    LET durable == IF file = None \/ ~entry THEN <<>> ELSE Records(SubSeq(file, 1, synced))
    IN  \A id \in seen : \E r \in archive \cup ToSet(durable) :
            r.kind \in {"RESPONSE", "REJECT"} /\ r.id = id

\* What is in the file, at any time and after any crash, can be replayed: the two
\* threads' records never mix, only the last may be torn, and every request is
\* received, applied and answered in this order, each at most once.
JournalReplays ==
    file # None =>
        LET rs == Records(file)
            at(kind, id) == {i \in DOMAIN rs : rs[i] = Record(kind, id)}
        IN  /\ \A i \in DOMAIN file : file[i][2] = IF i % 2 = 1 THEN 1 ELSE 2
            /\ \A i \in DOMAIN file : i % 2 = 0 => file[i][1] = file[i - 1][1]
            /\ rs # <<>> => rs[1] = Record("HEADER", 0)
            /\ \A i, j \in DOMAIN rs : rs[i] = rs[j] => i = j
            /\ \A i \in DOMAIN rs :
                  /\ rs[i].kind = "RESPONSE" => \E j \in at("APPLY", rs[i].id) : j < i
                  /\ rs[i].kind = "APPLY" => \E j \in at("RECEIVED", rs[i].id) : j < i
=============================================================================
