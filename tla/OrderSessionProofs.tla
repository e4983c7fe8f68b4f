-------------------------- MODULE OrderSessionProofs --------------------------
(***************************************************************************)
(* Every request reaches the matching engine once and in order, every      *)
(* response the session it belongs to, pending_requests_ is exact, and     *)
(* clean stops leave nothing open, for any number of clients, sessions and *)
(* requests, any capacities and any frames of a second connection.         *)
(***************************************************************************)
EXTENDS OrderSession, CommonLemmas

\* What the queues and buffers hold.
ResponseTypes == {"ANSWER", "FILLED", "VERSION", "IDENTITY", "SESSION", "SEQUENCE", "INVALID"}
Responses == [type : ResponseTypes, epoch : Nat, id : Nat, rid : Nat]
UpFrames == [type : {"NEW", "QUERY", "BAD", "BADQUERY", "GARBLED"}, epoch : 0 .. MaxEpoch,
             seq : Nat \ {0}, id : Nat \ {0}, time : Nat]
DownFrames == [seq : Nat, epoch : Nat, resp : Responses]
Requests == [client : Clients, type : {"NEW", "QUERY"}, epoch : Nat, id : Nat \ {0}, time : Nat]
Replies == [client : Clients, resp : Responses]
Gateways == [epoch : 1 .. MaxEpoch, queue : Seq(Nat \ {0}), submitted : Nat, next : Nat \ {0},
             pending : Nat, expected : Nat \ {0}, healthy : BOOLEAN,
             state : {"run", "stopping", "stopped"}, unread : Nat, got : Seq(Responses)]

Types ==
    /\ gw \in [Clients -> Gateways]
    /\ up \in [Sockets -> Seq(UpFrames)] /\ inbound \in [Sockets -> Seq(UpFrames)]
    /\ down \in [Sockets -> Seq(DownFrames)] /\ clock \in Nat /\ rx \in [Sockets -> Nat]
    /\ open \in [Sockets -> BOOLEAN]
    /\ owner \in [Clients -> 0 .. Peer] /\ epoch \in [Clients -> 0 .. MaxEpoch]
    /\ unknown \in [Clients -> BOOLEAN] /\ accepted \in [Clients -> Nat]
    /\ expected \in [Clients -> Nat \ {0}] /\ outSeq \in [Clients -> Nat \ {0}]
    /\ anonSeq \in [Sockets -> Nat \ {0}]
    /\ pending \in Seq(Requests) /\ requestQ \in Seq(Requests) /\ responseQ \in Seq(Replies)
    /\ exPhase \in {"accepting", "quiescing", "engine", "server", "stopped"}
    /\ halted \in BOOLEAN
    /\ matched \in [Clients -> Seq(Requests)] /\ issued \in [Clients -> Nat]
    /\ peerSent \in [Clients -> Nat]

\* None of the buffers runs over.
Bounds ==
    /\ \A c \in Clients : gw[c].submitted <= MaxRequests /\ gw[c].unread <= ClientCapacity
    /\ \A s \in Sockets : /\ Len(up[s]) <= WireCapacity /\ Len(down[s]) <= WireCapacity
                          /\ Len(inbound[s]) <= WireCapacity
    /\ Len(pending) <= SequencerCapacity
    /\ Len(requestQ) <= RequestCapacity /\ Len(responseQ) <= ResponseCapacity

\* How many of the first n elements of q are in S.
Count(q, S, n) == Cardinality({i \in 1 .. n : q[i] \in S})

Settling == {r \in Responses : r.type # "FILLED"}
SettlingFrames == {f \in DownFrames : f.resp.type # "FILLED"}
SettlingReplies(c) == {r \in Replies : r.client = c /\ r.resp.type # "FILLED"}
Genuine == {r \in Responses : r.rid # 0}
GenuineFrames == {f \in DownFrames : f.resp.rid # 0}
RepliesTo(c) == {r \in Replies : r.client = c}
RequestsOf(c) == {r \in Requests : r.client = c}

Total(q, S) == Count(q, S, Len(q))

\* The gateway numbers the queued requests in order; a clean stop is a complete one.
GatewayInv(c) ==
    /\ gw[c].next - 1 + Len(gw[c].queue) = gw[c].submitted
    /\ \A i \in 1 .. Len(gw[c].queue) : gw[c].queue[i] = gw[c].next - 1 + i
    /\ gw[c].pending = gw[c].next - 1 - Total(gw[c].got, Settling)
    /\ gw[c].state = "stopped" /\ gw[c].healthy => gw[c].queue = <<>> /\ gw[c].pending = 0

\* A connection carries one session, that of its number; later ones are unused
\* yet, and so is the second connection until its first frame.
FrameShape(q, e) ==
    \A i \in 1 .. Len(q) : q[i].id = q[i].seq /\ (e # Peer => q[i].type = "NEW" /\ q[i].epoch = e)

Unused(s) == up[s] = <<>> /\ inbound[s] = <<>> /\ down[s] = <<>> /\ anonSeq[s] = 1

SocketInv(c) ==
    /\ owner[c] = Peer \/ owner[c] <= gw[c].epoch
    /\ owner[c] # 0 => epoch[c] # 0
    /\ owner[c] \notin {0, Peer} => epoch[c] = owner[c]
    /\ unknown[c] => owner[c] = Peer
    /\ \A e \in 1 .. Peer :
          /\ FrameShape(up[<<c, e>>], e) /\ FrameShape(inbound[<<c, e>>], e)
          /\ e # Peer /\ e > gw[c].epoch => Unused(<<c, e>>)
          /\ ~open[<<c, e>>] => Closed(<<c, e>>)
    /\ peerSent[c] = 0 => owner[c] # Peer /\ Unused(<<c, Peer>>)

\* The number the server will give to its next frame for the client's session.
NextNumber(c) == IF owner[c] = gw[c].epoch THEN outSeq[c] ELSE anonSeq[Current(c)]

\* What is on its way to the gateway is what it expects.
NumberInv(c) ==
    LET s == Current(c) IN
    /\ \A i \in 1 .. Len(down[s]) : /\ down[s][i].seq = gw[c].expected + i - 1
                                    /\ down[s][i].epoch = gw[c].epoch
    /\ open[s] => NextNumber(c) = gw[c].expected + Len(down[s])

\* Each request that the session has sent is settled at most once: there are as
\* many requests as answers, given or still to come.
AtExchange(c) ==
    IF owner[c] = gw[c].epoch
    THEN Total(pending, RequestsOf(c)) + Total(requestQ, RequestsOf(c))
           + Total(responseQ, SettlingReplies(c))
    ELSE 0

SettleInv(c) ==
    LET s == Current(c) IN
    Total(gw[c].got, Settling) + Total(down[s], SettlingFrames) + Len(up[s]) + Len(inbound[s])
      + AtExchange(c) <= gw[c].next - 1

\* Nothing is at the exchange of a client that has not been bound.
AbsentInv(c) ==
    owner[c] = 0 =>
        /\ expected[c] = 1 /\ accepted[c] = 0 /\ matched[c] = <<>> /\ issued[c] = 0
        /\ \A i \in 1 .. Len(pending) : pending[i].client # c
        /\ \A i \in 1 .. Len(requestQ) : requestQ[i].client # c
        /\ \A i \in 1 .. Len(responseQ) : responseQ[i].client # c
        /\ Total(gw[c].got, Genuine) = 0
        /\ \A e \in 1 .. Peer : Total(down[<<c, e>>], GenuineFrames) = 0

\* The responses of the matching engine to a client are numbered in order, in
\* the gateway, on the way to it and in the queue.
ReplyInv(c) ==
    LET s == Current(c)
        a == Total(gw[c].got, Genuine)
        b == Total(down[s], GenuineFrames)
    IN  /\ \A i \in 1 .. Len(gw[c].got) :
              gw[c].got[i].rid # 0 => /\ gw[c].got[i].rid = Count(gw[c].got, Genuine, i)
                                      /\ gw[c].got[i].epoch = gw[c].epoch
        /\ \A i \in 1 .. Len(down[s]) :
              down[s][i].resp.rid # 0 => /\ down[s][i].resp.rid = a + Count(down[s], GenuineFrames, i)
                                         /\ down[s][i].resp.epoch = gw[c].epoch
        /\ \A i \in 1 .. Len(responseQ) :
              responseQ[i].client = c =>
                 /\ responseQ[i].resp.epoch = epoch[c] /\ responseQ[i].resp.rid # 0
                 /\ owner[c] = gw[c].epoch =>
                       responseQ[i].resp.rid = a + b + Count(responseQ, RepliesTo(c), i)
        /\ owner[c] = gw[c].epoch => issued[c] = a + b + Total(responseQ, RepliesTo(c))

\* Frames arrive in the order of their times.
TimeInv(s) ==
    /\ \A i \in 1 .. Len(up[s]) : rx[s] <= up[s][i].time /\ up[s][i].time <= clock
    /\ \A i, j \in 1 .. Len(up[s]) : i < j => up[s][i].time <= up[s][j].time
    /\ rx[s] <= clock

IsOrder(r, c) == r.client = c /\ r.type = "NEW"
Ascending(q, c) ==
    \A i, j \in 1 .. Len(q) : i < j /\ IsOrder(q[i], c) /\ IsOrder(q[j], c) => q[i].id < q[j].id
Precedes(p, q, c) ==
    \A i \in 1 .. Len(p), j \in 1 .. Len(q) :
        IsOrder(p[i], c) /\ IsOrder(q[j], c) => p[i].id < q[j].id
InSession(q, c) ==
    \A i \in 1 .. Len(q) : q[i].client = c =>
        /\ q[i].epoch = epoch[c]
        /\ q[i].type = "NEW" /\ ~unknown[c] => q[i].id < expected[c]

\* The orders of a client, from the matching engine back to the sequencer, have
\* ascending numbers, and the sequencer's sort cannot exchange two of them.
OrderInv(c) ==
    /\ \A i \in 1 .. Len(matched[c]) : matched[c][i].client = c
    /\ InSession(matched[c], c) /\ InSession(requestQ, c) /\ InSession(pending, c)
    /\ Ascending(matched[c], c) /\ Ascending(requestQ, c) /\ Ascending(pending, c)
    /\ Precedes(matched[c], requestQ, c) /\ Precedes(matched[c], pending, c)
    /\ Precedes(requestQ, pending, c)
    /\ \A i, j \in 1 .. Len(pending) :
          i < j /\ IsOrder(pending[i], c) /\ IsOrder(pending[j], c) => pending[i].time <= pending[j].time
    /\ ~unknown[c] => \A i \in 1 .. Len(pending) :
                         IsOrder(pending[i], c) => pending[i].time <= rx[<<c, owner[c]>>]

Holds(q, c, k) == \E i \in 1 .. Len(q) : q[i].client = c /\ q[i].id = k

\* As long as no other connection speaks for the client, no number is missing.
WholeInv(c) ==
    peerSent[c] = 0 =>
        /\ expected[c] = accepted[c] + 1
        /\ \A i \in 1 .. Len(matched[c]) : matched[c][i].type = "NEW" /\ matched[c][i].id = i
        /\ \A q \in {requestQ, pending} : \A i \in 1 .. Len(q) : q[i].client = c => q[i].type = "NEW"
        /\ \A k \in 1 .. accepted[c] :
              k <= Len(matched[c]) \/ Holds(requestQ, c, k) \/ Holds(pending, c, k)

\* What was accepted is with the sequencer, in the queue or has been taken; the
\* shutdown empties the one after the other.
AcceptInv ==
    /\ \A c \in Clients : Len(matched[c]) + Total(requestQ, RequestsOf(c))
                            + Total(pending, RequestsOf(c)) = accepted[c]
    /\ exPhase \in {"engine", "server", "stopped"} => pending = <<>>
    /\ exPhase \in {"server", "stopped"} => requestQ = <<>>

\* A first session that goes on, and whose client's id no other connection has
\* bound while it was free: all its numbers are the expected ones, and it is
\* never refused.
Steady(c) == gw[c].epoch = 1 /\ gw[c].state # "stopped" /\ (owner[c] = Peer => unknown[c])
SteadyInv(c) ==
    LET s == <<c, 1>> IN
    Steady(c) =>
        /\ owner[c] # Peer /\ gw[c].healthy /\ open[s]
        /\ \A i \in 1 .. Len(inbound[s]) : inbound[s][i].seq = expected[c] + i - 1
        /\ \A i \in 1 .. Len(up[s]) : up[s][i].seq = expected[c] + Len(inbound[s]) + i - 1
        /\ gw[c].next = expected[c] + Len(inbound[s]) + Len(up[s])
        /\ \A i \in 1 .. Len(down[s]) : down[s][i].resp.type \in {"ANSWER", "FILLED"}
        /\ \A i \in 1 .. Len(responseQ) :
              responseQ[i].client = c => responseQ[i].resp.type \in {"ANSWER", "FILLED"}

ClientInv(c) ==
    /\ GatewayInv(c) /\ SocketInv(c) /\ NumberInv(c) /\ SettleInv(c) /\ AbsentInv(c)
    /\ ReplyInv(c) /\ OrderInv(c) /\ WholeInv(c) /\ SteadyInv(c)

SessionInv ==
    /\ Types /\ Bounds /\ AcceptInv
    /\ \A s \in Sockets : TimeInv(s)
    /\ \A c \in Clients : ClientInv(c)

-------------------------------------------------------------------------------
(* Counting the elements of a sequence.                                       *)

LEMMA CountType ==
    ASSUME NEW q, NEW S, NEW n \in Nat
    PROVE  Count(q, S, n) \in Nat /\ Count(q, S, n) <= n
<1>1. IsFiniteSet(1 .. n) /\ Cardinality(1 .. n) = n
  BY FS_Interval
<1>2. {i \in 1 .. n : q[i] \in S} \in SUBSET (1 .. n)
  OBVIOUS
<1> QED
  BY <1>1, <1>2, FS_Subset, FS_CardinalityType DEF Count

LEMMA CountZero == ASSUME NEW q, NEW S PROVE Count(q, S, 0) = 0
<1>1. {i \in 1 .. 0 : q[i] \in S} = {}
  OBVIOUS
<1> QED
  BY <1>1, FS_EmptySet DEF Count

\* One more element.
LEMMA CountNext ==
    ASSUME NEW q, NEW S, NEW n \in Nat
    PROVE  Count(q, S, n + 1) = Count(q, S, n) + IF q[n + 1] \in S THEN 1 ELSE 0
<1>1. PICK A : A = {i \in 1 .. n : q[i] \in S}
  OBVIOUS
<1>2. IsFiniteSet(A)
  <2>1. IsFiniteSet(1 .. n) /\ A \in SUBSET (1 .. n)
    BY <1>1, FS_Interval
  <2> QED
    BY <2>1, FS_Subset
<1>3. Cardinality(A) \in Nat
  BY <1>2, FS_CardinalityType
<1>4. CASE q[n + 1] \in S
  <2>1. {i \in 1 .. n + 1 : q[i] \in S} = A \cup {n + 1}
    BY <1>1, <1>4
  <2>2. n + 1 \notin A
    BY <1>1
  <2>3. Cardinality(A \cup {n + 1}) = Cardinality(A) + 1
    BY <1>2, <2>2, FS_AddElement
  <2> QED
    BY <1>1, <1>4, <2>1, <2>3 DEF Count
<1>5. CASE q[n + 1] \notin S
  <2>1. {i \in 1 .. n + 1 : q[i] \in S} = A
    BY <1>1, <1>5
  <2>2. PICK x \in Nat : x = Cardinality(A)
    BY <1>3
  <2>3. Count(q, S, n + 1) = x /\ Count(q, S, n) = x
    BY <1>1, <2>1, <2>2 DEF Count
  <2> QED
    BY <1>5, <2>3
<1> QED
  BY <1>4, <1>5

\* Sequences that agree on what is counted.
LEMMA CountAgree ==
    ASSUME NEW q, NEW r, NEW S, NEW T, NEW n \in Nat,
           \A i \in 1 .. n : q[i] \in S <=> r[i] \in T
    PROVE  Count(q, S, n) = Count(r, T, n)
<1>1. {i \in 1 .. n : q[i] \in S} = {i \in 1 .. n : r[i] \in T}
  OBVIOUS
<1> QED
  BY <1>1 DEF Count

\* Nothing to count.
LEMMA CountNone ==
    ASSUME NEW q, NEW S, NEW n \in Nat, \A i \in 1 .. n : q[i] \notin S
    PROVE  Count(q, S, n) = 0
<1>1. {i \in 1 .. n : q[i] \in S} = {}
  OBVIOUS
<1> QED
  BY <1>1, FS_EmptySet DEF Count

LEMMA CountSome ==
    ASSUME NEW q, NEW S, NEW n \in Nat, NEW i \in 1 .. n, q[i] \in S
    PROVE  Count(q, S, n) > 0
<1>1. PICK A : A = {j \in 1 .. n : q[j] \in S}
  OBVIOUS
<1>2. IsFiniteSet(A) /\ A # {}
  <2>1. IsFiniteSet(1 .. n) /\ A \in SUBSET (1 .. n)
    BY <1>1, FS_Interval
  <2> QED
    BY <1>1, <2>1, FS_Subset
<1>3. Cardinality(A) \in Nat /\ Cardinality(A) # 0
  BY <1>2, FS_CardinalityType, FS_EmptySet
<1> QED
  BY <1>1, <1>3 DEF Count

\* The part of q behind its first a elements is r.
LEMMA CountShift ==
    ASSUME NEW q, NEW r, NEW S, NEW T, NEW a \in Nat, NEW n \in Nat,
           \A i \in 1 .. n : r[i] \in T <=> q[a + i] \in S
    PROVE  Count(q, S, a + n) = Count(q, S, a) + Count(r, T, n)
<1>1. PICK P : P = {k \in Nat : k <= n => Count(q, S, a + k) = Count(q, S, a) + Count(r, T, k)}
  OBVIOUS
<1>2. 0 \in P
  <2>1. Count(q, S, a) \in Nat /\ a + 0 = a /\ Count(r, T, 0) = 0
    BY CountType, CountZero
  <2> QED
    BY <1>1, <2>1
<1>3. ASSUME NEW k \in Nat, k \in P PROVE k + 1 \in P
  <2>1. SUFFICES ASSUME k + 1 <= n PROVE Count(q, S, a + (k + 1)) = Count(q, S, a) + Count(r, T, k + 1)
    BY <1>1
  <2>2. Count(q, S, a + k) = Count(q, S, a) + Count(r, T, k)
    BY <1>1, <1>3, <2>1
  <2>3. /\ Count(q, S, (a + k) + 1) = Count(q, S, a + k) + IF q[(a + k) + 1] \in S THEN 1 ELSE 0
        /\ Count(r, T, k + 1) = Count(r, T, k) + IF r[k + 1] \in T THEN 1 ELSE 0
    <3>1. a + k \in Nat
      OBVIOUS
    <3> QED
      BY <3>1, CountNext
  <2>4. (a + k) + 1 = a + (k + 1) /\ k + 1 \in 1 .. n
    BY <2>1
  <2>5. q[(a + k) + 1] \in S <=> r[k + 1] \in T
    BY <2>4
  <2>6. PICK x \in Nat, y \in Nat : x = Count(q, S, a) /\ y = Count(r, T, k)
    BY CountType
  <2> QED
    BY <2>2, <2>3, <2>4, <2>5, <2>6
<1>4. n \in P
  BY <1>2, <1>3, SetInduction
<1> QED
  BY <1>1, <1>4

\* All of a sequence: one element more ...
LEMMA TotalAppend ==
    ASSUME NEW T, NEW q \in Seq(T), NEW x \in T, NEW S
    PROVE  /\ Total(Append(q, x), S) = Total(q, S) + IF x \in S THEN 1 ELSE 0
           /\ \A i \in 1 .. Len(q) : Count(Append(q, x), S, i) = Count(q, S, i)
           /\ Count(Append(q, x), S, Len(q) + 1) = Total(q, S) + IF x \in S THEN 1 ELSE 0
<1>1. PICK n \in Nat : n = Len(q)
  OBVIOUS
<1>2. PICK r : r = Append(q, x)
  OBVIOUS
<1>3. Len(r) = n + 1 /\ r[n + 1] = x /\ \A i \in 1 .. n : r[i] = q[i]
  BY <1>1, <1>2
<1>4. ASSUME NEW i \in 1 .. n PROVE Count(r, S, i) = Count(q, S, i)
  <2>1. i \in Nat /\ \A j \in 1 .. i : r[j] \in S <=> q[j] \in S
    BY <1>3
  <2> QED
    BY <2>1, CountAgree
<1>5. Count(r, S, n) = Count(q, S, n)
  BY <1>3, CountAgree
<1>6. Count(r, S, n + 1) = Count(r, S, n) + IF r[n + 1] \in S THEN 1 ELSE 0
  BY CountNext
<1> QED
  BY <1>1, <1>2, <1>3, <1>4, <1>5, <1>6 DEF Total

\* ... one less at the front ...
LEMMA TotalTail ==
    ASSUME NEW T, NEW q \in Seq(T), q # <<>>, NEW S
    PROVE  /\ Total(q, S) = Total(Tail(q), S) + IF Head(q) \in S THEN 1 ELSE 0
           /\ \A i \in 1 .. Len(q) - 1 :
                 Count(q, S, i + 1) = Count(Tail(q), S, i) + IF Head(q) \in S THEN 1 ELSE 0
           /\ Count(q, S, 1) = IF Head(q) \in S THEN 1 ELSE 0
<1>1. PICK n \in Nat : n + 1 = Len(q)
  <2>1. Len(q) \in Nat /\ Len(q) # 0
    OBVIOUS
  <2> QED
    BY <2>1
<1>2. PICK r : r = Tail(q)
  OBVIOUS
<1>3. Len(r) = n /\ Head(q) = q[1] /\ \A i \in 1 .. n : r[i] = q[i + 1]
  BY <1>1, <1>2
<1>4. Count(q, S, 1) = IF q[1] \in S THEN 1 ELSE 0
  <2>1. Count(q, S, 0) = 0 /\ Count(q, S, 0 + 1) = Count(q, S, 0) + IF q[0 + 1] \in S THEN 1 ELSE 0
    BY CountZero, CountNext
  <2> QED
    BY <2>1
<1>5. ASSUME NEW i \in 0 .. n PROVE Count(q, S, i + 1) = Count(r, S, i) + IF q[1] \in S THEN 1 ELSE 0
  <2>1. i \in Nat /\ \A j \in 1 .. i : r[j] \in S <=> q[1 + j] \in S
    BY <1>3
  <2>2. Count(q, S, 1 + i) = Count(q, S, 1) + Count(r, S, i)
    BY <2>1, CountShift
  <2>3. Count(r, S, i) \in Nat
    BY <2>1, CountType
  <2> QED
    BY <1>4, <2>2, <2>3
<1>6. \A i \in 1 .. n : Count(q, S, i + 1) = Count(r, S, i) + IF q[1] \in S THEN 1 ELSE 0
  BY <1>5
<1>7. Count(q, S, n + 1) = Count(r, S, n) + IF q[1] \in S THEN 1 ELSE 0
  BY <1>5
<1>8. Len(q) - 1 = n
  BY <1>1
<1> QED
  BY <1>1, <1>2, <1>3, <1>4, <1>6, <1>7, <1>8 DEF Total

\* ... two parts ...
LEMMA TotalConcat ==
    ASSUME NEW T, NEW q \in Seq(T), NEW r \in Seq(T), NEW S
    PROVE  /\ Total(q \o r, S) = Total(q, S) + Total(r, S)
           /\ \A i \in 1 .. Len(q) : Count(q \o r, S, i) = Count(q, S, i)
           /\ \A i \in 1 .. Len(r) : Count(q \o r, S, Len(q) + i) = Total(q, S) + Count(r, S, i)
<1>1. PICK m \in Nat, n \in Nat : m = Len(q) /\ n = Len(r)
  OBVIOUS
<1>2. PICK w : w = q \o r
  OBVIOUS
<1>3. Len(w) = m + n /\ (\A i \in 1 .. m : w[i] = q[i]) /\ (\A i \in 1 .. n : w[m + i] = r[i])
  <2>1. /\ Len(w) = Len(q) + Len(r)
        /\ \A i \in 1 .. Len(q) + Len(r) : w[i] = IF i <= Len(q) THEN q[i] ELSE r[i - Len(q)]
    BY <1>2, ConcatProperties
  <2>2. \A i \in 1 .. n : m + i \in 1 .. m + n /\ ~(m + i <= m) /\ (m + i) - m = i
    OBVIOUS
  <2> QED
    BY <1>1, <2>1, <2>2
<1>4. ASSUME NEW i \in 0 .. m PROVE Count(w, S, i) = Count(q, S, i)
  <2>1. i \in Nat /\ \A j \in 1 .. i : w[j] \in S <=> q[j] \in S
    BY <1>3
  <2> QED
    BY <2>1, CountAgree
<1>5. ASSUME NEW i \in 0 .. n PROVE Count(w, S, m + i) = Count(q, S, m) + Count(r, S, i)
  <2>1. i \in Nat /\ \A j \in 1 .. i : r[j] \in S <=> w[m + j] \in S
    BY <1>3
  <2>2. Count(w, S, m + i) = Count(w, S, m) + Count(r, S, i)
    BY <2>1, CountShift
  <2> QED
    BY <1>4, <2>2
<1>6. /\ \A i \in 1 .. m : Count(w, S, i) = Count(q, S, i)
      /\ \A i \in 1 .. n : Count(w, S, m + i) = Count(q, S, m) + Count(r, S, i)
      /\ Count(w, S, m + n) = Count(q, S, m) + Count(r, S, n)
  BY <1>4, <1>5
<1> QED
  BY <1>1, <1>2, <1>3, <1>6 DEF Total

\* ... cut at n ...
LEMMA SplitSeq ==
    ASSUME NEW T, NEW q \in Seq(T), NEW n \in 0 .. Len(q)
    PROVE  /\ SubSeq(q, 1, n) \in Seq(T) /\ SubSeq(q, n + 1, Len(q)) \in Seq(T)
           /\ Len(SubSeq(q, 1, n)) = n /\ Len(SubSeq(q, n + 1, Len(q))) = Len(q) - n
           /\ \A i \in 1 .. n : SubSeq(q, 1, n)[i] = q[i]
           /\ \A i \in 1 .. Len(q) - n : SubSeq(q, n + 1, Len(q))[i] = q[n + i]
<1>1. PICK m \in Nat : m = Len(q)
  OBVIOUS
<1>2. \A i \in 1 .. m : q[i] \in T
  BY <1>1
<1>3. PICK a : a = SubSeq(q, 1, n)
  OBVIOUS
<1>4. PICK b : b = SubSeq(q, n + 1, m)
  OBVIOUS
<1>5. PICK k \in Nat : k = m - n
  <2>1. n \in Nat /\ n <= m
    BY <1>1
  <2>2. m - n \in Nat
    BY <2>1
  <2> QED
    BY <2>2
<1>6. n \in Nat /\ n + k = m
  BY <1>1, <1>5
<1>7. a = [i \in 1 .. n |-> q[i]] /\ a \in Seq(T) /\ Len(a) = n
  <2>1. a = [i \in 1 .. n |-> q[i]]
    BY <1>3, <1>6
  <2>2. a \in [1 .. n -> T]
    BY <1>2, <1>6, <2>1
  <2> QED
    BY <1>6, <2>1, <2>2
<1>8. b = [i \in 1 .. k |-> q[n + i]] /\ b \in Seq(T) /\ Len(b) = k
  <2>1. b = [i \in 1 .. k |-> q[n + i]]
    BY <1>4, <1>5, <1>6
  <2>2. b \in [1 .. k -> T]
    BY <1>2, <1>6, <2>1
  <2>3. b \in Seq(T) /\ Len(b) = k
    BY <2>2
  <2> QED
    BY <2>1, <2>3
<1> QED
  BY <1>1, <1>3, <1>4, <1>5, <1>7, <1>8

LEMMA TotalSplit ==
    ASSUME NEW T, NEW q \in Seq(T), NEW n \in 0 .. Len(q), NEW S
    PROVE  Total(q, S) = Total(SubSeq(q, 1, n), S) + Total(SubSeq(q, n + 1, Len(q)), S)
<1>1. PICK m \in Nat : m = Len(q)
  OBVIOUS
<1>2. PICK a : a = SubSeq(q, 1, n)
  OBVIOUS
<1>3. PICK b : b = SubSeq(q, n + 1, m)
  OBVIOUS
<1>4. PICK k \in Nat : k = m - n
  <2>1. n \in Nat /\ n <= m
    BY <1>1
  <2>2. m - n \in Nat
    BY <2>1
  <2> QED
    BY <2>2
<1>5. /\ Len(a) = n /\ Len(b) = k
      /\ (\A i \in 1 .. n : a[i] = q[i]) /\ (\A i \in 1 .. k : b[i] = q[n + i])
  BY <1>1, <1>2, <1>3, <1>4, SplitSeq
<1>6. n \in Nat /\ n + k = m
  BY <1>1, <1>4
<1>7. Count(a, S, n) = Count(q, S, n)
  BY <1>5, <1>6, CountAgree
<1>8. Count(q, S, n + k) = Count(q, S, n) + Count(b, S, k)
  <2>1. \A i \in 1 .. k : b[i] \in S <=> q[n + i] \in S
    BY <1>5
  <2> QED
    BY <1>6, <2>1, CountShift
<1> QED
  BY <1>1, <1>2, <1>3, <1>5, <1>6, <1>7, <1>8 DEF Total

\* ... or in another order.
LEMMA TotalPermuted ==
    ASSUME NEW T, NEW q \in Seq(T), NEW r \in Seq(T), NEW S, Len(r) = Len(q),
           NEW p \in Bijection(1 .. Len(q), 1 .. Len(q)), \A k \in 1 .. Len(q) : r[k] = q[p[k]]
    PROVE  Total(r, S) = Total(q, S)
<1>1. PICK n \in Nat : n = Len(q)
  OBVIOUS
<1>2. PICK A : A = {k \in 1 .. n : r[k] \in S}
  OBVIOUS
<1>3. PICK B : B = {k \in 1 .. n : q[k] \in S}
  OBVIOUS
<1>4. IsFiniteSet(A)
  <2>1. IsFiniteSet(1 .. n)
    BY FS_Interval
  <2>2. A \in SUBSET (1 .. n)
    BY <1>2
  <2> QED
    BY <2>1, <2>2, FS_Subset
<1>5. /\ p \in [1 .. n -> 1 .. n]
      /\ \A i, j \in 1 .. n : p[i] = p[j] => i = j
      /\ \A j \in 1 .. n : \E i \in 1 .. n : p[i] = j
  BY <1>1 DEF Bijection, Injection, IsInjective, Surjection
<1>6. PICK f : f = [k \in A |-> p[k]]
  OBVIOUS
<1>7. f \in [A -> B]
  BY <1>1, <1>2, <1>3, <1>5, <1>6
<1>8. \A i, j \in A : f[i] = f[j] => i = j
  BY <1>2, <1>5, <1>6
<1>9. ASSUME NEW j \in B PROVE \E i \in A : f[i] = j
  <2>1. j \in 1 .. n /\ q[j] \in S
    BY <1>3
  <2>2. PICK i \in 1 .. n : p[i] = j
    BY <1>5, <2>1
  <2>3. i \in A
    BY <1>1, <1>2, <2>1, <2>2
  <2> QED
    BY <1>6, <2>2, <2>3
<1>10. f \in Bijection(A, B)
  BY <1>7, <1>8, <1>9 DEF Bijection, Injection, IsInjective, Surjection
<1>11. ExistsBijection(A, B)
  BY <1>10 DEF ExistsBijection
<1>12. Cardinality(A) = Cardinality(B)
  BY <1>4, <1>11, FS_Bijection
<1> QED
  BY <1>1, <1>2, <1>3, <1>12 DEF Total, Count

-------------------------------------------------------------------------------
(* The sequencer's sort.                                                      *)

\* Element i goes before element j.
Less(q, i, j) == q[i].time < q[j].time \/ (q[i].time = q[j].time /\ i < j)
Before(q, i) == {j \in 1 .. Len(q) : Less(q, j, i)}

LEMMA LessOrder ==
    ASSUME NEW q \in Seq(Requests), NEW i \in 1 .. Len(q), NEW j \in 1 .. Len(q),
           NEW k \in 1 .. Len(q)
    PROVE  /\ ~Less(q, i, i)
           /\ i # j => Less(q, i, j) \/ Less(q, j, i)
           /\ Less(q, i, j) /\ Less(q, j, k) => Less(q, i, k)
<1>1. q[i].time \in Nat /\ q[j].time \in Nat /\ q[k].time \in Nat
  <2>1. q[i] \in Requests /\ q[j] \in Requests /\ q[k] \in Requests
    OBVIOUS
  <2> QED
    BY <2>1 DEF Requests
<1>2. PICK a \in Nat, b \in Nat, c \in Nat : a = q[i].time /\ b = q[j].time /\ c = q[k].time
  BY <1>1
<1>3. PICK n \in Nat : n = Len(q)
  OBVIOUS
<1> QED
  BY <1>2, <1>3 DEF Less

\* The rank of an element: how many go before it.
LEMMA RankType ==
    ASSUME NEW q \in Seq(Requests), NEW i \in 1 .. Len(q)
    PROVE  IsFiniteSet(Before(q, i)) /\ Cardinality(Before(q, i)) \in 0 .. Len(q) - 1
<1>1. PICK n \in Nat : n = Len(q)
  OBVIOUS
<1>2. IsFiniteSet(1 .. n) /\ Cardinality(1 .. n) = n
  BY FS_Interval
<1>3. PICK D : D = (1 .. n) \ {i}
  OBVIOUS
<1>4. IsFiniteSet(D) /\ Cardinality(D) = n - 1
  <2>1. i \in 1 .. n
    BY <1>1
  <2>2. /\ IsFiniteSet((1 .. n) \ {i})
        /\ Cardinality((1 .. n) \ {i}) = IF i \in 1 .. n THEN Cardinality(1 .. n) - 1 ELSE Cardinality(1 .. n)
    BY <1>2, FS_RemoveElement
  <2> QED
    BY <1>2, <1>3, <2>1, <2>2
<1>5. Before(q, i) \in SUBSET D
  BY <1>1, <1>3, LessOrder DEF Before
<1>6. IsFiniteSet(Before(q, i)) /\ Cardinality(Before(q, i)) <= n - 1
  BY <1>4, <1>5, FS_Subset
<1> QED
  BY <1>1, <1>6, FS_CardinalityType

LEMMA RankLess ==
    ASSUME NEW q \in Seq(Requests), NEW i \in 1 .. Len(q), NEW j \in 1 .. Len(q), Less(q, i, j)
    PROVE  Cardinality(Before(q, i)) < Cardinality(Before(q, j))
<1>1. PICK A : A = Before(q, i)
  OBVIOUS
<1>2. PICK B : B = Before(q, j)
  OBVIOUS
<1>3. IsFiniteSet(A) /\ IsFiniteSet(B) /\ Cardinality(A) \in Nat /\ Cardinality(B) \in Nat
  BY <1>1, <1>2, RankType, FS_CardinalityType
<1>4. i \notin A /\ i \in B
  BY <1>1, <1>2, LessOrder DEF Before
<1>5. A \subseteq B
  BY <1>1, <1>2, LessOrder DEF Before
<1>6. A \in SUBSET B /\ A # B
  BY <1>4, <1>5
<1>7. Cardinality(A) <= Cardinality(B) /\ Cardinality(B) # Cardinality(A)
  BY <1>3, <1>6, FS_Subset
<1> QED
  BY <1>1, <1>2, <1>3, <1>7

\* StableSort puts the elements in the order of their times, and those with the
\* same time in the order in which they were.
LEMMA StableSortLemma ==
    ASSUME NEW q \in Seq(Requests)
    PROVE  /\ StableSort(q) \in Seq(Requests) /\ Len(StableSort(q)) = Len(q)
           /\ \E p \in Bijection(1 .. Len(q), 1 .. Len(q)) :
                 /\ \A k \in 1 .. Len(q) : StableSort(q)[k] = q[p[k]]
                 /\ \A k, l \in 1 .. Len(q) : k < l => Less(q, p[k], p[l])
<1>1. PICK n \in Nat : n = Len(q)
  OBVIOUS
<1>2. PICK rank : rank = [i \in 1 .. n |-> Cardinality(Before(q, i)) + 1]
  OBVIOUS
<1>3. \A i \in 1 .. n : rank[i] \in 1 .. n /\ rank[i] = Cardinality(Before(q, i)) + 1
  BY <1>1, <1>2, RankType
<1>4. \A i, j \in 1 .. n : Less(q, i, j) => rank[i] < rank[j]
  <2>1. ASSUME NEW i \in 1 .. n, NEW j \in 1 .. n, Less(q, i, j) PROVE rank[i] < rank[j]
    <3>1. Cardinality(Before(q, i)) < Cardinality(Before(q, j))
      BY <1>1, <2>1, RankLess
    <3>2. Cardinality(Before(q, i)) \in Nat /\ Cardinality(Before(q, j)) \in Nat
      BY <1>1, RankType
    <3> QED
      BY <1>3, <3>1, <3>2
  <2> QED
    BY <2>1
<1>5. \A i, j \in 1 .. n : i # j => Less(q, i, j) \/ Less(q, j, i)
  BY <1>1, LessOrder
<1>6. \A i, j \in 1 .. n : rank[i] = rank[j] => i = j
  BY <1>3, <1>4, <1>5
<1>7. rank \in Injection(1 .. n, 1 .. n)
  <2>1. rank \in [1 .. n -> 1 .. n]
    BY <1>2, <1>3
  <2> QED
    BY <1>6, <2>1 DEF Injection, IsInjective
<1>8. rank \in Surjection(1 .. n, 1 .. n)
  BY <1>7, FS_Injection, FS_Interval
<1>9. \A k \in 1 .. n : \E i \in 1 .. n : rank[i] = k
  BY <1>8 DEF Surjection
<1>10. PICK p : p = [k \in 1 .. n |-> CHOOSE i \in 1 .. n : Cardinality(Before(q, i)) = k - 1]
  OBVIOUS
<1>11. \A k \in 1 .. n : p[k] \in 1 .. n /\ rank[p[k]] = k
  <2>1. ASSUME NEW k \in 1 .. n PROVE p[k] \in 1 .. n /\ Cardinality(Before(q, p[k])) = k - 1
    <3>1. PICK i \in 1 .. n : rank[i] = k
      BY <1>9
    <3>2. Cardinality(Before(q, i)) = k - 1
      <4>1. Cardinality(Before(q, i)) \in Nat
        BY <1>1, RankType
      <4> QED
        BY <1>3, <3>1, <4>1
    <3> QED
      BY <1>10, <3>2
  <2> QED
    BY <1>3, <2>1
<1>12. p \in Bijection(1 .. n, 1 .. n)
  <2>1. p \in [1 .. n -> 1 .. n]
    BY <1>10, <1>11
  <2>2. \A k, l \in 1 .. n : p[k] = p[l] => k = l
    BY <1>11
  <2>3. \A j \in 1 .. n : \E k \in 1 .. n : p[k] = j
    BY <1>3, <1>6, <1>11
  <2> QED
    BY <2>1, <2>2, <2>3 DEF Bijection, Injection, IsInjective, Surjection
<1>13. \A k, l \in 1 .. n : k < l => Less(q, p[k], p[l])
  <2>1. ASSUME NEW k \in 1 .. n, NEW l \in 1 .. n, k < l PROVE Less(q, p[k], p[l])
    <3>1. p[k] \in 1 .. n /\ p[l] \in 1 .. n /\ rank[p[k]] = k /\ rank[p[l]] = l
      BY <1>11
    <3>2. p[k] # p[l] /\ ~Less(q, p[l], p[k])
      BY <1>4, <2>1, <3>1
    <3> QED
      BY <1>5, <3>1, <3>2
  <2> QED
    BY <2>1
<1>14. StableSort(q) = [k \in 1 .. n |-> q[p[k]]]
  <2>1. DOMAIN q = 1 .. n
    BY <1>1
  <2>2. StableSort(q) = [k \in 1 .. n |-> q[CHOOSE i \in 1 .. n : Cardinality(Before(q, i)) = k - 1]]
    BY <1>1, <2>1 DEF StableSort, Before, Less
  <2> QED
    BY <1>10, <2>2
<1>15. StableSort(q) \in [1 .. n -> Requests]
  BY <1>1, <1>11, <1>14
<1>16. /\ StableSort(q) \in Seq(Requests) /\ Len(StableSort(q)) = n
       /\ \A k \in 1 .. n : StableSort(q)[k] = q[p[k]]
  BY <1>14, <1>15
<1> QED
  BY <1>1, <1>12, <1>13, <1>16

\* The same requests, and a client's orders stay in their order.
Timely(q, c) ==
    \A i, j \in 1 .. Len(q) :
        i < j /\ IsOrder(q[i], c) /\ IsOrder(q[j], c) => q[i].time <= q[j].time

LEMMA SortedOrders ==
    ASSUME NEW q \in Seq(Requests), NEW c, Ascending(q, c), Timely(q, c)
    PROVE  Ascending(StableSort(q), c) /\ Timely(StableSort(q), c)
<1>1. PICK n \in Nat : n = Len(q)
  OBVIOUS
<1>2. PICK w : w = StableSort(q)
  OBVIOUS
<1>3. PICK p \in Bijection(1 .. n, 1 .. n) :
         /\ \A k \in 1 .. n : w[k] = q[p[k]]
         /\ \A k, l \in 1 .. n : k < l => Less(q, p[k], p[l])
  BY <1>1, <1>2, StableSortLemma
<1>4. p \in [1 .. n -> 1 .. n] /\ Len(w) = n
  BY <1>1, <1>2, StableSortLemma DEF Bijection, Injection
<1>5. ASSUME NEW k \in 1 .. n, NEW l \in 1 .. n, k < l, IsOrder(w[k], c), IsOrder(w[l], c)
      PROVE  w[k].id < w[l].id /\ w[k].time <= w[l].time
  <2>1. PICK i \in 1 .. n, j \in 1 .. n : i = p[k] /\ j = p[l]
    BY <1>4
  <2>2. IsOrder(q[i], c) /\ IsOrder(q[j], c) /\ Less(q, i, j)
    BY <1>3, <1>5, <2>1
  <2>3. q[i].time \in Nat /\ q[j].time \in Nat
    <3>1. q[i] \in Requests /\ q[j] \in Requests
      BY <1>1
    <3> QED
      BY <3>1 DEF Requests
  <2>4. i < j
    <3>1. CASE j < i
      <4>1. q[j].time <= q[i].time
        BY <1>1, <2>2, <3>1 DEF Timely
      <4> QED
        BY <2>2, <2>3, <3>1, <4>1 DEF Less
    <3>2. i # j
      BY <1>1, <2>2, LessOrder
    <3> QED
      BY <3>1, <3>2
  <2>5. q[i].id < q[j].id /\ q[i].time <= q[j].time
    BY <1>1, <2>2, <2>4 DEF Ascending, Timely
  <2> QED
    BY <1>3, <2>1, <2>5
<1> QED
  BY <1>2, <1>4, <1>5 DEF Ascending, Timely

LEMMA SortedSame ==
    ASSUME NEW q \in Seq(Requests)
    PROVE  /\ \A S : Total(StableSort(q), S) = Total(q, S)
           /\ \A k \in 1 .. Len(q) : \E i \in 1 .. Len(q) : StableSort(q)[k] = q[i]
           /\ \A i \in 1 .. Len(q) : \E k \in 1 .. Len(q) : StableSort(q)[k] = q[i]
<1>1. PICK n \in Nat : n = Len(q)
  OBVIOUS
<1>2. PICK w : w = StableSort(q)
  OBVIOUS
<1>3. PICK p \in Bijection(1 .. n, 1 .. n) : \A k \in 1 .. n : w[k] = q[p[k]]
  BY <1>1, <1>2, StableSortLemma
<1>4. w \in Seq(Requests) /\ Len(w) = n
  BY <1>1, <1>2, StableSortLemma
<1>5. /\ p \in [1 .. n -> 1 .. n]
      /\ \A j \in 1 .. n : \E i \in 1 .. n : p[i] = j
  BY DEF Bijection, Injection, Surjection
<1>6. ASSUME NEW S PROVE Total(w, S) = Total(q, S)
  BY <1>1, <1>3, <1>4, TotalPermuted
<1>7. \A k \in 1 .. n : \E i \in 1 .. n : w[k] = q[i]
  BY <1>3, <1>5
<1>8. ASSUME NEW i \in 1 .. n PROVE \E k \in 1 .. n : w[k] = q[i]
  <2>1. PICK k \in 1 .. n : p[k] = i
    BY <1>5
  <2> QED
    BY <1>3, <2>1
<1> QED
  BY <1>1, <1>2, <1>6, <1>7, <1>8

-------------------------------------------------------------------------------
(* Types and bounds.                                                          *)

LEMMA SocketFacts ==
    /\ MaxEpoch \in Nat \ {0} /\ Peer \in Nat /\ Peer = MaxEpoch + 1
    /\ \A c \in Clients, e \in 1 .. Peer : <<c, e>> \in Sockets
    /\ \A s \in Sockets : s[1] \in Clients /\ s[2] \in 1 .. Peer /\ s = <<s[1], s[2]>>
BY OrderSessionAssumption DEF Sockets, Peer

LEMMA CurrentSocket ==
    ASSUME Types, NEW c \in Clients
    PROVE  gw[c] \in Gateways /\ gw[c].epoch \in 1 .. MaxEpoch /\ Current(c) \in Sockets
<1>1. gw[c] \in Gateways
  BY DEF Types
<1>2. gw[c].epoch \in 1 .. MaxEpoch
  BY <1>1 DEF Gateways
<1> QED
  BY <1>1, <1>2, SocketFacts DEF Current

LEMMA TotalEmpty == ASSUME NEW S PROVE Total(<<>>, S) = 0
BY CountZero DEF Total

LEMMA TotalNat == ASSUME NEW T, NEW q \in Seq(T), NEW S PROVE Total(q, S) \in Nat /\ Total(q, S) <= Len(q)
BY CountType DEF Total

\* The totals at the exchange, and the lengths of the buffers, are numbers.
LEMMA AtExchangeNat ==
    ASSUME Types, NEW c \in Clients
    PROVE  /\ Total(pending, RequestsOf(c)) \in Nat /\ Total(requestQ, RequestsOf(c)) \in Nat
           /\ Total(responseQ, SettlingReplies(c)) \in Nat /\ AtExchange(c) \in Nat
<1>1. pending \in Seq(Requests) /\ requestQ \in Seq(Requests) /\ responseQ \in Seq(Replies)
  BY DEF Types
<1>2. /\ Total(pending, RequestsOf(c)) \in Nat /\ Total(requestQ, RequestsOf(c)) \in Nat
      /\ Total(responseQ, SettlingReplies(c)) \in Nat
  BY <1>1, TotalNat
<1> QED
  BY <1>2 DEF AtExchange

LEMMA BufferLengths ==
    ASSUME Types, NEW s \in Sockets
    PROVE  /\ up[s] \in Seq(UpFrames) /\ inbound[s] \in Seq(UpFrames) /\ down[s] \in Seq(DownFrames)
           /\ Len(up[s]) \in Nat /\ Len(inbound[s]) \in Nat /\ Len(down[s]) \in Nat
<1>1. up[s] \in Seq(UpFrames) /\ inbound[s] \in Seq(UpFrames) /\ down[s] \in Seq(DownFrames)
  BY DEF Types
<1> QED
  BY <1>1

\* The capacities, all positive.
LEMMA Capacities ==
    /\ MaxRequests \in Nat \ {0} /\ ClientCapacity \in Nat \ {0} /\ WireCapacity \in Nat \ {0}
    /\ SequencerCapacity \in Nat \ {0} /\ RequestCapacity \in Nat \ {0}
    /\ ResponseCapacity \in Nat \ {0} /\ LaterRequests \in 0 .. MaxRequests
BY OrderSessionAssumption

\* Steps of the gateway that concern its queues and its state only.
LocalStep(c) == Submit(c) \/ ClientTake(c) \/ GatewayStop(c) \/ GatewayDone(c) \/ GatewayLost(c)
RestUnchanged == UNCHANGED <<wireVars, serverVars, pending, requestQ, responseQ, exPhase, halted,
                            engineVars>>

LEMMA LocalEffect ==
    ASSUME Types, Bounds, NEW c \in Clients, LocalStep(c)
    PROVE  /\ \E g \in Gateways :
                 /\ gw' = [gw EXCEPT ![c] = g]
                 /\ g.epoch = gw[c].epoch /\ g.next = gw[c].next /\ g.expected = gw[c].expected
                 /\ g.got = gw[c].got /\ g.pending = gw[c].pending
                 /\ g.submitted <= MaxRequests /\ g.unread <= ClientCapacity
                 /\ gw[c].state = "stopped" => g.state = "stopped"
                 /\ g.healthy => gw[c].healthy
                 /\ \/ /\ g.queue = Append(gw[c].queue, gw[c].submitted + 1)
                       /\ g.submitted = gw[c].submitted + 1
                       /\ g.state = gw[c].state /\ g.healthy = gw[c].healthy
                       /\ g.state # "stopped"
                    \/ /\ g.queue = gw[c].queue /\ g.submitted = gw[c].submitted
                       /\ g.state = "stopped" /\ g.healthy /\ gw[c].state # "stopped" =>
                             g.queue = <<>> /\ g.pending = 0
           /\ RestUnchanged
<1>1. PICK h \in Gateways : h = gw[c]
  BY DEF Types
<1>2. /\ h.queue \in Seq(Nat \ {0}) /\ h.submitted \in Nat /\ h.unread \in Nat
      /\ h.submitted <= MaxRequests /\ h.unread <= ClientCapacity /\ h.healthy \in BOOLEAN
  BY <1>1 DEF Bounds, Gateways
<1>3. CASE Submit(c)
  <2>1. PICK g : g = [h EXCEPT !.queue = Append(@, h.submitted + 1), !.submitted = @ + 1]
    OBVIOUS
  <2>2. g \in Gateways
    <3>1. PICK k \in Nat \ {0} : k = h.submitted + 1
      BY <1>2
    <3>2. PICK a \in Seq(Nat \ {0}) : a = Append(h.queue, k)
      <4>1. Append(h.queue, k) \in Seq(Nat \ {0})
        BY <1>2, AppendProperties
      <4> QED
        BY <4>1
    <3>3. g = [h EXCEPT !.queue = a, !.submitted = k]
      BY <1>1, <2>1, <3>1, <3>2 DEF Gateways
    <3> QED
      BY <1>1, <3>3 DEF Gateways
  <2>3. gw' = [gw EXCEPT ![c] = g]
    BY <1>1, <1>3, <2>1 DEF Submit, Types
  <2>4. h.submitted + 1 <= MaxRequests
    BY <1>1, <1>2, <1>3, Capacities DEF Submit
  <2> QED
    BY <1>1, <1>2, <1>3, <2>1, <2>2, <2>3, <2>4 DEF Submit, RestUnchanged, Gateways
<1>4. CASE ClientTake(c)
  <2>0. PICK k \in Nat : k = h.unread - 1 /\ k <= ClientCapacity
    <3>1. h.unread > 0
      BY <1>1, <1>4 DEF ClientTake
    <3>2. h.unread - 1 \in Nat /\ h.unread - 1 <= ClientCapacity
      BY <1>2, <3>1, Capacities
    <3> QED
      BY <3>2
  <2>1. PICK g : g = [h EXCEPT !.unread = k]
    OBVIOUS
  <2>2. g \in Gateways
    BY <1>1, <1>2, <2>0, <2>1 DEF Gateways
  <2>3. gw' = [gw EXCEPT ![c] = g]
    BY <1>1, <1>4, <2>0, <2>1 DEF ClientTake, Types
  <2>4. g.unread = k /\ g.state = h.state /\ g.queue = h.queue /\ g.submitted = h.submitted
    BY <1>1, <2>1 DEF Gateways
  <2> QED
    BY <1>1, <1>2, <1>4, <2>0, <2>1, <2>2, <2>3, <2>4 DEF ClientTake, RestUnchanged, Gateways
<1>5. CASE GatewayStop(c)
  <2>1. PICK g : g = [h EXCEPT !.state = "stopping"]
    OBVIOUS
  <2>2. g \in Gateways
    BY <1>1, <1>2, <2>1 DEF Gateways
  <2>3. gw' = [gw EXCEPT ![c] = g]
    BY <1>1, <1>5, <2>1 DEF GatewayStop, Types
  <2> QED
    BY <1>1, <1>2, <1>5, <2>1, <2>2, <2>3 DEF GatewayStop, RestUnchanged, Gateways
<1>6. CASE gw' = [gw EXCEPT ![c].state = "stopped", ![c].healthy = FALSE] /\ RestUnchanged
  <2>1. PICK g : g = [h EXCEPT !.state = "stopped", !.healthy = FALSE]
    OBVIOUS
  <2>2. g \in Gateways
    BY <1>1, <1>2, <2>1 DEF Gateways
  <2>3. gw' = [gw EXCEPT ![c] = g]
    BY <1>1, <1>6, <2>1 DEF Types
  <2> QED
    BY <1>1, <1>2, <1>6, <2>1, <2>2, <2>3 DEF RestUnchanged, Gateways
<1>7. CASE /\ gw[c].queue = <<>> /\ gw[c].pending = 0 /\ gw[c].healthy
           /\ gw' = [gw EXCEPT ![c].state = "stopped"] /\ RestUnchanged
  <2>1. PICK g : g = [h EXCEPT !.state = "stopped"]
    OBVIOUS
  <2>2. g \in Gateways
    BY <1>1, <1>2, <2>1 DEF Gateways
  <2>3. gw' = [gw EXCEPT ![c] = g]
    BY <1>1, <1>7, <2>1 DEF Types
  <2> QED
    BY <1>1, <1>2, <1>7, <2>1, <2>2, <2>3 DEF RestUnchanged, Gateways
<1>8. GatewayDone(c) \/ GatewayLost(c) =>
         \/ gw' = [gw EXCEPT ![c].state = "stopped", ![c].healthy = FALSE] /\ RestUnchanged
         \/ /\ gw[c].queue = <<>> /\ gw[c].pending = 0 /\ gw[c].healthy
            /\ gw' = [gw EXCEPT ![c].state = "stopped"] /\ RestUnchanged
  BY DEF GatewayDone, GatewayLost, RestUnchanged
<1> QED
  BY <1>3, <1>4, <1>5, <1>6, <1>7, <1>8 DEF LocalStep

LEMMA ClockAdvances ==
    ASSUME clock \in Nat, clock' \in clock .. MaxTime PROVE clock' \in Nat /\ clock <= clock'
  BY OrderSessionAssumption

\* A request goes out.
LEMMA SendEffect ==
    ASSUME Types, NEW c \in Clients, GatewaySend(c)
    PROVE  /\ \E g \in Gateways :
                 /\ gw' = [gw EXCEPT ![c] = g]
                 /\ g.epoch = gw[c].epoch /\ g.next = gw[c].next + 1 /\ g.expected = gw[c].expected
                 /\ g.got = gw[c].got /\ g.pending = gw[c].pending + 1 /\ g.queue = Tail(gw[c].queue)
                 /\ g.submitted = gw[c].submitted /\ g.unread = gw[c].unread
                 /\ g.state = gw[c].state /\ g.healthy = gw[c].healthy
           /\ \E f \in UpFrames :
                 /\ up' = [up EXCEPT ![Current(c)] = Append(@, f)]
                 /\ f.type = "NEW" /\ f.epoch = gw[c].epoch /\ f.seq = gw[c].next
                 /\ f.id = Head(gw[c].queue) /\ f.time = clock'
           /\ gw[c].queue # <<>> /\ gw[c].state # "stopped" /\ Len(up[Current(c)]) < WireCapacity
           /\ clock' \in Nat /\ clock <= clock'
<1>1. PICK h \in Gateways : h = gw[c]
  BY DEF Types
<1>2. /\ h.queue \in Seq(Nat \ {0}) /\ h.queue # <<>> /\ h.next \in Nat \ {0} /\ h.pending \in Nat
      /\ clock \in Nat /\ h.epoch \in 1 .. MaxEpoch
  BY <1>1 DEF Gateways, Types, GatewaySend
<1>3. PICK q \in Seq(Nat \ {0}), x \in Nat \ {0} : q = Tail(h.queue) /\ x = Head(h.queue)
  BY <1>2, HeadTailProperties
<1>4. PICK n \in Nat \ {0}, p \in Nat, k \in Nat :
         n = h.next + 1 /\ p = h.pending + 1 /\ k = clock' /\ clock <= k
  <2>1. h.next + 1 \in Nat \ {0} /\ h.pending + 1 \in Nat
    BY <1>2
  <2>2. clock' \in Nat /\ clock <= clock'
    BY <1>2, ClockAdvances DEF GatewaySend
  <2> QED
    BY <2>1, <2>2
<1>5. PICK g : g = [h EXCEPT !.queue = q, !.next = n, !.pending = p]
  OBVIOUS
<1>6. /\ g \in Gateways /\ g.epoch = h.epoch /\ g.next = n /\ g.expected = h.expected
      /\ g.got = h.got /\ g.pending = p /\ g.queue = q /\ g.submitted = h.submitted
      /\ g.unread = h.unread /\ g.state = h.state /\ g.healthy = h.healthy
  BY <1>1, <1>5 DEF Gateways
<1>7. gw' = [gw EXCEPT ![c] = g]
  BY <1>1, <1>3, <1>4, <1>5 DEF GatewaySend, Types
<1>8. PICK f : f = [type |-> "NEW", epoch |-> h.epoch, seq |-> h.next, id |-> x, time |-> k]
  OBVIOUS
<1>9. f \in UpFrames
  BY <1>2, <1>3, <1>4, <1>8 DEF UpFrames
<1>10. /\ up' = [up EXCEPT ![Current(c)] = Append(@, f)] /\ clock' \in Nat /\ clock <= clock'
       /\ gw[c].queue # <<>> /\ gw[c].state # "stopped" /\ Len(up[Current(c)]) < WireCapacity
  BY <1>1, <1>3, <1>4, <1>8 DEF GatewaySend
<1> QED
  BY <1>1, <1>3, <1>4, <1>6, <1>7, <1>8, <1>9, <1>10

\* A response comes in; it is the expected one, and there is a request to settle.
LEMMA RecvEffect ==
    ASSUME Types, Bounds, NEW c \in Clients, NumberInv(c), GatewayInv(c), SettleInv(c), GatewayRecv(c)
    PROVE  LET s == Current(c)
               f == Head(down[s])
           IN  /\ down[s] # <<>> /\ gw[c].state # "stopped"
               /\ f \in DownFrames /\ f.resp \in Responses
               /\ down' = [down EXCEPT ![s] = Tail(@)]
               /\ \E g \in Gateways :
                     /\ gw' = [gw EXCEPT ![c] = g]
                     /\ g.epoch = gw[c].epoch /\ g.next = gw[c].next
                     /\ g.expected = gw[c].expected + 1 /\ g.got = Append(gw[c].got, f.resp)
                     /\ g.pending = gw[c].pending - (IF f.resp \in Settling THEN 1 ELSE 0)
                     /\ g.queue = gw[c].queue /\ g.submitted = gw[c].submitted
                     /\ g.unread <= ClientCapacity /\ g.state = gw[c].state
                     /\ g.healthy = (gw[c].healthy /\ f.resp.type \notin Fatal)
<1>1. PICK h \in Gateways : h = gw[c]
  BY DEF Types
<1>2. PICK s \in Sockets : s = Current(c)
  BY CurrentSocket
<1>3. PICK q \in Seq(DownFrames) : q = down[s]
  BY DEF Types
<1>4. q # <<>> /\ h.state # "stopped"
  BY <1>1, <1>2, <1>3 DEF GatewayRecv
<1>5. PICK f \in DownFrames : f = Head(q) /\ f = q[1]
  BY <1>3, <1>4, HeadTailProperties
<1>6. Len(q) \in Nat /\ Len(q) >= 1 /\ 1 \in 1 .. Len(q)
  <2>1. Len(q) \in Nat /\ Len(q) # 0
    BY <1>4
  <2> QED
    BY <2>1
<1>7. f.seq = h.expected /\ f.epoch = h.epoch
  <2>1. h.expected \in Nat
    BY <1>1 DEF Gateways
  <2>2. f.seq = h.expected + 1 - 1 /\ f.epoch = h.epoch
    BY <1>1, <1>2, <1>3, <1>5, <1>6 DEF NumberInv
  <2> QED
    BY <2>1, <2>2
<1>8. PICK r \in Responses : r = f.resp
  BY <1>5 DEF DownFrames
<1>9. /\ h.expected \in Nat \ {0} /\ h.unread \in Nat /\ h.pending \in Nat /\ h.got \in Seq(Responses)
      /\ h.next \in Nat \ {0}
  BY <1>1 DEF Gateways
<1>10. h.unread < ClientCapacity
  BY <1>1, <1>2, <1>3, <1>5, <1>7 DEF GatewayRecv
<1>11. gw' = [gw EXCEPT ![c] = Deliver(h, r)] /\ down' = [down EXCEPT ![s] = Tail(@)]
  <2>1. ~(f.epoch # h.epoch \/ f.seq > h.expected) /\ ~(f.seq < h.expected)
    BY <1>7, <1>9
  <2>2. Receive(h, f) = Deliver(h, r)
    BY <1>8, <2>1 DEF Receive
  <2> QED
    BY <1>1, <1>2, <1>3, <1>5, <2>2 DEF GatewayRecv
<1>12. r \in Settling => h.pending > 0
  <2>1. SUFFICES ASSUME r \in Settling PROVE h.pending > 0
    OBVIOUS
  <2>2. f \in SettlingFrames
    BY <1>8, <2>1 DEF Settling, SettlingFrames
  <2>3. Total(q, SettlingFrames) > 0 /\ Total(q, SettlingFrames) \in Nat
    BY <1>5, <1>6, <2>2, CountSome, CountType DEF Total
  <2>4. PICK a \in Nat, b \in Nat : a = Total(h.got, Settling) /\ b = Total(q, SettlingFrames)
    BY <1>9, <2>3, CountType DEF Total
  <2>5. PICK x \in Nat, y \in Nat : x = Len(up[s]) /\ y = Len(inbound[s])
    BY <1>1, BufferLengths
  <2>6. PICK z \in Nat : z = AtExchange(c)
    BY AtExchangeNat
  <2>7. a + b + x + y + z <= h.next - 1
    BY <1>1, <1>2, <1>3, <2>4, <2>5, <2>6 DEF SettleInv
  <2>8. h.pending = h.next - 1 - a
    BY <1>1, <2>4 DEF GatewayInv
  <2>9. PICK m \in Nat, l \in Nat : m = h.next /\ l = h.pending
    BY <1>9
  <2>10. b > 0 /\ a + b + x + y + z <= m - 1 /\ l = m - 1 - a
    BY <2>3, <2>4, <2>7, <2>8, <2>9
  <2>11. l > 0
    BY <2>10
  <2> QED
    BY <2>9, <2>11
<1>13. PICK p \in Nat : /\ p = h.pending - (IF r \in Settling THEN 1 ELSE 0)
                        /\ p = IF r.type # "FILLED" /\ h.pending > 0 THEN h.pending - 1 ELSE h.pending
  <2>1. r \in Settling <=> r.type # "FILLED"
    BY DEF Settling
  <2>2. CASE r \in Settling
    <3>1. h.pending > 0 /\ h.pending - 1 \in Nat
      BY <1>9, <1>12, <2>2
    <3> QED
      BY <2>1, <2>2, <3>1
  <2>3. CASE r \notin Settling
    <3>1. h.pending - 0 = h.pending
      BY <1>9
    <3> QED
      BY <1>9, <2>1, <2>3, <3>1
  <2> QED
    BY <2>2, <2>3
<1>14. PICK e \in Nat \ {0}, u \in Nat : e = h.expected + 1 /\ u = h.unread + 1 /\ u <= ClientCapacity
  <2>1. h.expected + 1 \in Nat \ {0} /\ h.unread + 1 \in Nat /\ h.unread + 1 <= ClientCapacity
    BY <1>9, <1>10, Capacities
  <2> QED
    BY <2>1
<1>15. PICK w \in Seq(Responses) : w = Append(h.got, r)
  <2>1. Append(h.got, r) \in Seq(Responses)
    BY <1>8, <1>9, AppendProperties
  <2> QED
    BY <2>1
<1>16. PICK v \in BOOLEAN : v = (h.healthy /\ r.type \notin Fatal)
  OBVIOUS
<1>17. PICK g : g = [h EXCEPT !.expected = e, !.unread = u, !.got = w, !.pending = p, !.healthy = v]
  OBVIOUS
<1>18. /\ g \in Gateways /\ g.epoch = h.epoch /\ g.next = h.next /\ g.expected = e /\ g.got = w
       /\ g.pending = p /\ g.queue = h.queue /\ g.submitted = h.submitted /\ g.unread = u
       /\ g.state = h.state /\ g.healthy = v
  BY <1>1, <1>17 DEF Gateways
<1>19. Deliver(h, r) = g
  BY <1>1, <1>13, <1>14, <1>15, <1>16, <1>17 DEF Deliver, Gateways
<1> QED
  BY <1>1, <1>2, <1>3, <1>4, <1>5, <1>8, <1>11, <1>13, <1>14, <1>15, <1>16, <1>18, <1>19

LEMMA CrashEffect ==
    ASSUME Types, NEW c \in Clients, Crash(c)
    PROVE  /\ gw[c].epoch + 1 \in 1 .. MaxEpoch /\ Session(gw[c].epoch + 1) \in Gateways
           /\ gw' = [gw EXCEPT ![c] = Session(gw[c].epoch + 1)]
           /\ c \in Crashing /\ RestUnchanged
<1>1. PICK e \in 1 .. MaxEpoch : e = gw[c].epoch + 1
  <2>1. gw[c].epoch \in 1 .. MaxEpoch /\ gw[c].epoch < MaxEpoch
    BY CurrentSocket DEF Crash
  <2>2. gw[c].epoch + 1 \in 1 .. MaxEpoch
    BY <2>1, SocketFacts
  <2> QED
    BY <2>2
<1>2. <<>> \in Seq(Nat \ {0}) /\ <<>> \in Seq(Responses)
  OBVIOUS
<1>3. Session(e) \in Gateways
  BY <1>2 DEF Session, Gateways
<1> QED
  BY <1>1, <1>3 DEF Crash, RestUnchanged

\* The server reads n frames.
LEMMA ReadEffect ==
    ASSUME Types, Bounds, NEW s \in Sockets, ServerRead(s)
    PROVE  \E n \in Nat \ {0} :
              /\ n <= Len(up[s]) /\ Len(inbound[s]) + n <= WireCapacity
              /\ inbound' = [inbound EXCEPT ![s] = @ \o SubSeq(up[s], 1, n)]
              /\ rx' = [rx EXCEPT ![s] = up[s][n].time]
              /\ up' = [up EXCEPT ![s] = SubSeq(@, n + 1, Len(@))]
              /\ open[s] /\ Running
<1>1. PICK a \in Nat, b \in Nat : a = Len(up[s]) /\ b = Len(inbound[s]) /\ b <= WireCapacity
  BY DEF Types, Bounds
<1>2. PICK d \in Nat : d = WireCapacity - b
  <2>1. WireCapacity - b \in Nat
    BY <1>1, Capacities
  <2> QED
    BY <2>1
<1>3. PICK n : n = Min({a, d})
  OBVIOUS
<1>4. n \in Nat /\ n <= a /\ n <= d
  <2>1. a \in Int /\ d \in Int
    OBVIOUS
  <2>2. n \in {a, d} /\ n <= a /\ n <= d
    BY <1>3, <2>1, MinPair
  <2> QED
    BY <2>2
<1>5. n > 0 /\ open[s] /\ Running
  BY <1>1, <1>2, <1>3 DEF ServerRead
<1>6. b + n <= WireCapacity
  BY <1>2, <1>4, Capacities
<1>7. n = Min({Len(up[s]), WireCapacity - Len(inbound[s])})
  BY <1>1, <1>2, <1>3
<1>8. /\ inbound' = [inbound EXCEPT ![s] = @ \o SubSeq(up[s], 1, n)]
      /\ rx' = [rx EXCEPT ![s] = up[s][n].time]
      /\ up' = [up EXCEPT ![s] = SubSeq(@, n + 1, Len(@))]
  BY <1>7 DEF ServerRead
<1>9. n \in Nat \ {0}
  BY <1>4, <1>5
<1> QED
  BY <1>1, <1>4, <1>5, <1>6, <1>8, <1>9

\* The session a frame is admitted to: a new one, that of its connection, or a
\* dead one that it takes over.
Fresh(s, f) ==
    /\ owner[s[1]] = 0 /\ ~TakesOver(s, f) /\ f.seq = expected[s[1]] /\ ~unknown[s[1]]
Same(s, f) ==
    /\ owner[s[1]] = s[2] /\ ~TakesOver(s, f) /\ f.seq = expected[s[1]]
    /\ f.epoch = epoch[s[1]] /\ (unknown[s[1]] => f.type \in Queries)
Taken(s, f) ==
    /\ TakesOver(s, f) /\ owner[s[1]] \notin {0, Peer} /\ s[2] = Peer
    /\ ~open[<<s[1], owner[s[1]]>>] /\ f.epoch = epoch[s[1]] /\ f.type \in Queries

LEMMA Admission ==
    ASSUME Types, NEW s \in Sockets, SocketInv(s[1]), inbound[s] # <<>>, NEW f, f = Head(inbound[s]),
           Reason(s, f) \in {"NONE", "INVALID"} \/ TakesOver(s, f)
    PROVE  /\ f.epoch # 0 /\ f.epoch \in 1 .. MaxEpoch
           /\ Fresh(s, f) \/ Same(s, f) \/ Taken(s, f)
           /\ Reason(s, f) = "INVALID" => s[2] = Peer
           /\ Reason(s, f) = "NONE" => f.type \in {"NEW", "QUERY"}
<1>1. PICK c \in Clients, e \in 1 .. Peer : c = s[1] /\ e = s[2] /\ s = <<c, e>>
  BY SocketFacts
<1>2. f \in UpFrames /\ f = inbound[s][1] /\ 1 \in 1 .. Len(inbound[s])
  <2>1. inbound[s] \in Seq(UpFrames)
    BY DEF Types
  <2>2. Len(inbound[s]) \in Nat /\ Len(inbound[s]) # 0
    BY <2>1
  <2> QED
    BY <2>1, <2>2, HeadTailProperties
<1>3. e # Peer => f.type = "NEW" /\ f.epoch = e
  BY <1>1, <1>2 DEF SocketInv, FrameShape
<1>4. f.type \in {"NEW", "QUERY", "BAD", "BADQUERY", "GARBLED"} /\ f.epoch \in 0 .. MaxEpoch
  BY <1>2 DEF UpFrames
<1>5. owner[c] \in 0 .. Peer /\ epoch[c] \in 0 .. MaxEpoch /\ (owner[c] # 0 => epoch[c] # 0)
      /\ (unknown[c] => owner[c] = Peer)
  BY <1>1 DEF Types, SocketInv
<1>6. MaxEpoch \in Nat \ {0} /\ Peer \in Nat \ {0} /\ 0 # Peer
  BY SocketFacts
<1>7. CASE TakesOver(s, f)
  <2>1. owner[c] \notin {0, e} /\ ~open[<<c, owner[c]>>] /\ f.type \in Queries /\ f.epoch = epoch[c]
    BY <1>1, <1>7 DEF TakesOver
  <2>2. e = Peer
    BY <1>3, <2>1 DEF Queries
  <2>3. Reason(s, f) = "NONE" => f.type \in {"NEW", "QUERY"}
    BY <1>7, <2>1 DEF Reason, Queries, Illformed
  <2>4. Taken(s, f)
    BY <1>1, <1>7, <2>1, <2>2 DEF Taken
  <2>5. f.epoch # 0 /\ f.epoch \in 1 .. MaxEpoch
    BY <1>5, <1>6, <2>1
  <2> QED
    BY <1>1, <2>2, <2>3, <2>4, <2>5
<1>8. CASE ~TakesOver(s, f)
  <2>1. f.type # "GARBLED" /\ owner[c] \in {0, e}
    BY <1>1, <1>8 DEF Reason
  <2>2. ~(f.epoch = 0 \/ (owner[c] # 0 /\ f.epoch # epoch[c]))
    BY <1>1, <1>8, <2>1 DEF Reason
  <2>3. f.seq = expected[c]
    BY <1>1, <1>8, <2>1, <2>2 DEF Reason
  <2>4. unknown[c] => f.type \in Queries
    BY <1>1, <1>8, <2>1, <2>2, <2>3 DEF Reason
  <2>5. /\ Reason(s, f) = "INVALID" => f.type \in Illformed
        /\ Reason(s, f) = "NONE" => f.type \in {"NEW", "QUERY"}
    BY <1>1, <1>4, <1>8, <2>1, <2>2, <2>3, <2>4 DEF Reason, Illformed
  <2>6. Fresh(s, f) \/ Same(s, f)
    BY <1>1, <1>5, <1>6, <1>8, <2>1, <2>2, <2>3, <2>4 DEF Fresh, Same
  <2>7. f.epoch # 0 /\ f.epoch \in 1 .. MaxEpoch
    BY <1>4, <1>6, <2>2
  <2>8. Reason(s, f) = "INVALID" => s[2] = Peer
    BY <1>1, <1>3, <2>5 DEF Illformed
  <2> QED
    BY <1>8, <2>5, <2>6, <2>7, <2>8
<1> QED
  BY <1>7, <1>8

\* How the session changes.
BindResult(s, f) ==
    LET c == s[1] IN
    \/ /\ Fresh(s, f)
       /\ owner' = [owner EXCEPT ![c] = s[2]] /\ epoch' = [epoch EXCEPT ![c] = f.epoch]
       /\ unknown' = unknown /\ Renumber(s, f) = anonSeq[s]
    \/ /\ Same(s, f)
       /\ owner' = owner /\ epoch' = epoch /\ unknown' = unknown /\ Renumber(s, f) = outSeq[c]
    \/ /\ Taken(s, f)
       /\ owner' = [owner EXCEPT ![c] = Peer] /\ epoch' = epoch
       /\ unknown' = [unknown EXCEPT ![c] = TRUE] /\ Renumber(s, f) = 1

LEMMA BindEffect ==
    ASSUME Types, NEW s \in Sockets, NEW f, Fresh(s, f) \/ Same(s, f) \/ Taken(s, f), Bind(s, f)
    PROVE  BindResult(s, f)
<1>1. PICK c \in Clients, e \in 1 .. Peer : c = s[1] /\ e = s[2] /\ s = <<c, e>>
  BY SocketFacts
<1>2. /\ owner \in [Clients -> 0 .. Peer] /\ epoch \in [Clients -> 0 .. MaxEpoch]
      /\ unknown \in [Clients -> BOOLEAN]
  BY DEF Types
<1>3. e # 0
  BY <1>1, SocketFacts
<1>4. /\ owner' = [owner EXCEPT ![c] = e] /\ epoch' = [epoch EXCEPT ![c] = f.epoch]
      /\ unknown' = [unknown EXCEPT ![c] = @ \/ TakesOver(s, f)]
  BY <1>1 DEF Bind
<1>5. CASE Fresh(s, f)
  <2>1. unknown' = unknown
    BY <1>1, <1>2, <1>4, <1>5 DEF Fresh
  <2>2. Renumber(s, f) = anonSeq[s]
    BY <1>5 DEF Fresh, Renumber
  <2> QED
    BY <1>1, <1>4, <1>5, <2>1, <2>2 DEF BindResult
<1>6. CASE Same(s, f)
  <2>1. owner' = owner
    BY <1>1, <1>2, <1>4, <1>6 DEF Same
  <2>2. epoch' = epoch
    BY <1>1, <1>2, <1>4, <1>6 DEF Same
  <2>3. unknown' = unknown
    <3>1. (unknown[c] \/ TakesOver(s, f)) = unknown[c]
      BY <1>2, <1>6 DEF Same
    <3> QED
      BY <1>2, <1>4, <3>1
  <2>4. Renumber(s, f) = outSeq[c]
    BY <1>1, <1>3, <1>6 DEF Same, Renumber
  <2> QED
    BY <1>1, <1>6, <2>1, <2>2, <2>3, <2>4 DEF BindResult
<1>7. CASE Taken(s, f)
  <2>1. epoch' = epoch
    BY <1>1, <1>2, <1>4, <1>7 DEF Taken
  <2>2. unknown' = [unknown EXCEPT ![c] = TRUE]
    BY <1>4, <1>7 DEF Taken
  <2>3. Renumber(s, f) = 1
    BY <1>1, <1>7 DEF Taken, Renumber
  <2>4. owner' = [owner EXCEPT ![c] = Peer]
    BY <1>1, <1>4, <1>7 DEF Taken
  <2> QED
    BY <1>1, <1>7, <2>1, <2>2, <2>3, <2>4 DEF BindResult
<1> QED
  BY <1>5, <1>6, <1>7

\* The first frame in the receive buffer.
LEMMA FirstFrame ==
    ASSUME Types, NEW s \in Sockets, inbound[s] # <<>>
    PROVE  /\ Head(inbound[s]) \in UpFrames /\ Head(inbound[s]) = inbound[s][1]
           /\ Len(inbound[s]) \in Nat \ {0} /\ 1 \in 1 .. Len(inbound[s])
<1>1. inbound[s] \in Seq(UpFrames)
  BY DEF Types
<1>2. Len(inbound[s]) \in Nat /\ Len(inbound[s]) # 0
  BY <1>1
<1> QED
  BY <1>1, <1>2, HeadTailProperties

AcceptResult(s, f, r) ==
    LET c == s[1] IN
    /\ f = Head(inbound[s]) /\ inbound[s] # <<>> /\ inbound' = [inbound EXCEPT ![s] = Tail(@)]
    /\ BindResult(s, f) /\ f.epoch \in 1 .. MaxEpoch /\ f.type \in {"NEW", "QUERY"}
    /\ r.client = c /\ r.type = f.type /\ r.epoch = f.epoch /\ r.id = f.id /\ r.time = rx[s]
    /\ pending' = Append(pending, r) /\ Len(pending) < SequencerCapacity
    /\ outSeq' = [outSeq EXCEPT ![c] = Renumber(s, f)]
    /\ expected' = [expected EXCEPT ![c] = f.seq + 1]
    /\ accepted' = [accepted EXCEPT ![c] = @ + 1]
    /\ Running /\ open[s] /\ exPhase = "accepting"

LEMMA AcceptEffect ==
    ASSUME Types, NEW s \in Sockets, SocketInv(s[1]), ServerAccept(s)
    PROVE  \E f \in UpFrames, r \in Requests : AcceptResult(s, f, r)
<1>1. PICK c \in Clients, e \in 1 .. Peer : c = s[1] /\ e = s[2] /\ s = <<c, e>>
  BY SocketFacts
<1>2. inbound[s] # <<>> /\ Running /\ open[s] /\ exPhase = "accepting"
  BY DEF ServerAccept, Parsing
<1>3. PICK f \in UpFrames : f = Head(inbound[s])
  BY <1>2, FirstFrame
<1>4. Reason(s, f) = "NONE"
  BY <1>3 DEF ServerAccept
<1>5. /\ f.epoch \in 1 .. MaxEpoch /\ f.type \in {"NEW", "QUERY"}
      /\ Fresh(s, f) \/ Same(s, f) \/ Taken(s, f)
  BY <1>2, <1>3, <1>4, Admission
<1>6. BindResult(s, f)
  BY <1>3, <1>5, BindEffect DEF ServerAccept
<1>7. PICK r : r = [client |-> c, type |-> f.type, epoch |-> f.epoch, id |-> f.id, time |-> rx[s]]
  OBVIOUS
<1>8. r \in Requests
  <2>1. f.epoch \in Nat /\ f.id \in Nat \ {0} /\ rx[s] \in Nat
    BY <1>5 DEF UpFrames, Types
  <2> QED
    BY <1>5, <1>7, <2>1 DEF Requests
<1>9. pending' = Append(pending, r)
  BY <1>1, <1>3, <1>7 DEF ServerAccept
<1>10. /\ Len(pending) < SequencerCapacity
       /\ outSeq' = [outSeq EXCEPT ![c] = Renumber(s, f)]
       /\ expected' = [expected EXCEPT ![c] = f.seq + 1]
       /\ accepted' = [accepted EXCEPT ![c] = @ + 1]
       /\ inbound' = [inbound EXCEPT ![s] = Tail(@)]
  BY <1>1, <1>3 DEF ServerAccept, CanAccept
<1>11. r.client = c /\ r.type = f.type /\ r.epoch = f.epoch /\ r.id = f.id /\ r.time = rx[s]
  BY <1>7
<1>12. AcceptResult(s, f, r)
  BY <1>1, <1>2, <1>3, <1>5, <1>6, <1>9, <1>10, <1>11 DEF AcceptResult
<1> QED
  BY <1>8, <1>12

RejectResult(s, f, d) ==
    LET c == s[1] IN
    /\ f = Head(inbound[s]) /\ inbound[s] # <<>> /\ inbound' = [inbound EXCEPT ![s] = Tail(@)]
    /\ down' = [down EXCEPT ![s] = Append(@, d)] /\ Len(down[s]) < WireCapacity
    /\ d.epoch = f.epoch /\ d.resp.type \notin {"ANSWER", "FILLED"} /\ d.resp.rid = 0
    /\ d.resp.type = Reason(s, f) /\ Running /\ open[s]
    /\ \/ /\ BindResult(s, f) /\ f.epoch \in 1 .. MaxEpoch /\ s[2] = Peer
          /\ d.seq = Renumber(s, f) /\ outSeq' = [outSeq EXCEPT ![c] = d.seq + 1]
          /\ anonSeq' = anonSeq /\ expected' = [expected EXCEPT ![c] = f.seq + 1]
       \/ /\ owner[c] = s[2] /\ d.seq = outSeq[c] /\ outSeq' = [outSeq EXCEPT ![c] = d.seq + 1]
          /\ anonSeq' = anonSeq /\ UNCHANGED <<owner, epoch, unknown, expected>>
       \/ /\ owner[c] # s[2] /\ d.seq = anonSeq[s] /\ outSeq' = outSeq
          /\ anonSeq' = [anonSeq EXCEPT ![s] = d.seq + 1]
          /\ UNCHANGED <<owner, epoch, unknown, expected>>

LEMMA RejectEffect ==
    ASSUME Types, NEW s \in Sockets, SocketInv(s[1]), ServerReject(s)
    PROVE  \E f \in UpFrames, d \in DownFrames : RejectResult(s, f, d)
<1>1. PICK c \in Clients, e \in 1 .. Peer : c = s[1] /\ e = s[2] /\ s = <<c, e>>
  BY SocketFacts
<1>2. inbound[s] # <<>> /\ Running /\ open[s]
  BY DEF ServerReject, Parsing
<1>3. PICK f \in UpFrames : f = Head(inbound[s])
  BY <1>2, FirstFrame
<1>4. PICK t : t = Reason(s, f)
  OBVIOUS
<1>5. t \in {"VERSION", "IDENTITY", "SESSION", "SEQUENCE", "INVALID"}
  BY <1>3, <1>4 DEF ServerReject, Reason
<1>6. PICK r : r = [type |-> t, epoch |-> f.epoch, id |-> f.id, rid |-> 0]
  OBVIOUS
<1>7. r \in Responses
  BY <1>5, <1>6 DEF Responses, ResponseTypes, UpFrames
<1>8. outSeq \in [Clients -> Nat \ {0}] /\ anonSeq \in [Sockets -> Nat \ {0}]
  BY DEF Types
<1>9. e # 0
  BY <1>1, SocketFacts
<1>10. PICK mine \in BOOLEAN : mine = (owner[c] = e \/ t = "INVALID")
  OBVIOUS
<1>11. PICK q : q = IF mine THEN Renumber(s, f) ELSE anonSeq[s]
  OBVIOUS
<1>12. q \in Nat \ {0}
  <2>1. Renumber(s, f) \in Nat \ {0}
    BY <1>1, <1>8 DEF Renumber
  <2> QED
    BY <1>8, <1>11, <2>1
<1>13. PICK d : d = [seq |-> q, epoch |-> f.epoch, resp |-> r]
  OBVIOUS
<1>14. d \in DownFrames /\ d.seq = q /\ d.epoch = f.epoch /\ d.resp = r
  BY <1>7, <1>12, <1>13 DEF DownFrames, UpFrames
<1>15. /\ down' = [down EXCEPT ![s] = Append(@, d)] /\ Len(down[s]) < WireCapacity
       /\ inbound' = [inbound EXCEPT ![s] = Tail(@)]
       /\ outSeq' = [outSeq EXCEPT ![c] = IF mine THEN q + 1 ELSE @]
       /\ anonSeq' = [anonSeq EXCEPT ![s] = IF mine THEN @ ELSE @ + 1]
       /\ IF t = "INVALID" THEN Bind(s, f) /\ expected' = [expected EXCEPT ![c] = f.seq + 1]
                           ELSE UNCHANGED <<owner, epoch, unknown, expected>>
  BY <1>1, <1>3, <1>4, <1>6, <1>10, <1>11, <1>13 DEF ServerReject
<1>16. \/ /\ BindResult(s, f) /\ f.epoch \in 1 .. MaxEpoch /\ e = Peer
          /\ q = Renumber(s, f) /\ outSeq' = [outSeq EXCEPT ![c] = q + 1]
          /\ anonSeq' = anonSeq /\ expected' = [expected EXCEPT ![c] = f.seq + 1]
       \/ /\ owner[c] = e /\ q = outSeq[c] /\ outSeq' = [outSeq EXCEPT ![c] = q + 1]
          /\ anonSeq' = anonSeq /\ UNCHANGED <<owner, epoch, unknown, expected>>
       \/ /\ owner[c] # e /\ q = anonSeq[s] /\ outSeq' = outSeq
          /\ anonSeq' = [anonSeq EXCEPT ![s] = q + 1]
          /\ UNCHANGED <<owner, epoch, unknown, expected>>
  <2>1. CASE t = "INVALID"
    <3>1. /\ f.epoch \in 1 .. MaxEpoch /\ e = Peer
          /\ Fresh(s, f) \/ Same(s, f) \/ Taken(s, f)
      BY <1>1, <1>2, <1>3, <1>4, <2>1, Admission
    <3>2. BindResult(s, f)
      BY <1>15, <2>1, <3>1, BindEffect
    <3>3. mine
      BY <1>10, <2>1
    <3>4. anonSeq' = anonSeq
      BY <1>8, <1>15, <3>3
    <3> QED
      BY <1>11, <1>15, <2>1, <3>1, <3>2, <3>3, <3>4
  <2>2. CASE t # "INVALID" /\ owner[c] = e
    <3>1. mine
      BY <1>10, <2>2
    <3>2. Renumber(s, f) = outSeq[c]
      BY <1>1, <1>9, <2>2 DEF Renumber, TakesOver
    <3>3. anonSeq' = anonSeq
      BY <1>8, <1>15, <3>1
    <3> QED
      BY <1>11, <1>15, <2>2, <3>1, <3>2, <3>3
  <2>3. CASE t # "INVALID" /\ owner[c] # e
    <3>1. ~mine
      BY <1>10, <2>3
    <3>2. outSeq' = outSeq /\ q = anonSeq[s]
      BY <1>8, <1>11, <1>15, <3>1
    <3> QED
      BY <1>15, <2>3, <3>1, <3>2
  <2> QED
    BY <2>1, <2>2, <2>3
<1>17. d.resp.type = t /\ d.resp.rid = 0 /\ t \notin {"ANSWER", "FILLED"}
  BY <1>5, <1>6, <1>14
<1>18. RejectResult(s, f, d)
  BY <1>1, <1>2, <1>3, <1>4, <1>14, <1>15, <1>16, <1>17 DEF RejectResult
<1> QED
  BY <1>14, <1>18

WaitResult(s, f) ==
    LET c == s[1] IN
    /\ f = Head(inbound[s]) /\ inbound[s] # <<>> /\ s[2] = Peer /\ ~Same(s, f)
    /\ BindResult(s, f) /\ f.epoch \in 1 .. MaxEpoch
    /\ outSeq' = [outSeq EXCEPT ![c] = Renumber(s, f)]
    /\ expected' = [expected EXCEPT ![c] = f.seq]

LEMMA WaitEffect ==
    ASSUME Types, NEW s \in Sockets, SocketInv(s[1]), ServerBind(s)
    PROVE  \E f \in UpFrames : WaitResult(s, f)
<1>1. PICK c \in Clients, e \in 1 .. Peer : c = s[1] /\ e = s[2] /\ s = <<c, e>>
  BY SocketFacts
<1>2. inbound[s] # <<>>
  BY DEF ServerBind, Parsing
<1>3. PICK f \in UpFrames : f = Head(inbound[s])
  BY <1>2, FirstFrame
<1>4. /\ TakesOver(s, f) \/ (owner[c] = 0 /\ Reason(s, f) = "INVALID")
      /\ Bind(s, f) /\ outSeq' = [outSeq EXCEPT ![c] = Renumber(s, f)]
      /\ expected' = [expected EXCEPT ![c] = f.seq]
  BY <1>1, <1>3 DEF ServerBind
<1>5. /\ f.epoch \in 1 .. MaxEpoch
      /\ Fresh(s, f) \/ Same(s, f) \/ Taken(s, f)
      /\ Reason(s, f) = "INVALID" => e = Peer
  BY <1>1, <1>2, <1>3, <1>4, Admission
<1>6. BindResult(s, f)
  BY <1>4, <1>5, BindEffect
<1>7. e # 0
  BY <1>1, SocketFacts
<1>8. e = Peer /\ ~Same(s, f)
  <2>1. CASE TakesOver(s, f)
    <3>1. Taken(s, f)
      BY <1>5, <2>1 DEF Fresh, Same
    <3> QED
      BY <1>1, <2>1, <3>1 DEF Same, Taken
  <2>2. CASE owner[c] = 0 /\ Reason(s, f) = "INVALID"
    BY <1>1, <1>5, <1>7, <2>2 DEF Same
  <2> QED
    BY <1>4, <2>1, <2>2
<1> QED
  BY <1>1, <1>2, <1>3, <1>4, <1>5, <1>6, <1>8 DEF WaitResult

\* A frame on the second connection.
LEMMA PeerEffect ==
    ASSUME Types, NEW c \in Clients, PeerSend(c)
    PROVE  /\ \E f \in UpFrames : /\ up' = [up EXCEPT ![<<c, Peer>>] = Append(@, f)]
                                  /\ f.id = f.seq /\ f.time = clock'
           /\ Len(up[<<c, Peer>>]) < WireCapacity /\ clock' \in Nat /\ clock <= clock'
           /\ peerSent' = [peerSent EXCEPT ![c] = @ + 1]
<1>1. PICK f \in PeerFrames :
         up' = [up EXCEPT ![<<c, Peer>>] = Append(@, [type |-> f.type, epoch |-> f.epoch,
                                       seq |-> f.seq, id |-> f.seq, time |-> clock'])]
  BY DEF PeerSend
<1>2. /\ f.type \in {"NEW", "QUERY", "BAD", "BADQUERY", "GARBLED"} /\ f.epoch \in 0 .. MaxEpoch
      /\ f.seq \in Nat \ {0}
  BY OrderSessionAssumption
<1>3. PICK k \in Nat : k = clock' /\ clock <= k
  <2>1. clock \in Nat
    BY DEF Types
  <2> QED
    BY <2>1, ClockAdvances DEF PeerSend
<1>4. PICK g : g = [type |-> f.type, epoch |-> f.epoch, seq |-> f.seq, id |-> f.seq, time |-> k]
  OBVIOUS
<1>5. g \in UpFrames /\ g.id = g.seq /\ g.time = k
  BY <1>2, <1>4 DEF UpFrames
<1> QED
  BY <1>1, <1>3, <1>4, <1>5 DEF PeerSend

\* The first n of the sorted requests go to the matching engine.
PublishResult(w, n) ==
    /\ w = StableSort(pending) /\ w \in Seq(Requests) /\ Len(w) = Len(pending)
    /\ n \in 0 .. Len(w) /\ Len(requestQ) + n <= RequestCapacity
    /\ requestQ' = requestQ \o SubSeq(w, 1, n) /\ pending' = SubSeq(w, n + 1, Len(w))

LEMMA PublishEffect ==
    ASSUME Types, Bounds, SequenceAndPublish
    PROVE  \E w, n : PublishResult(w, n)
<1>1. pending \in Seq(Requests)
  BY DEF Types
<1>2. PICK w : w = StableSort(pending)
  OBVIOUS
<1>3. w \in Seq(Requests) /\ Len(w) = Len(pending)
  BY <1>1, <1>2, StableSortLemma
<1>4. PICK a \in Nat, b \in Nat : a = Len(pending) /\ b = Len(requestQ) /\ b <= RequestCapacity
  BY DEF Types, Bounds
<1>5. PICK d \in Nat : d = RequestCapacity - b
  <2>1. RequestCapacity - b \in Nat
    BY <1>4, Capacities
  <2> QED
    BY <2>1
<1>6. PICK n : n = Min({a, d})
  OBVIOUS
<1>7. n \in Nat /\ n <= a /\ n <= d
  <2>1. a \in Int /\ d \in Int
    OBVIOUS
  <2>2. n \in {a, d} /\ n <= a /\ n <= d
    BY <1>6, <2>1, MinPair
  <2> QED
    BY <2>2
<1>8. b + n <= RequestCapacity
  BY <1>5, <1>7, Capacities
<1>9. n = Min({Len(pending), RequestCapacity - Len(requestQ)})
  BY <1>4, <1>5, <1>6
<1>10. requestQ' = requestQ \o SubSeq(w, 1, n) /\ pending' = SubSeq(w, n + 1, Len(w))
  BY <1>2, <1>9 DEF SequenceAndPublish
<1>11. n \in 0 .. Len(w)
  BY <1>3, <1>4, <1>7
<1> QED
  BY <1>2, <1>3, <1>4, <1>8, <1>10, <1>11 DEF PublishResult

\* A response goes to the owner of its client's session.
RespondResult(r, d) ==
    LET c == r.client
        s == <<c, owner[c]>>
    IN  /\ responseQ # <<>> /\ r = Head(responseQ) /\ c \in Clients
        /\ owner[c] \in 1 .. Peer /\ s \in Sockets
        /\ d.seq = outSeq[c] /\ d.epoch = epoch[c] /\ d.resp = r.resp
        /\ down' = [down EXCEPT ![s] = Append(@, d)] /\ Len(down[s]) < WireCapacity /\ open[s]
        /\ outSeq' = [outSeq EXCEPT ![c] = @ + 1]
        /\ responseQ' = Tail(responseQ)
        /\ halted' = halted

LEMMA RespondEffect ==
    ASSUME Types, \A c \in Clients : AbsentInv(c), ServerRespond
    PROVE  \/ \E r \in Replies, d \in DownFrames : RespondResult(r, d)
           \/ halted' = TRUE /\ UNCHANGED <<down, outSeq, responseQ>>
<1>1. SUFFICES ASSUME ~(halted' = TRUE /\ UNCHANGED <<down, outSeq, responseQ>>)
               PROVE  \E r \in Replies, d \in DownFrames : RespondResult(r, d)
  OBVIOUS
<1>2. responseQ \in Seq(Replies) /\ responseQ # <<>>
  BY DEF Types, ServerRespond
<1>3. PICK r \in Replies : r = Head(responseQ) /\ r = responseQ[1]
  BY <1>2, HeadTailProperties
<1>4. 1 \in 1 .. Len(responseQ)
  <2>1. Len(responseQ) \in Nat /\ Len(responseQ) # 0
    BY <1>2
  <2> QED
    BY <2>1
<1>5. PICK c \in Clients : c = r.client
  BY <1>3 DEF Replies
<1>6. owner[c] # 0
  BY <1>3, <1>4, <1>5 DEF AbsentInv
<1>7. owner[c] \in 1 .. Peer
  <2>1. owner[c] \in 0 .. Peer
    BY DEF Types
  <2> QED
    BY <1>6, <2>1, SocketFacts
<1>8. PICK s \in Sockets : s = <<c, owner[c]>>
  BY <1>7, SocketFacts
<1>9. PICK d : d = [seq |-> outSeq[c], epoch |-> epoch[c], resp |-> r.resp]
  OBVIOUS
<1>10. d \in DownFrames
  <2>1. outSeq[c] \in Nat /\ epoch[c] \in 0 .. MaxEpoch
    BY DEF Types
  <2>2. r.resp \in Responses
    BY <1>3 DEF Replies
  <2> QED
    BY <1>9, <2>1, <2>2, SocketFacts DEF DownFrames
<1>11. /\ open[s] /\ Len(down[s]) < WireCapacity
       /\ down' = [down EXCEPT ![s] = Append(@, d)]
       /\ outSeq' = [outSeq EXCEPT ![c] = @ + 1]
       /\ responseQ' = Tail(responseQ) /\ halted' = halted
  BY <1>1, <1>3, <1>5, <1>8, <1>9 DEF ServerRespond
<1>12. RespondResult(r, d)
  BY <1>2, <1>3, <1>5, <1>7, <1>8, <1>9, <1>11 DEF RespondResult
<1> QED
  BY <1>10, <1>12

\* What the matching engine answers to a request: one answer, and the fills.
AnswersResult(req, rs) ==
    LET a == req.client IN
    /\ rs \in Seq(Replies) /\ Len(rs) > 0
    /\ rs[1].client = a /\ rs[1].resp.epoch = req.epoch
    /\ \A i \in 1 .. Len(rs) :
          LET c == rs[i].client IN
          /\ rs[i].resp.type = IF i = 1 THEN "ANSWER" ELSE "FILLED"
          /\ i > 1 => rs[i].resp.epoch = epoch[c]
          /\ rs[i].resp.rid = issued[c] + Count(rs, RepliesTo(c), i)
          /\ c # a => matched[c] # <<>>
    /\ \A c \in Clients : Total(rs, SettlingReplies(c)) = IF c = a THEN 1 ELSE 0
    /\ \A c \in Clients : Total(rs, RepliesTo(c)) =
                            Cardinality({i \in DOMAIN rs : rs[i].client = c})

LEMMA AnswersEffect ==
    ASSUME Types, NEW req \in Requests, NEW fills,
           \/ fills = <<>>
           \/ \E c \in Clients : fills = <<req.client, c>> /\ matched[c] # <<>>
    PROVE  AnswersResult(req, Answers(req, fills))
<1>1. PICK a \in Clients : a = req.client
  BY DEF Requests
<1>2. PICK to : to = <<a>> \o fills
  OBVIOUS
<1>3. PICK n \in Nat \ {0} : /\ to \in Seq(Clients) /\ Len(to) = n /\ to[1] = a
                             /\ \A i \in 1 .. n : to[i] \in Clients /\ (to[i] # a => matched[to[i]] # <<>>)
  <2>1. CASE fills = <<>>
    <3>1. to = <<a>>
      BY <1>2, <2>1
    <3>2. to \in Seq(Clients) /\ Len(to) = 1 /\ to[1] = a
      BY <3>1
    <3>3. \A i \in 1 .. 1 : to[i] = a
      BY <3>2
    <3>4. 1 \in Nat \ {0}
      OBVIOUS
    <3> QED
      BY <3>2, <3>3, <3>4
  <2>2. CASE \E c \in Clients : fills = <<req.client, c>> /\ matched[c] # <<>>
    <3>1. PICK c \in Clients : fills = <<a, c>> /\ matched[c] # <<>>
      BY <1>1, <2>2
    <3>2. PICK x, y : x = <<a>> /\ y = <<a, c>>
      OBVIOUS
    <3>3. x \in Seq(Clients) /\ Len(x) = 1 /\ x[1] = a
      BY <3>2
    <3>4. y \in Seq(Clients) /\ Len(y) = 2 /\ y[1] = a /\ y[2] = c
      BY <3>2
    <3>5. /\ x \o y \in Seq(Clients) /\ Len(x \o y) = Len(x) + Len(y)
          /\ \A i \in 1 .. Len(x) + Len(y) :
                (x \o y)[i] = IF i <= Len(x) THEN x[i] ELSE y[i - Len(x)]
      BY <3>3, <3>4, ConcatProperties
    <3>6. to \in Seq(Clients) /\ Len(to) = 3 /\ to[1] = a /\ to[2] = a /\ to[3] = c
      BY <1>2, <3>1, <3>2, <3>3, <3>4, <3>5
    <3>7. 3 \in Nat \ {0} /\ \A i \in 1 .. 3 : i = 1 \/ i = 2 \/ i = 3
      OBVIOUS
    <3> QED
      BY <3>1, <3>6, <3>7
  <2> QED
    BY <2>1, <2>2
<1>0. PICK nth : nth = [i \in 1 .. n |-> Cardinality({j \in 1 .. i : to[j] = to[i]})]
  OBVIOUS
<1>4. PICK resp : resp = [i \in 1 .. n |-> [type |-> IF i = 1 THEN "ANSWER" ELSE "FILLED",
                             epoch |-> IF i = 1 THEN req.epoch ELSE epoch[to[i]],
                             id |-> IF i = 1 THEN req.id ELSE 0, rid |-> issued[to[i]] + nth[i]]]
  OBVIOUS
<1>5. PICK rs : rs = [i \in 1 .. n |-> [client |-> to[i], resp |-> resp[i]]]
  OBVIOUS
<1>6. Answers(req, fills) = rs
  <2>1. DOMAIN to = 1 .. n
    BY <1>3
  <2> QED
    BY <1>0, <1>1, <1>2, <1>4, <1>5, <2>1 DEF Answers
<1>7. ASSUME NEW i \in 1 .. n
      PROVE  /\ resp[i] \in Responses
             /\ resp[i].type = IF i = 1 THEN "ANSWER" ELSE "FILLED"
             /\ resp[i].epoch = IF i = 1 THEN req.epoch ELSE epoch[to[i]]
             /\ resp[i].rid = issued[to[i]] + nth[i]
  <2>1. PICK k \in Nat : k = issued[to[i]] + nth[i]
    <3>1. IsFiniteSet(1 .. i) /\ {j \in 1 .. i : to[j] = to[i]} \in SUBSET (1 .. i)
      BY FS_Interval
    <3>2. nth[i] \in Nat
      BY <1>0, <3>1, FS_Subset, FS_CardinalityType
    <3>3. issued[to[i]] \in Nat
      BY <1>3 DEF Types
    <3>4. issued[to[i]] + nth[i] \in Nat
      BY <3>2, <3>3
    <3> QED
      BY <3>4
  <2>2. PICK e \in Nat : e = IF i = 1 THEN req.epoch ELSE epoch[to[i]]
    <3>1. req.epoch \in Nat
      BY DEF Requests
    <3>2. epoch[to[i]] \in 0 .. MaxEpoch
      BY <1>3 DEF Types
    <3>3. epoch[to[i]] \in Nat
      BY <3>2, SocketFacts
    <3> QED
      BY <3>1, <3>3
  <2>3. PICK x \in Nat : x = IF i = 1 THEN req.id ELSE 0
    <3>1. req.id \in Nat
      BY DEF Requests
    <3> QED
      BY <3>1
  <2>4. PICK t \in {"ANSWER", "FILLED"} : t = IF i = 1 THEN "ANSWER" ELSE "FILLED"
    OBVIOUS
  <2>5. resp[i] = [type |-> t, epoch |-> e, id |-> x, rid |-> k]
    BY <1>4, <2>1, <2>2, <2>3, <2>4
  <2>6. resp[i] \in Responses
    BY <2>5 DEF Responses, ResponseTypes
  <2> QED
    BY <2>1, <2>2, <2>4, <2>5, <2>6
<1>8. \A i \in 1 .. n : rs[i] \in Replies /\ rs[i].client = to[i] /\ rs[i].resp = resp[i]
  BY <1>3, <1>5, <1>7 DEF Replies
<1>9. rs \in Seq(Replies) /\ Len(rs) = n /\ DOMAIN rs = 1 .. n
  <2>1. rs \in [1 .. n -> Replies]
    BY <1>5, <1>8
  <2> QED
    BY <2>1
<1>10. ASSUME NEW c \in Clients
       PROVE  \A i \in 1 .. n : rs[i] \in RepliesTo(c) <=> to[i] = c
  BY <1>8 DEF RepliesTo
<1>11. ASSUME NEW i \in 1 .. n
       PROVE  Count(rs, RepliesTo(to[i]), i) = nth[i]
  <2>1. to[i] \in Clients
    BY <1>3
  <2>2. {j \in 1 .. i : rs[j] \in RepliesTo(to[i])} = {j \in 1 .. i : to[j] = to[i]}
    BY <1>10, <2>1
  <2> QED
    BY <1>0, <2>2 DEF Count
<1>12. ASSUME NEW i \in 1 .. n
       PROVE  LET c == rs[i].client IN
              /\ rs[i].resp.type = IF i = 1 THEN "ANSWER" ELSE "FILLED"
              /\ i > 1 => rs[i].resp.epoch = epoch[c]
              /\ rs[i].resp.rid = issued[c] + Count(rs, RepliesTo(c), i)
              /\ c # a => matched[c] # <<>>
  <2>1. PICK c, r : c = to[i] /\ r = resp[i] /\ rs[i].client = c /\ rs[i].resp = r
    BY <1>8
  <2>2. r.type = IF i = 1 THEN "ANSWER" ELSE "FILLED"
    BY <1>7, <2>1
  <2>3. i > 1 => r.epoch = epoch[c]
    BY <1>7, <2>1
  <2>4. r.rid = issued[c] + Count(rs, RepliesTo(c), i)
    BY <1>7, <1>11, <2>1
  <2>5. c # a => matched[c] # <<>>
    BY <1>3, <2>1
  <2> QED
    BY <2>1, <2>2, <2>3, <2>4, <2>5
<1>13. ASSUME NEW c \in Clients
       PROVE  Total(rs, RepliesTo(c)) = Cardinality({i \in DOMAIN rs : rs[i].client = c})
  <2>1. {i \in 1 .. n : rs[i] \in RepliesTo(c)} = {i \in DOMAIN rs : rs[i].client = c}
    BY <1>8, <1>9 DEF RepliesTo
  <2> QED
    BY <1>9, <2>1 DEF Total, Count
<1>14. ASSUME NEW c \in Clients
       PROVE  Total(rs, SettlingReplies(c)) = IF c = a THEN 1 ELSE 0
  <2>1. ASSUME NEW i \in 1 .. n PROVE rs[i] \in SettlingReplies(c) <=> i = 1 /\ c = a
    <3>1. rs[i].resp.type # "FILLED" <=> i = 1
      BY <1>7, <1>8
    <3>2. rs[i] \in Replies /\ (i = 1 => rs[i].client = a)
      BY <1>3, <1>8
    <3> QED
      BY <3>1, <3>2 DEF SettlingReplies
  <2>2. CASE c = a
    <3>1. {i \in 1 .. n : rs[i] \in SettlingReplies(c)} = {1}
      BY <2>1, <2>2
    <3> QED
      BY <1>9, <2>2, <3>1, FS_Singleton DEF Total, Count
  <2>3. CASE c # a
    <3>1. \A i \in 1 .. n : rs[i] \notin SettlingReplies(c)
      BY <2>1, <2>3
    <3> QED
      BY <1>9, <2>3, <3>1, CountNone DEF Total
  <2> QED
    BY <2>2, <2>3
<1>15. n > 0 /\ 1 \in 1 .. n
  OBVIOUS
<1>16. rs[1].client = a /\ rs[1].resp.epoch = req.epoch
  BY <1>3, <1>7, <1>8, <1>15
<1> QED
  BY <1>1, <1>6, <1>9, <1>12, <1>13, <1>14, <1>15, <1>16 DEF AnswersResult

\* The matching engine takes a request.
EngineResult(req, rs) ==
    /\ requestQ # <<>> /\ req = Head(requestQ) /\ requestQ' = Tail(requestQ)
    /\ matched' = [matched EXCEPT ![req.client] = Append(@, req)]
    /\ AnswersResult(req, rs)
    /\ \/ /\ Len(responseQ) + Len(rs) <= ResponseCapacity
          /\ responseQ' = responseQ \o rs /\ halted' = halted
          /\ issued' = [c \in Clients |-> issued[c] + Total(rs, RepliesTo(c))]
       \/ halted' = TRUE /\ responseQ' = responseQ /\ issued' = issued

LEMMA EngineEffect ==
    ASSUME Types, EngineProcess
    PROVE  \E req \in Requests : \E rs : EngineResult(req, rs)
<1>1. requestQ \in Seq(Requests) /\ requestQ # <<>>
  BY DEF Types, EngineProcess
<1> DEFINE req == Head(requestQ)
           makers == IF Fills /\ req.type = "NEW"
                     THEN {c \in Clients : \E i \in DOMAIN matched[c] : matched[c][i].type = "NEW"}
                     ELSE {}
<1>2. req \in Requests
  BY <1>1, HeadTailProperties
<1>3. makers \subseteq {c \in Clients : \E i \in DOMAIN matched[c] : matched[c][i].type = "NEW"}
  OBVIOUS
<1>4. PICK fills \in {<<>>} \cup {<<req.client, c>> : c \in makers} :
         /\ requestQ' = Tail(requestQ)
         /\ matched' = [matched EXCEPT ![req.client] = Append(@, req)]
         /\ \/ /\ Len(responseQ) + Len(Answers(req, fills)) <= ResponseCapacity
               /\ responseQ' = responseQ \o Answers(req, fills)
               /\ issued' = [c \in Clients |-> issued[c]
                    + Cardinality({i \in DOMAIN Answers(req, fills) : Answers(req, fills)[i].client = c})]
               /\ UNCHANGED halted
            \/ /\ Len(responseQ) + Len(Answers(req, fills)) > ResponseCapacity
               /\ halted' = TRUE
               /\ UNCHANGED <<responseQ, issued>>
  BY DEF EngineProcess
<1> HIDE DEF makers
<1> HIDE DEF req
<1>5. \/ fills = <<>>
      \/ \E c \in Clients : fills = <<req.client, c>> /\ matched[c] # <<>>
  <2>1. CASE fills # <<>>
    <3>1. PICK c \in makers : fills = <<req.client, c>>
      BY <1>4, <2>1
    <3>2. c \in Clients /\ \E i \in DOMAIN matched[c] : TRUE
      BY <1>3, <3>1
    <3>3. matched[c] # <<>>
      BY <3>2
    <3> QED
      BY <3>1, <3>2, <3>3
  <2> QED
    BY <2>1
<1>6. PICK rs : rs = Answers(req, fills)
  OBVIOUS
<1>7. AnswersResult(req, rs)
  BY <1>2, <1>5, <1>6, AnswersEffect
<1>8. \A c \in Clients : Cardinality({i \in DOMAIN rs : rs[i].client = c}) = Total(rs, RepliesTo(c))
  BY <1>7 DEF AnswersResult
<1>9. \/ /\ Len(responseQ) + Len(rs) <= ResponseCapacity
         /\ responseQ' = responseQ \o rs /\ halted' = halted
         /\ issued' = [c \in Clients |-> issued[c] + Total(rs, RepliesTo(c))]
      \/ halted' = TRUE /\ responseQ' = responseQ /\ issued' = issued
  BY <1>4, <1>6, <1>8
<1>10. EngineResult(req, rs)
  BY <1>1, <1>4, <1>7, <1>9 DEF EngineResult, req
<1> QED
  BY <1>2, <1>10

-------------------------------------------------------------------------------
(* Every step keeps the types and the bounds.                                 *)

\* One element more, one less: the sequence keeps its type.
LEMMA AppendType ==
    ASSUME NEW T, NEW q \in Seq(T), NEW x \in T
    PROVE  /\ Append(q, x) \in Seq(T) /\ Len(Append(q, x)) = Len(q) + 1 /\ Len(q) \in Nat
           /\ (\A i \in 1 .. Len(q) : Append(q, x)[i] = q[i]) /\ Append(q, x)[Len(q) + 1] = x
BY AppendProperties

LEMMA TailType ==
    ASSUME NEW T, NEW q \in Seq(T), q # <<>>
    PROVE  /\ Head(q) \in T /\ Head(q) = q[1] /\ 1 \in 1 .. Len(q)
           /\ Tail(q) \in Seq(T) /\ Len(Tail(q)) = Len(q) - 1 /\ Len(q) \in Nat \ {0}
           /\ \A i \in 1 .. Len(q) - 1 : Tail(q)[i] = q[i + 1]
<1>1. Len(q) \in Nat /\ Len(q) # 0
  OBVIOUS
<1> QED
  BY <1>1, HeadTailProperties

\* ... and its bound.
LEMMA AppendRoom ==
    ASSUME NEW T, NEW q \in Seq(T), NEW x \in T, NEW n \in Nat, Len(q) < n
    PROVE  \E r \in Seq(T) : r = Append(q, x) /\ Len(r) <= n
<1>1. Append(q, x) \in Seq(T) /\ Len(Append(q, x)) = Len(q) + 1 /\ Len(q) \in Nat
  BY AppendType
<1>2. Len(Append(q, x)) <= n
  BY <1>1
<1> QED
  BY <1>1, <1>2

LEMMA TailRoom ==
    ASSUME NEW T, NEW q \in Seq(T), q # <<>>, NEW n \in Nat, Len(q) <= n
    PROVE  \E r \in Seq(T) : r = Tail(q) /\ Len(r) <= n
<1>1. Tail(q) \in Seq(T) /\ Len(Tail(q)) = Len(q) - 1 /\ Len(q) \in Nat
  BY TailType
<1>2. Len(Tail(q)) <= n
  BY <1>1
<1> QED
  BY <1>1, <1>2

LEMMA CounterType ==
    ASSUME NEW D, NEW f \in [D -> Nat], NEW x \in D, NEW g, g = [f EXCEPT ![x] = @ + 1]
    PROVE  g \in [D -> Nat] /\ (f \in [D -> Nat \ {0}] => g \in [D -> Nat \ {0}])
<1>1. PICK n \in Nat \ {0} : n = f[x] + 1
  <2>1. f[x] + 1 \in Nat \ {0}
    OBVIOUS
  <2> QED
    BY <2>1
<1>2. g = [f EXCEPT ![x] = n]
  BY <1>1
<1> QED
  BY <1>2

LEMMA TypesLocal ==
    ASSUME Types, Bounds, NEW c \in Clients, LocalStep(c) \/ Crash(c)
    PROVE  Types' /\ Bounds'
<1>1. PICK g \in Gateways : /\ gw' = [gw EXCEPT ![c] = g] /\ RestUnchanged
                            /\ g.submitted <= MaxRequests /\ g.unread <= ClientCapacity
  <2>1. CASE LocalStep(c)
    BY <2>1, LocalEffect
  <2>2. CASE Crash(c)
    <3>1. 0 <= MaxRequests /\ 0 <= ClientCapacity
      BY Capacities
    <3>2. PICK g \in Gateways : g = Session(gw[c].epoch + 1) /\ gw' = [gw EXCEPT ![c] = g] /\ RestUnchanged
      BY <2>2, CrashEffect
    <3>3. g.submitted = 0 /\ g.unread = 0
      BY <3>2 DEF Session
    <3> QED
      BY <3>1, <3>2, <3>3
  <2> QED
    BY <2>1, <2>2
<1>2. gw' \in [Clients -> Gateways]
  BY <1>1 DEF Types
<1>3. Types'
  BY <1>1, <1>2 DEF Types, RestUnchanged, wireVars, serverVars, sessionVars, engineVars
<1>4. \A d \in Clients : gw'[d].submitted <= MaxRequests /\ gw'[d].unread <= ClientCapacity
  BY <1>1 DEF Types, Bounds
<1> QED
  BY <1>1, <1>3, <1>4 DEF Bounds, RestUnchanged, wireVars, serverVars, sessionVars, engineVars

LEMMA TypesSend ==
    ASSUME Types, Bounds, NEW c \in Clients, GatewaySend(c)
    PROVE  Types' /\ Bounds'
<1>1. PICK s \in Sockets : s = Current(c)
  BY CurrentSocket
<1>2. PICK g \in Gateways : /\ gw' = [gw EXCEPT ![c] = g]
                            /\ g.submitted = gw[c].submitted /\ g.unread = gw[c].unread
  BY SendEffect
<1>3. PICK f \in UpFrames : up' = [up EXCEPT ![s] = Append(@, f)]
  BY <1>1, SendEffect
<1>4. clock' \in Nat /\ Len(up[s]) < WireCapacity
  BY <1>1, SendEffect
<1>5. PICK q \in Seq(UpFrames) : q = Append(up[s], f) /\ Len(q) <= WireCapacity
  <2>1. up[s] \in Seq(UpFrames)
    BY DEF Types
  <2> QED
    BY <1>4, <2>1, AppendRoom, Capacities
<1>6. up' = [up EXCEPT ![s] = q]
  BY <1>3, <1>5
<1>7. gw' \in [Clients -> Gateways] /\ up' \in [Sockets -> Seq(UpFrames)] /\ clock' \in Nat
  <2>1. gw \in [Clients -> Gateways] /\ up \in [Sockets -> Seq(UpFrames)] /\ clock \in Nat
    BY DEF Types
  <2>2. gw' \in [Clients -> Gateways]
    BY <1>2, <2>1
  <2>3. up' \in [Sockets -> Seq(UpFrames)]
    BY <1>5, <1>6, <2>1
  <2> QED
    BY <1>4, <2>1, <2>2, <2>3
<1>8. Types'
  BY <1>7 DEF Types, GatewaySend, serverVars, sessionVars, engineVars
<1>9. \A d \in Clients : gw'[d].submitted <= MaxRequests /\ gw'[d].unread <= ClientCapacity
  BY <1>2 DEF Types, Bounds
<1>10. \A t \in Sockets : Len(up'[t]) <= WireCapacity
  BY <1>5, <1>6 DEF Types, Bounds
<1> QED
  BY <1>8, <1>9, <1>10 DEF Bounds, GatewaySend, serverVars, sessionVars, engineVars

LEMMA TypesRecv ==
    ASSUME Types, Bounds, NEW c \in Clients, NumberInv(c), GatewayInv(c), SettleInv(c), GatewayRecv(c)
    PROVE  Types' /\ Bounds'
<1>1. PICK s \in Sockets : s = Current(c)
  BY CurrentSocket
<1>2. down[s] # <<>> /\ down' = [down EXCEPT ![s] = Tail(@)]
  BY <1>1, RecvEffect
<1>3. PICK g \in Gateways : /\ gw' = [gw EXCEPT ![c] = g]
                            /\ g.submitted = gw[c].submitted /\ g.unread <= ClientCapacity
  BY RecvEffect
<1>4. PICK q \in Seq(DownFrames) : q = Tail(down[s]) /\ Len(q) <= WireCapacity
  <2>1. down[s] \in Seq(DownFrames) /\ Len(down[s]) <= WireCapacity
    BY DEF Types, Bounds
  <2> QED
    BY <1>2, <2>1, TailRoom, Capacities
<1>5. down' = [down EXCEPT ![s] = q]
  BY <1>2, <1>4
<1>6. gw' \in [Clients -> Gateways] /\ down' \in [Sockets -> Seq(DownFrames)]
  BY <1>3, <1>5 DEF Types
<1>7. Types'
  BY <1>6 DEF Types, GatewayRecv, serverVars, sessionVars, engineVars
<1>8. \A d \in Clients : gw'[d].submitted <= MaxRequests /\ gw'[d].unread <= ClientCapacity
  BY <1>3 DEF Types, Bounds
<1>9. \A t \in Sockets : Len(down'[t]) <= WireCapacity
  BY <1>4, <1>5 DEF Types, Bounds
<1> QED
  BY <1>7, <1>8, <1>9 DEF Bounds, GatewayRecv, serverVars, sessionVars, engineVars

LEMMA TypesPeer ==
    ASSUME Types, Bounds, NEW c \in Clients, PeerSend(c) \/ PeerRecv(c)
    PROVE  Types' /\ Bounds'
<1>1. PICK s \in Sockets : s = <<c, Peer>>
  <2>1. Peer \in 1 .. Peer
    BY SocketFacts
  <2> QED
    BY <2>1, SocketFacts
<1>2. CASE PeerSend(c)
  <2>1. PICK f \in UpFrames : up' = [up EXCEPT ![s] = Append(@, f)]
    BY <1>1, <1>2, PeerEffect
  <2>2. Len(up[s]) < WireCapacity /\ clock' \in Nat /\ peerSent' = [peerSent EXCEPT ![c] = @ + 1]
    BY <1>1, <1>2, PeerEffect
  <2>3. PICK q \in Seq(UpFrames) : q = Append(up[s], f) /\ Len(q) <= WireCapacity
    <3>1. up[s] \in Seq(UpFrames)
      BY DEF Types
    <3> QED
      BY <2>2, <3>1, AppendRoom, Capacities
  <2>4. up' = [up EXCEPT ![s] = q]
    BY <2>1, <2>3
  <2>5. up' \in [Sockets -> Seq(UpFrames)] /\ clock' \in Nat /\ peerSent' \in [Clients -> Nat]
    <3>1. up' \in [Sockets -> Seq(UpFrames)]
      BY <2>4 DEF Types
    <3>2. clock' \in Nat
      BY <2>2
    <3>3. peerSent \in [Clients -> Nat]
      BY DEF Types
    <3>4. peerSent' \in [Clients -> Nat]
      BY <2>2, <3>3, CounterType
    <3> QED
      BY <3>1, <3>2, <3>4
  <2>6. Types'
    BY <1>2, <2>5 DEF Types, PeerSend, serverVars, sessionVars
  <2>7. \A t \in Sockets : Len(up'[t]) <= WireCapacity
    BY <2>3, <2>4 DEF Types, Bounds
  <2> QED
    BY <1>2, <2>6, <2>7 DEF Bounds, PeerSend, serverVars, sessionVars
<1>3. CASE PeerRecv(c)
  <2>1. down[s] # <<>> /\ down' = [down EXCEPT ![s] = Tail(@)]
    BY <1>1, <1>3 DEF PeerRecv
  <2>2. PICK q \in Seq(DownFrames) : q = Tail(down[s]) /\ Len(q) <= WireCapacity
    <3>1. down[s] \in Seq(DownFrames) /\ Len(down[s]) <= WireCapacity
      BY DEF Types, Bounds
    <3> QED
      BY <2>1, <3>1, TailRoom, Capacities
  <2>3. down' = [down EXCEPT ![s] = q]
    BY <2>1, <2>2
  <2>4. down' \in [Sockets -> Seq(DownFrames)]
    BY <2>3 DEF Types
  <2>5. Types'
    BY <1>3, <2>4 DEF Types, PeerRecv, serverVars, sessionVars, engineVars
  <2>6. \A t \in Sockets : Len(down'[t]) <= WireCapacity
    BY <2>2, <2>3 DEF Types, Bounds
  <2> QED
    BY <1>3, <2>5, <2>6 DEF Bounds, PeerRecv, serverVars, sessionVars, engineVars
<1> QED
  BY <1>2, <1>3

\* The session of a client that a frame binds.
LEMMA TypesBind ==
    ASSUME Types, NEW s \in Sockets, NEW f, BindResult(s, f), f.epoch \in 1 .. MaxEpoch
    PROVE  /\ owner' \in [Clients -> 0 .. Peer] /\ epoch' \in [Clients -> 0 .. MaxEpoch]
           /\ unknown' \in [Clients -> BOOLEAN] /\ Renumber(s, f) \in Nat \ {0}
<1>1. PICK c \in Clients, e \in 1 .. Peer : c = s[1] /\ e = s[2] /\ s = <<c, e>>
  BY SocketFacts
<1>2. /\ owner \in [Clients -> 0 .. Peer] /\ epoch \in [Clients -> 0 .. MaxEpoch]
      /\ unknown \in [Clients -> BOOLEAN] /\ anonSeq[s] \in Nat \ {0} /\ outSeq[c] \in Nat \ {0}
  BY DEF Types
<1>3. e \in 0 .. Peer /\ Peer \in 0 .. Peer /\ f.epoch \in 0 .. MaxEpoch
  BY SocketFacts
<1>4. owner' \in [Clients -> 0 .. Peer]
  BY <1>1, <1>2, <1>3 DEF BindResult
<1>5. epoch' \in [Clients -> 0 .. MaxEpoch]
  BY <1>1, <1>2, <1>3 DEF BindResult
<1>6. unknown' \in [Clients -> BOOLEAN]
  BY <1>1, <1>2 DEF BindResult
<1>7. Renumber(s, f) \in Nat \ {0}
  BY <1>1, <1>2 DEF BindResult
<1> QED
  BY <1>4, <1>5, <1>6, <1>7

LEMMA TypesRead ==
    ASSUME Types, Bounds, NEW s \in Sockets, ServerRead(s) \/ ServerNoticeClose(s)
    PROVE  Types' /\ Bounds'
<1>1. CASE ServerRead(s)
  <2>1. PICK n \in Nat \ {0} :
              /\ n <= Len(up[s]) /\ Len(inbound[s]) + n <= WireCapacity
              /\ inbound' = [inbound EXCEPT ![s] = @ \o SubSeq(up[s], 1, n)]
              /\ rx' = [rx EXCEPT ![s] = up[s][n].time]
              /\ up' = [up EXCEPT ![s] = SubSeq(@, n + 1, Len(@))]
    BY <1>1, ReadEffect
  <2>2. PICK u \in Seq(UpFrames), v \in Seq(UpFrames) : u = up[s] /\ v = inbound[s]
    BY DEF Types
  <2>3. n \in 0 .. Len(u) /\ Len(u) \in Nat /\ Len(v) \in Nat /\ n \in 1 .. Len(u)
    BY <2>1, <2>2
  <2>4. PICK x \in Seq(UpFrames), y \in Seq(UpFrames) :
            /\ x = SubSeq(u, 1, n) /\ y = SubSeq(u, n + 1, Len(u))
            /\ Len(x) = n /\ Len(y) = Len(u) - n
    <3>1. /\ SubSeq(u, 1, n) \in Seq(UpFrames) /\ SubSeq(u, n + 1, Len(u)) \in Seq(UpFrames)
          /\ Len(SubSeq(u, 1, n)) = n /\ Len(SubSeq(u, n + 1, Len(u))) = Len(u) - n
      BY <2>3, SplitSeq
    <3> QED
      BY <3>1
  <2>5. PICK z \in Seq(UpFrames) : z = v \o x /\ Len(z) = Len(v) + n
    <3>1. v \o x \in Seq(UpFrames) /\ Len(v \o x) = Len(v) + Len(x)
      BY ConcatProperties
    <3> QED
      BY <2>4, <3>1
  <2>6. up' = [up EXCEPT ![s] = y] /\ inbound' = [inbound EXCEPT ![s] = z]
    BY <2>1, <2>2, <2>4, <2>5
  <2>7. PICK k \in Nat : k = up[s][n].time
    <3>1. u[n] \in UpFrames
      BY <2>3
    <3>2. u[n].time \in Nat
      BY <3>1 DEF UpFrames
    <3> QED
      BY <2>2, <3>2
  <2>8. /\ up' \in [Sockets -> Seq(UpFrames)] /\ inbound' \in [Sockets -> Seq(UpFrames)]
    BY <2>6 DEF Types
  <2>9. rx' \in [Sockets -> Nat]
    BY <2>1, <2>7 DEF Types
  <2>10. Types'
    BY <1>1, <2>8, <2>9 DEF Types, ServerRead, sessionVars, engineVars
  <2>11. Len(y) <= WireCapacity /\ Len(z) <= WireCapacity
    <3>1. Len(u) <= WireCapacity /\ Len(v) + n <= WireCapacity
      BY <2>1, <2>2 DEF Bounds
    <3> QED
      BY <2>3, <2>4, <2>5, <3>1, Capacities
  <2>12. \A t \in Sockets : Len(up'[t]) <= WireCapacity /\ Len(inbound'[t]) <= WireCapacity
    BY <2>6, <2>11 DEF Types, Bounds
  <2> QED
    BY <1>1, <2>10, <2>12 DEF Bounds, ServerRead, sessionVars, engineVars
<1>2. CASE ServerNoticeClose(s)
  <2>1. open' \in [Sockets -> BOOLEAN]
    BY <1>2 DEF Types, ServerNoticeClose
  <2>2. Types'
    BY <1>2, <2>1 DEF Types, ServerNoticeClose, wireVars, sessionVars, engineVars
  <2> QED
    BY <1>2, <2>2 DEF Bounds, ServerNoticeClose, wireVars, sessionVars, engineVars
<1> QED
  BY <1>1, <1>2

LEMMA TypesAccept ==
    ASSUME Types, Bounds, NEW s \in Sockets, SocketInv(s[1]), ServerAccept(s)
    PROVE  Types' /\ Bounds'
<1>1. PICK f \in UpFrames, r \in Requests : AcceptResult(s, f, r)
  BY AcceptEffect
<1>2. PICK c \in Clients : c = s[1]
  BY SocketFacts
<1>3. /\ inbound[s] # <<>> /\ inbound' = [inbound EXCEPT ![s] = Tail(@)]
      /\ BindResult(s, f) /\ f.epoch \in 1 .. MaxEpoch
      /\ pending' = Append(pending, r) /\ Len(pending) < SequencerCapacity
      /\ outSeq' = [outSeq EXCEPT ![c] = Renumber(s, f)]
      /\ expected' = [expected EXCEPT ![c] = f.seq + 1]
      /\ accepted' = [accepted EXCEPT ![c] = @ + 1]
  BY <1>1, <1>2 DEF AcceptResult
<1>4. /\ owner' \in [Clients -> 0 .. Peer] /\ epoch' \in [Clients -> 0 .. MaxEpoch]
      /\ unknown' \in [Clients -> BOOLEAN] /\ Renumber(s, f) \in Nat \ {0}
  BY <1>3, TypesBind
<1>5. PICK q \in Seq(UpFrames) : q = Tail(inbound[s]) /\ Len(q) <= WireCapacity
  <2>1. inbound[s] \in Seq(UpFrames) /\ Len(inbound[s]) <= WireCapacity
    BY DEF Types, Bounds
  <2> QED
    BY <1>3, <2>1, TailRoom, Capacities
<1>6. inbound' = [inbound EXCEPT ![s] = q]
  BY <1>3, <1>5
<1>7. inbound' \in [Sockets -> Seq(UpFrames)]
  BY <1>6 DEF Types
<1>8. pending' \in Seq(Requests) /\ Len(pending') <= SequencerCapacity
  <2>1. pending \in Seq(Requests)
    BY DEF Types
  <2> QED
    BY <1>3, <2>1, AppendRoom, Capacities
<1>9. outSeq' \in [Clients -> Nat \ {0}]
  BY <1>3, <1>4 DEF Types
<1>10. expected' \in [Clients -> Nat \ {0}]
  <2>1. f.seq + 1 \in Nat \ {0}
    BY <1>1 DEF UpFrames
  <2> QED
    BY <1>3, <2>1 DEF Types
<1>11. accepted' \in [Clients -> Nat]
  <2>1. accepted \in [Clients -> Nat]
    BY DEF Types
  <2> QED
    BY <1>3, <2>1, CounterType
<1>12. Types'
  BY <1>4, <1>7, <1>8, <1>9, <1>10, <1>11 DEF Types, ServerAccept, wireVars, engineVars
<1>13. \A t \in Sockets : Len(inbound'[t]) <= WireCapacity
  BY <1>5, <1>6 DEF Types, Bounds
<1> QED
  BY <1>8, <1>12, <1>13 DEF Bounds, ServerAccept, wireVars, engineVars

LEMMA TypesReject ==
    ASSUME Types, Bounds, NEW s \in Sockets, SocketInv(s[1]), ServerReject(s)
    PROVE  Types' /\ Bounds'
<1>1. PICK f \in UpFrames, d \in DownFrames : RejectResult(s, f, d)
  BY RejectEffect
<1>2. PICK c \in Clients : c = s[1]
  BY SocketFacts
<1>3. /\ inbound[s] # <<>> /\ inbound' = [inbound EXCEPT ![s] = Tail(@)]
      /\ down' = [down EXCEPT ![s] = Append(@, d)] /\ Len(down[s]) < WireCapacity
  BY <1>1 DEF RejectResult
<1>4. PICK q \in Seq(UpFrames) : q = Tail(inbound[s]) /\ Len(q) <= WireCapacity
  <2>1. inbound[s] \in Seq(UpFrames) /\ Len(inbound[s]) <= WireCapacity
    BY DEF Types, Bounds
  <2> QED
    BY <1>3, <2>1, TailRoom, Capacities
<1>5. PICK w \in Seq(DownFrames) : w = Append(down[s], d) /\ Len(w) <= WireCapacity
  <2>1. down[s] \in Seq(DownFrames)
    BY DEF Types
  <2> QED
    BY <1>1, <1>3, <2>1, AppendRoom, Capacities
<1>6. inbound' = [inbound EXCEPT ![s] = q] /\ down' = [down EXCEPT ![s] = w]
  BY <1>3, <1>4, <1>5
<1>7. inbound' \in [Sockets -> Seq(UpFrames)] /\ down' \in [Sockets -> Seq(DownFrames)]
  BY <1>6 DEF Types
<1>8. PICK n \in Nat \ {0} : n = d.seq + 1
  <2>1. d.seq + 1 \in Nat \ {0}
    BY <1>1 DEF DownFrames
  <2> QED
    BY <2>1
<1>9. outSeq' \in [Clients -> Nat \ {0}]
  <2>1. outSeq' = outSeq \/ outSeq' = [outSeq EXCEPT ![c] = n]
    BY <1>1, <1>2, <1>8 DEF RejectResult
  <2> QED
    BY <2>1 DEF Types
<1>10. anonSeq' \in [Sockets -> Nat \ {0}]
  <2>1. anonSeq' = anonSeq \/ anonSeq' = [anonSeq EXCEPT ![s] = n]
    BY <1>1, <1>8 DEF RejectResult
  <2> QED
    BY <2>1 DEF Types
<1>11. expected' \in [Clients -> Nat \ {0}]
  <2>1. expected' = expected \/ expected' = [expected EXCEPT ![c] = f.seq + 1]
    BY <1>1, <1>2 DEF RejectResult
  <2>2. f.seq + 1 \in Nat \ {0}
    BY <1>1 DEF UpFrames
  <2> QED
    BY <2>1, <2>2 DEF Types
<1>12. /\ owner' \in [Clients -> 0 .. Peer] /\ epoch' \in [Clients -> 0 .. MaxEpoch]
       /\ unknown' \in [Clients -> BOOLEAN]
  <2>1. (BindResult(s, f) /\ f.epoch \in 1 .. MaxEpoch) \/ UNCHANGED <<owner, epoch, unknown>>
    BY <1>1 DEF RejectResult
  <2> QED
    BY <2>1, TypesBind DEF Types
<1>13. Types'
  BY <1>7, <1>9, <1>10, <1>11, <1>12 DEF Types, ServerReject, engineVars
<1>14. \A t \in Sockets : Len(inbound'[t]) <= WireCapacity /\ Len(down'[t]) <= WireCapacity
  BY <1>4, <1>5, <1>6 DEF Types, Bounds
<1> QED
  BY <1>13, <1>14 DEF Bounds, ServerReject, engineVars

LEMMA TypesWait ==
    ASSUME Types, Bounds, NEW s \in Sockets, SocketInv(s[1]), ServerBind(s)
    PROVE  Types' /\ Bounds'
<1>1. PICK f \in UpFrames : WaitResult(s, f)
  BY WaitEffect
<1>2. PICK c \in Clients : c = s[1]
  BY SocketFacts
<1>3. /\ BindResult(s, f) /\ f.epoch \in 1 .. MaxEpoch
      /\ outSeq' = [outSeq EXCEPT ![c] = Renumber(s, f)]
      /\ expected' = [expected EXCEPT ![c] = f.seq]
  BY <1>1, <1>2 DEF WaitResult
<1>4. /\ owner' \in [Clients -> 0 .. Peer] /\ epoch' \in [Clients -> 0 .. MaxEpoch]
      /\ unknown' \in [Clients -> BOOLEAN] /\ Renumber(s, f) \in Nat \ {0}
  BY <1>3, TypesBind
<1>5. outSeq' \in [Clients -> Nat \ {0}]
  BY <1>3, <1>4 DEF Types
<1>6. expected' \in [Clients -> Nat \ {0}]
  <2>1. f.seq \in Nat \ {0}
    BY <1>1 DEF UpFrames
  <2> QED
    BY <1>3, <2>1 DEF Types
<1>7. Types'
  BY <1>4, <1>5, <1>6 DEF Types, ServerBind, wireVars, engineVars
<1> QED
  BY <1>7 DEF Bounds, ServerBind, wireVars, engineVars

LEMMA TypesPublish ==
    ASSUME Types, Bounds, SequenceAndPublish
    PROVE  Types' /\ Bounds'
<1>1. PICK w, n : PublishResult(w, n)
  BY PublishEffect
<1>2. /\ w \in Seq(Requests) /\ Len(w) = Len(pending) /\ n \in 0 .. Len(w)
      /\ Len(requestQ) + n <= RequestCapacity
      /\ requestQ' = requestQ \o SubSeq(w, 1, n) /\ pending' = SubSeq(w, n + 1, Len(w))
  BY <1>1 DEF PublishResult
<1>3. /\ SubSeq(w, 1, n) \in Seq(Requests) /\ SubSeq(w, n + 1, Len(w)) \in Seq(Requests)
      /\ Len(SubSeq(w, 1, n)) = n /\ Len(SubSeq(w, n + 1, Len(w))) = Len(w) - n
  BY <1>2, SplitSeq
<1>4. /\ requestQ \in Seq(Requests) /\ pending \in Seq(Requests)
  BY DEF Types
<1>5. requestQ' \in Seq(Requests) /\ Len(requestQ') = Len(requestQ) + n
  BY <1>2, <1>3, <1>4, ConcatProperties
<1>6. pending' \in Seq(Requests) /\ Len(pending') = Len(w) - n
  BY <1>2, <1>3
<1>7. Len(pending') <= SequencerCapacity
  <2>1. Len(w) \in Nat /\ Len(w) <= SequencerCapacity
    BY <1>2, <1>4 DEF Bounds
  <2> QED
    BY <1>2, <1>6, <2>1, Capacities
<1>8. Types'
  BY <1>5, <1>6 DEF Types, SequenceAndPublish, wireVars, serverVars, sessionVars, engineVars
<1>9. Len(requestQ') <= RequestCapacity
  BY <1>2, <1>5
<1> QED
  BY <1>7, <1>8, <1>9
     DEF Bounds, SequenceAndPublish, wireVars, serverVars, sessionVars, engineVars

LEMMA TypesRespond ==
    ASSUME Types, Bounds, \A c \in Clients : AbsentInv(c), ServerRespond
    PROVE  Types' /\ Bounds'
<1>1. CASE halted' = TRUE /\ UNCHANGED <<down, outSeq, responseQ>>
  <2>1. Types'
    BY <1>1 DEF Types, ServerRespond, sessionVars, engineVars
  <2> QED
    BY <1>1, <2>1 DEF Bounds, ServerRespond, sessionVars, engineVars
<1>2. ASSUME NEW r \in Replies, NEW d \in DownFrames, RespondResult(r, d)
      PROVE  Types' /\ Bounds'
  <2>1. PICK c \in Clients, s \in Sockets : c = r.client /\ s = <<c, owner[c]>>
    BY <1>2 DEF RespondResult
  <2>2. /\ responseQ # <<>> /\ Len(down[s]) < WireCapacity
        /\ down' = [down EXCEPT ![s] = Append(@, d)]
        /\ outSeq' = [outSeq EXCEPT ![c] = @ + 1]
        /\ responseQ' = Tail(responseQ) /\ halted' = halted
    BY <1>2, <2>1 DEF RespondResult
  <2>3. PICK w \in Seq(DownFrames) : w = Append(down[s], d) /\ Len(w) <= WireCapacity
    <3>1. down[s] \in Seq(DownFrames)
      BY DEF Types
    <3> QED
      BY <2>2, <3>1, AppendRoom, Capacities
  <2>4. down' = [down EXCEPT ![s] = w]
    BY <2>2, <2>3
  <2>5. down' \in [Sockets -> Seq(DownFrames)]
    BY <2>4 DEF Types
  <2>6. outSeq' \in [Clients -> Nat \ {0}]
    <3>1. outSeq \in [Clients -> Nat \ {0}] /\ outSeq \in [Clients -> Nat]
      BY DEF Types
    <3> QED
      BY <2>2, <3>1, CounterType
  <2>7. responseQ' \in Seq(Replies) /\ Len(responseQ') <= ResponseCapacity
    <3>1. responseQ \in Seq(Replies) /\ Len(responseQ) <= ResponseCapacity
      BY DEF Types, Bounds
    <3> QED
      BY <2>2, <3>1, TailRoom, Capacities
  <2>8. Types'
    BY <2>2, <2>5, <2>6, <2>7 DEF Types, ServerRespond, sessionVars, engineVars
  <2>9. \A t \in Sockets : Len(down'[t]) <= WireCapacity
    BY <2>3, <2>4 DEF Types, Bounds
  <2> QED
    BY <2>7, <2>8, <2>9 DEF Bounds, ServerRespond, sessionVars, engineVars
<1> QED
  BY <1>1, <1>2, RespondEffect

LEMMA TypesEngine ==
    ASSUME Types, Bounds, EngineProcess
    PROVE  Types' /\ Bounds'
<1>1. PICK req \in Requests : \E rs : EngineResult(req, rs)
  BY EngineEffect
<1>2. PICK rs : EngineResult(req, rs)
  BY <1>1
<1>3. PICK a \in Clients : a = req.client
  BY <1>1 DEF Requests
<1>4. /\ requestQ # <<>> /\ requestQ' = Tail(requestQ)
      /\ matched' = [matched EXCEPT ![a] = Append(@, req)] /\ rs \in Seq(Replies)
  BY <1>2, <1>3 DEF EngineResult, AnswersResult
<1>5. requestQ' \in Seq(Requests) /\ Len(requestQ') <= RequestCapacity
  <2>1. requestQ \in Seq(Requests) /\ Len(requestQ) <= RequestCapacity
    BY DEF Types, Bounds
  <2> QED
    BY <1>4, <2>1, TailRoom, Capacities
<1>6. matched' \in [Clients -> Seq(Requests)]
  <2>1. PICK q \in Seq(Requests) : q = Append(matched[a], req)
    <3>1. matched[a] \in Seq(Requests)
      BY DEF Types
    <3>2. Append(matched[a], req) \in Seq(Requests)
      BY <1>1, <3>1, AppendType
    <3> QED
      BY <3>2
  <2>2. matched' = [matched EXCEPT ![a] = q]
    BY <1>4, <2>1
  <2> QED
    BY <2>2 DEF Types
<1>7. responseQ \in Seq(Replies) /\ Len(responseQ) <= ResponseCapacity /\ halted \in BOOLEAN
      /\ issued \in [Clients -> Nat]
  BY DEF Types, Bounds
<1>8. responseQ' \in Seq(Replies) /\ Len(responseQ') <= ResponseCapacity /\ halted' \in BOOLEAN
  <2>1. responseQ \o rs \in Seq(Replies) /\ Len(responseQ \o rs) = Len(responseQ) + Len(rs)
    BY <1>4, <1>7, ConcatProperties
  <2> QED
    BY <1>2, <1>7, <2>1 DEF EngineResult
<1>9. issued' \in [Clients -> Nat]
  <2>1. ASSUME NEW c \in Clients PROVE issued[c] + Total(rs, RepliesTo(c)) \in Nat
    <3>1. Total(rs, RepliesTo(c)) \in Nat
      BY <1>4, CountType DEF Total
    <3> QED
      BY <1>7, <3>1
  <2>2. issued' = issued \/ issued' = [c \in Clients |-> issued[c] + Total(rs, RepliesTo(c))]
    BY <1>2 DEF EngineResult
  <2> QED
    BY <1>7, <2>1, <2>2
<1>10. Types'
  BY <1>5, <1>6, <1>8, <1>9 DEF Types, EngineProcess, wireVars, serverVars, sessionVars
<1> QED
  BY <1>5, <1>8, <1>10 DEF Bounds, EngineProcess, wireVars, serverVars, sessionVars

LEMMA TypesExchange ==
    ASSUME Types, Bounds, Exchange
    PROVE  Types' /\ Bounds'
<1>1. /\ UNCHANGED <<gw, wireVars, serverVars, pending, requestQ, responseQ, engineVars>>
      /\ exPhase' \in {"accepting", "quiescing", "engine", "server", "stopped"}
      /\ halted' \in BOOLEAN
  BY DEF Types, Exchange, ExchangeQuiesce, ExchangeQuiesced, ExchangeEngineStopped, ExchangeStopped,
         ExchangeDeadline
<1>2. Types'
  BY <1>1 DEF Types, wireVars, serverVars, sessionVars, engineVars
<1> QED
  BY <1>1, <1>2 DEF Bounds, wireVars, serverVars, sessionVars, engineVars

-------------------------------------------------------------------------------
(* What a step leaves alone.                                                  *)

\* r holds what q holds for the client, d places further to the front.
SameFor(q, r, c, d) ==
    /\ \A i \in 1 .. Len(r) : r[i].client = c => i + d \in 1 .. Len(q) /\ r[i] = q[i + d]
    /\ \A i \in 1 .. Len(q) : q[i].client = c => i - d \in 1 .. Len(r) /\ r[i - d] = q[i]
    /\ \A S : (\A x \in S : x.client = c) =>
                 /\ Total(r, S) = Total(q, S)
                 /\ \A i \in 1 .. Len(r) : i + d <= Len(q) => Count(r, S, i) = Count(q, S, i + d)

LEMMA SameSelf ==
    ASSUME NEW T, NEW q \in Seq(T), NEW c PROVE SameFor(q, q, c, 0)
<1>1. PICK n \in Nat : n = Len(q)
  OBVIOUS
<1>2. \A i \in 1 .. n : i + 0 = i /\ i - 0 = i
  OBVIOUS
<1> QED
  BY <1>1, <1>2 DEF SameFor

LEMMA SameAppend ==
    ASSUME NEW T, NEW q \in Seq(T), NEW x \in T, NEW c, x.client # c
    PROVE  SameFor(q, Append(q, x), c, 0)
<1>1. PICK n \in Nat : n = Len(q)
  OBVIOUS
<1>2. PICK r : r = Append(q, x)
  OBVIOUS
<1>3. Len(r) = n + 1 /\ r[n + 1] = x /\ \A i \in 1 .. n : r[i] = q[i]
  BY <1>1, <1>2, AppendType
<1>4. ASSUME NEW i \in 1 .. n + 1, r[i].client = c
      PROVE  i + 0 \in 1 .. n /\ r[i] = q[i + 0]
  <2>1. i \in 1 .. n
    BY <1>3, <1>4
  <2> QED
    BY <1>3, <2>1
<1>5. \A i \in 1 .. n : i - 0 \in 1 .. n + 1 /\ r[i - 0] = q[i]
  <2>1. \A i \in 1 .. n : i - 0 = i /\ i \in 1 .. n + 1
    OBVIOUS
  <2> QED
    BY <1>3, <2>1
<1>6. ASSUME NEW S, \A y \in S : y.client = c
      PROVE  /\ Total(r, S) = Total(q, S)
             /\ \A i \in 1 .. n + 1 : i + 0 <= n => Count(r, S, i) = Count(q, S, i + 0)
  <2>1. x \notin S
    BY <1>6
  <2>2. /\ Total(r, S) = Total(q, S) + 0
        /\ \A i \in 1 .. n : Count(r, S, i) = Count(q, S, i)
    BY <1>1, <1>2, <2>1, TotalAppend
  <2>3. Total(q, S) \in Nat
    BY <1>1, CountType DEF Total
  <2>4. \A i \in 1 .. n + 1 : i + 0 = i /\ (i + 0 <= n => i \in 1 .. n)
    OBVIOUS
  <2> QED
    BY <2>2, <2>3, <2>4
<1> QED
  BY <1>1, <1>2, <1>3, <1>4, <1>5, <1>6 DEF SameFor

LEMMA SameTail ==
    ASSUME NEW T, NEW q \in Seq(T), q # <<>>, NEW c, Head(q).client # c
    PROVE  SameFor(q, Tail(q), c, 1)
<1>1. PICK n \in Nat : n + 1 = Len(q)
  <2>1. Len(q) \in Nat /\ Len(q) # 0
    OBVIOUS
  <2> QED
    BY <2>1
<1>2. PICK r : r = Tail(q)
  OBVIOUS
<1>3. Len(r) = n /\ q[1].client # c /\ \A i \in 1 .. n : r[i] = q[i + 1]
  BY <1>1, <1>2
<1>4. \A i \in 1 .. n : i + 1 \in 1 .. n + 1 /\ r[i] = q[i + 1]
  BY <1>3
<1>5. ASSUME NEW i \in 1 .. n + 1, q[i].client = c PROVE i - 1 \in 1 .. n /\ r[i - 1] = q[i]
  <2>1. i # 1
    BY <1>3, <1>5
  <2>2. i - 1 \in 1 .. n /\ (i - 1) + 1 = i
    BY <2>1
  <2> QED
    BY <1>3, <2>2
<1>6. ASSUME NEW S, \A y \in S : y.client = c
      PROVE  /\ Total(r, S) = Total(q, S)
             /\ \A i \in 1 .. n : i + 1 <= n + 1 => Count(r, S, i) = Count(q, S, i + 1)
  <2>1. Head(q) \notin S
    BY <1>6
  <2>2. /\ Total(q, S) = Total(r, S) + 0
        /\ \A i \in 1 .. Len(q) - 1 : Count(q, S, i + 1) = Count(r, S, i) + 0
    BY <1>2, <2>1, TotalTail
  <2>3. Total(r, S) \in Nat
    BY <1>3, CountType DEF Total
  <2>4. ASSUME NEW i \in 1 .. n PROVE Count(r, S, i) = Count(q, S, i + 1)
    <3>1. i \in Nat /\ i \in 1 .. Len(q) - 1
      BY <1>1
    <3>2. Count(r, S, i) \in Nat
      BY <3>1, CountType
    <3> QED
      BY <2>2, <3>1, <3>2
  <2> QED
    BY <2>2, <2>3, <2>4
<1> QED
  BY <1>1, <1>2, <1>3, <1>4, <1>5, <1>6 DEF SameFor

LEMMA SameConcat ==
    ASSUME NEW T, NEW q \in Seq(T), NEW w \in Seq(T), NEW c, \A i \in 1 .. Len(w) : w[i].client # c
    PROVE  SameFor(q, q \o w, c, 0)
<1>1. PICK n \in Nat, m \in Nat : n = Len(q) /\ m = Len(w)
  OBVIOUS
<1>2. PICK r : r = q \o w
  OBVIOUS
<1>3. /\ Len(r) = n + m
      /\ \A i \in 1 .. n + m : r[i] = IF i <= n THEN q[i] ELSE w[i - n]
  BY <1>1, <1>2, ConcatProperties
<1>4. ASSUME NEW i \in 1 .. n + m, r[i].client = c
      PROVE  i + 0 \in 1 .. n /\ r[i] = q[i + 0]
  <2>1. CASE i <= n
    BY <1>3, <2>1
  <2>2. CASE ~(i <= n)
    <3>1. i - n \in 1 .. m
      BY <2>2
    <3>2. r[i] = w[i - n]
      BY <1>3, <2>2
    <3> QED
      BY <1>1, <1>4, <3>1, <3>2
  <2> QED
    BY <2>1, <2>2
<1>5. \A i \in 1 .. n : i - 0 \in 1 .. n + m /\ r[i - 0] = q[i]
  <2>1. \A i \in 1 .. n : i - 0 = i /\ i \in 1 .. n + m /\ i <= n
    OBVIOUS
  <2> QED
    BY <1>3, <2>1
<1>6. ASSUME NEW S, \A y \in S : y.client = c
      PROVE  /\ Total(r, S) = Total(q, S)
             /\ \A i \in 1 .. n + m : i + 0 <= n => Count(r, S, i) = Count(q, S, i + 0)
  <2>1. Total(w, S) = 0
    <3>1. \A i \in 1 .. m : w[i] \notin S
      BY <1>1, <1>6
    <3> QED
      BY <1>1, <3>1, CountNone DEF Total
  <2>2. /\ Total(r, S) = Total(q, S) + Total(w, S)
        /\ \A i \in 1 .. n : Count(r, S, i) = Count(q, S, i)
    BY <1>1, <1>2, TotalConcat
  <2>3. Total(q, S) \in Nat
    BY <1>1, CountType DEF Total
  <2>4. \A i \in 1 .. n + m : i + 0 = i /\ (i + 0 <= n => i \in 1 .. n)
    OBVIOUS
  <2>5. Total(r, S) = Total(q, S)
    BY <2>1, <2>2, <2>3
  <2> QED
    BY <2>2, <2>4, <2>5
<1>7. Len(r) = n + m
  BY <1>3
<1>8. SameFor(q, r, c, 0)
  BY <1>1, <1>4, <1>5, <1>6, <1>7 DEF SameFor
<1> QED
  BY <1>2, <1>8

LEMMA GatewayKept ==
    ASSUME NEW c, GatewayInv(c), gw'[c] = gw[c]
    PROVE  GatewayInv(c)'
BY DEF GatewayInv

\* The connections and the session of a client; a gateway that has stopped stays so.
SocketsKept(c) ==
    \A e \in 1 .. Peer :
       LET s == <<c, e>> IN
       /\ up'[s] = up[s] /\ inbound'[s] = inbound[s] /\ down'[s] = down[s]
       /\ anonSeq'[s] = anonSeq[s] /\ open'[s] = open[s] /\ rx'[s] = rx[s]
SessionKept(c) ==
    /\ owner'[c] = owner[c] /\ epoch'[c] = epoch[c] /\ unknown'[c] = unknown[c]
    /\ expected'[c] = expected[c] /\ outSeq'[c] = outSeq[c] /\ accepted'[c] = accepted[c]
EngineKept(c) ==
    matched'[c] = matched[c] /\ issued'[c] = issued[c] /\ peerSent'[c] = peerSent[c]
QueuesKept(c) ==
    \E i, j, k \in {0, 1} : /\ SameFor(pending, pending', c, i) /\ SameFor(requestQ, requestQ', c, j)
                            /\ SameFor(responseQ, responseQ', c, k)
GatewayState(c) ==
    /\ gw'[c].epoch = gw[c].epoch /\ gw'[c].expected = gw[c].expected /\ gw'[c].got = gw[c].got
    /\ gw'[c].next = gw[c].next
    /\ gw[c].state = "stopped" => gw'[c].state = "stopped"
LifeKept == ~halted' /\ exPhase' # "stopped" => ~halted /\ exPhase # "stopped"

LEMMA SocketKept ==
    ASSUME NEW c, SocketInv(c), GatewayState(c), SocketsKept(c), SessionKept(c), peerSent'[c] = peerSent[c]
    PROVE  SocketInv(c)'
<1>1. ASSUME NEW e \in 1 .. Peer, ~open'[<<c, e>>] PROVE Closed(<<c, e>>)'
  <2>1. Closed(<<c, e>>)
    BY <1>1 DEF SocketInv, SocketsKept
  <2> QED
    BY <2>1 DEF Closed, Current, GatewayState
<1>2. Peer \in 1 .. Peer
  BY SocketFacts
<1>3. ASSUME NEW e \in 1 .. Peer
      PROVE  /\ FrameShape(up[<<c, e>>], e)' /\ FrameShape(inbound[<<c, e>>], e)'
             /\ e # Peer /\ e > gw'[c].epoch => Unused(<<c, e>>)'
  <2>1. /\ FrameShape(up[<<c, e>>], e) /\ FrameShape(inbound[<<c, e>>], e)
        /\ e # Peer /\ e > gw[c].epoch => Unused(<<c, e>>)
    BY DEF SocketInv
  <2>2. FrameShape(up[<<c, e>>], e)' /\ FrameShape(inbound[<<c, e>>], e)'
    BY <2>1 DEF FrameShape, SocketsKept
  <2>3. Unused(<<c, e>>) => Unused(<<c, e>>)'
    BY DEF Unused, SocketsKept
  <2> QED
    BY <2>1, <2>2, <2>3 DEF GatewayState
<1>4. Unused(<<c, Peer>>) => Unused(<<c, Peer>>)'
  BY <1>2 DEF Unused, SocketsKept
<1>5. /\ owner'[c] = Peer \/ owner'[c] <= gw'[c].epoch
      /\ owner'[c] # 0 => epoch'[c] # 0
      /\ owner'[c] \notin {0, Peer} => epoch'[c] = owner'[c]
      /\ unknown'[c] => owner'[c] = Peer
      /\ peerSent'[c] = 0 => owner'[c] # Peer /\ Unused(<<c, Peer>>)'
  BY <1>4 DEF SocketInv, SessionKept, GatewayState
<1> QED
  BY <1>1, <1>3, <1>5 DEF SocketInv

LEMMA NumberKept ==
    ASSUME NEW c, NumberInv(c), gw'[c].epoch = gw[c].epoch, gw'[c].expected = gw[c].expected,
           down'[Current(c)] = down[Current(c)], open'[Current(c)] => open[Current(c)],
           owner'[c] = owner[c], outSeq'[c] = outSeq[c], anonSeq'[Current(c)] = anonSeq[Current(c)]
    PROVE  NumberInv(c)'
<1>1. Current(c)' = Current(c)
  BY DEF Current
<1>2. NextNumber(c)' = NextNumber(c)
  BY <1>1 DEF NextNumber
<1> QED
  BY <1>1, <1>2 DEF NumberInv

\* There is no more to settle, and no fewer requests.
LEMMA SettleKept ==
    ASSUME NEW c, SettleInv(c), gw'[c].epoch = gw[c].epoch, gw'[c].got = gw[c].got, gw'[c].next = gw[c].next,
           down'[Current(c)] = down[Current(c)], up'[Current(c)] = up[Current(c)],
           inbound'[Current(c)] = inbound[Current(c)], owner'[c] = owner[c], QueuesKept(c)
    PROVE  SettleInv(c)'
<1>1. Current(c)' = Current(c)
  BY DEF Current
<1>2. /\ Total(pending', RequestsOf(c)) = Total(pending, RequestsOf(c))
      /\ Total(requestQ', RequestsOf(c)) = Total(requestQ, RequestsOf(c))
      /\ Total(responseQ', SettlingReplies(c)) = Total(responseQ, SettlingReplies(c))
  <2>1. (\A x \in RequestsOf(c) : x.client = c) /\ (\A x \in SettlingReplies(c) : x.client = c)
    BY DEF RequestsOf, SettlingReplies
  <2>2. PICK i, j, k \in {0, 1} : /\ SameFor(pending, pending', c, i) /\ SameFor(requestQ, requestQ', c, j)
                                  /\ SameFor(responseQ, responseQ', c, k)
    BY DEF QueuesKept
  <2> QED
    BY <2>1, <2>2 DEF SameFor
<1>3. AtExchange(c)' = AtExchange(c)
  BY <1>2 DEF AtExchange
<1> QED
  BY <1>1, <1>3 DEF SettleInv

LEMMA AbsentKept ==
    ASSUME NEW c, AbsentInv(c), gw'[c].got = gw[c].got, owner'[c] = owner[c], expected'[c] = expected[c],
           accepted'[c] = accepted[c], matched'[c] = matched[c], issued'[c] = issued[c], QueuesKept(c),
           \A e \in 1 .. Peer : down'[<<c, e>>] = down[<<c, e>>]
    PROVE  AbsentInv(c)'
<1>1. SUFFICES ASSUME owner'[c] = 0 PROVE AbsentInv(c)'
  BY DEF AbsentInv
<1>2. PICK i, j, k \in {0, 1} : /\ SameFor(pending, pending', c, i) /\ SameFor(requestQ, requestQ', c, j)
                                /\ SameFor(responseQ, responseQ', c, k)
  BY DEF QueuesKept
<1>3. owner[c] = 0
  BY <1>1
<1>4. \A x \in 1 .. Len(pending') : pending'[x].client # c
  BY <1>2, <1>3 DEF AbsentInv, SameFor
<1>5. \A x \in 1 .. Len(requestQ') : requestQ'[x].client # c
  BY <1>2, <1>3 DEF AbsentInv, SameFor
<1>6. \A x \in 1 .. Len(responseQ') : responseQ'[x].client # c
  BY <1>2, <1>3 DEF AbsentInv, SameFor
<1> QED
  BY <1>3, <1>4, <1>5, <1>6 DEF AbsentInv

LEMMA ReplyKept ==
    ASSUME Types, Types', NEW c, ReplyInv(c), gw'[c].epoch = gw[c].epoch, gw'[c].got = gw[c].got,
           down'[Current(c)] = down[Current(c)], owner'[c] = owner[c], epoch'[c] = epoch[c],
           issued'[c] = issued[c], QueuesKept(c)
    PROVE  ReplyInv(c)'
<1>1. Current(c)' = Current(c)
  BY DEF Current
<1>2. PICK k \in {0, 1} : SameFor(responseQ, responseQ', c, k)
  BY DEF QueuesKept
<1>3. \A x \in RepliesTo(c) : x.client = c
  BY DEF RepliesTo
<1>4. /\ Total(responseQ', RepliesTo(c)) = Total(responseQ, RepliesTo(c))
      /\ \A i \in 1 .. Len(responseQ') : i + k <= Len(responseQ) =>
            Count(responseQ', RepliesTo(c), i) = Count(responseQ, RepliesTo(c), i + k)
  BY <1>2, <1>3 DEF SameFor
<1>5. PICK a, b : a = Total(gw[c].got, Genuine) /\ b = Total(down[Current(c)], GenuineFrames)
  OBVIOUS
<1>6. ASSUME NEW i \in 1 .. Len(responseQ'), responseQ'[i].client = c
      PROVE  /\ responseQ'[i].resp.epoch = epoch[c] /\ responseQ'[i].resp.rid # 0
             /\ owner[c] = gw[c].epoch =>
                   responseQ'[i].resp.rid = a + b + Count(responseQ', RepliesTo(c), i)
  <2>1. PICK j \in 1 .. Len(responseQ) : j = i + k /\ responseQ'[i] = responseQ[j]
    BY <1>2, <1>6 DEF SameFor
  <2>2. Len(responseQ) \in Nat
    BY DEF Types
  <2>3. Count(responseQ', RepliesTo(c), i) = Count(responseQ, RepliesTo(c), j)
    BY <1>4, <2>1, <2>2
  <2> QED
    BY <1>5, <1>6, <2>1, <2>3 DEF ReplyInv
<1>7. owner[c] = gw[c].epoch => issued[c] = a + b + Total(responseQ', RepliesTo(c))
  BY <1>4, <1>5 DEF ReplyInv
<1>8. a = Total(gw'[c].got, Genuine) /\ b = Total(down'[Current(c)'], GenuineFrames)
  BY <1>1, <1>5
<1>9. /\ \A i \in 1 .. Len(gw'[c].got) :
            gw'[c].got[i].rid # 0 => /\ gw'[c].got[i].rid = Count(gw'[c].got, Genuine, i)
                                     /\ gw'[c].got[i].epoch = gw'[c].epoch
      /\ \A i \in 1 .. Len(down'[Current(c)]) :
            down'[Current(c)][i].resp.rid # 0 =>
               /\ down'[Current(c)][i].resp.rid = a + Count(down'[Current(c)], GenuineFrames, i)
               /\ down'[Current(c)][i].resp.epoch = gw'[c].epoch
  BY <1>5 DEF ReplyInv
<1> QED
  BY <1>1, <1>6, <1>7, <1>8, <1>9 DEF ReplyInv

\* A queue keeps its order, and the numbers in it.
LEMMA AscendingKept ==
    ASSUME NEW T, NEW q \in Seq(T), NEW r \in Seq(T), NEW c, NEW d \in {0, 1}, SameFor(q, r, c, d)
    PROVE  /\ Ascending(q, c) => Ascending(r, c)
           /\ Timely(q, c) => Timely(r, c)
           /\ \A p : Precedes(p, q, c) => Precedes(p, r, c)
           /\ \A p : Precedes(q, p, c) => Precedes(r, p, c)
           /\ \A k : Holds(q, c, k) => Holds(r, c, k)
<1>1. ASSUME NEW i \in 1 .. Len(r), IsOrder(r[i], c)
      PROVE  i + d \in 1 .. Len(q) /\ r[i] = q[i + d]
  BY <1>1 DEF SameFor, IsOrder
<1>2. Len(q) \in Nat /\ Len(r) \in Nat
  OBVIOUS
<1>3. \A i, j \in 1 .. Len(r) : i < j => i + d < j + d
  BY <1>2
<1>4. Ascending(q, c) => Ascending(r, c)
  BY <1>1, <1>3 DEF Ascending
<1>5. Timely(q, c) => Timely(r, c)
  BY <1>1, <1>3 DEF Timely
<1>6. \A p : Precedes(p, q, c) => Precedes(p, r, c)
  BY <1>1 DEF Precedes
<1>7. \A p : Precedes(q, p, c) => Precedes(r, p, c)
  BY <1>1 DEF Precedes
<1>8. \A k : Holds(q, c, k) => Holds(r, c, k)
  BY DEF SameFor, Holds
<1> QED
  BY <1>4, <1>5, <1>6, <1>7, <1>8

LEMMA OrderKept ==
    ASSUME Types, Types', NEW c, OrderInv(c), matched'[c] = matched[c], owner'[c] = owner[c],
           epoch'[c] = epoch[c], unknown'[c] = unknown[c], expected'[c] = expected[c], QueuesKept(c),
           AbsentInv(c), owner[c] # 0 => rx'[<<c, owner[c]>>] = rx[<<c, owner[c]>>]
    PROVE  OrderInv(c)'
<1>1. PICK d, e \in {0, 1} : SameFor(pending, pending', c, d) /\ SameFor(requestQ, requestQ', c, e)
  BY DEF QueuesKept
<1>2. /\ pending \in Seq(Requests) /\ pending' \in Seq(Requests)
      /\ requestQ \in Seq(Requests) /\ requestQ' \in Seq(Requests)
  BY DEF Types
<1>3. /\ Ascending(requestQ, c) /\ Ascending(pending, c)
      /\ Precedes(matched[c], requestQ, c) /\ Precedes(matched[c], pending, c)
      /\ Precedes(requestQ, pending, c) /\ Timely(pending, c)
  BY DEF OrderInv, Timely
<1>4. Ascending(requestQ', c) /\ Precedes(matched[c], requestQ', c) /\ Precedes(requestQ', pending, c)
  BY <1>1, <1>2, <1>3, AscendingKept
<1>5. /\ Ascending(pending', c) /\ Timely(pending', c)
      /\ Precedes(matched[c], pending', c) /\ Precedes(requestQ', pending', c)
  BY <1>1, <1>2, <1>3, <1>4, AscendingKept
<1>6. InSession(requestQ, c)'
  BY <1>1 DEF OrderInv, InSession, SameFor
<1>7. InSession(pending, c)'
  BY <1>1 DEF OrderInv, InSession, SameFor
<1>8. ASSUME ~unknown[c], NEW i \in 1 .. Len(pending'), IsOrder(pending'[i], c)
      PROVE  pending'[i].time <= rx'[<<c, owner[c]>>]
  <2>1. PICK j \in 1 .. Len(pending) : pending'[i] = pending[j] /\ pending[j].client = c
    BY <1>1, <1>8 DEF SameFor, IsOrder
  <2>2. owner[c] # 0
    BY <2>1 DEF AbsentInv
  <2>3. pending[j].time <= rx[<<c, owner[c]>>]
    BY <1>8, <2>1 DEF OrderInv
  <2> QED
    BY <2>1, <2>2, <2>3
<1>9. InSession(matched[c], c)'
  BY DEF OrderInv, InSession
<1>10. Ascending(matched[c], c)' /\ \A i \in 1 .. Len(matched'[c]) : matched'[c][i].client = c
  BY DEF OrderInv, Ascending, IsOrder
<1>11. /\ Ascending(requestQ, c)' /\ Ascending(pending, c)' /\ Timely(pending, c)'
       /\ Precedes(matched[c], requestQ, c)' /\ Precedes(matched[c], pending, c)'
       /\ Precedes(requestQ, pending, c)'
  BY <1>4, <1>5
<1> QED
  BY <1>6, <1>7, <1>8, <1>9, <1>10, <1>11 DEF OrderInv, Timely

LEMMA WholeKept ==
    ASSUME Types, Types', NEW c, WholeInv(c), expected'[c] = expected[c], accepted'[c] = accepted[c],
           matched'[c] = matched[c], QueuesKept(c), peerSent'[c] = 0 => peerSent[c] = 0
    PROVE  WholeInv(c)'
<1>1. SUFFICES ASSUME peerSent'[c] = 0 PROVE WholeInv(c)'
  BY DEF WholeInv
<1>2. PICK d, e \in {0, 1} : SameFor(pending, pending', c, d) /\ SameFor(requestQ, requestQ', c, e)
  BY DEF QueuesKept
<1>3. /\ pending \in Seq(Requests) /\ pending' \in Seq(Requests)
      /\ requestQ \in Seq(Requests) /\ requestQ' \in Seq(Requests)
  BY DEF Types
<1>4. \A k : /\ Holds(pending, c, k) => Holds(pending', c, k)
             /\ Holds(requestQ, c, k) => Holds(requestQ', c, k)
  BY <1>2, <1>3, AscendingKept
<1>5. /\ expected[c] = accepted[c] + 1
      /\ \A i \in 1 .. Len(matched[c]) : matched[c][i].type = "NEW" /\ matched[c][i].id = i
      /\ \A k \in 1 .. accepted[c] :
            k <= Len(matched[c]) \/ Holds(requestQ, c, k) \/ Holds(pending, c, k)
  BY <1>1 DEF WholeInv
<1>6. \A i \in 1 .. Len(pending') : pending'[i].client = c => pending'[i].type = "NEW"
  <2>1. \A i \in 1 .. Len(pending) : pending[i].client = c => pending[i].type = "NEW"
    BY <1>1 DEF WholeInv
  <2> QED
    BY <1>2, <2>1 DEF SameFor
<1>7. \A i \in 1 .. Len(requestQ') : requestQ'[i].client = c => requestQ'[i].type = "NEW"
  <2>1. \A i \in 1 .. Len(requestQ) : requestQ[i].client = c => requestQ[i].type = "NEW"
    BY <1>1 DEF WholeInv
  <2> QED
    BY <1>2, <2>1 DEF SameFor
<1>8. \A k \in 1 .. accepted[c] :
         k <= Len(matched[c]) \/ Holds(requestQ, c, k)' \/ Holds(pending, c, k)'
  BY <1>4, <1>5 DEF Holds
<1> QED
  BY <1>5, <1>6, <1>7, <1>8 DEF WholeInv

LEMMA SteadyKept ==
    ASSUME NEW c, SteadyInv(c), gw'[c].epoch = gw[c].epoch, gw'[c].next = gw[c].next,
           owner'[c] = owner[c], unknown'[c] = unknown[c],
           up'[<<c, 1>>] = up[<<c, 1>>], inbound'[<<c, 1>>] = inbound[<<c, 1>>],
           down'[<<c, 1>>] = down[<<c, 1>>], open'[<<c, 1>>] = open[<<c, 1>>],
           expected'[c] = expected[c], QueuesKept(c),
           gw'[c].state # "stopped" => gw[c].state # "stopped" /\ (gw[c].healthy => gw'[c].healthy)
    PROVE  SteadyInv(c)'
<1>1. SUFFICES ASSUME Steady(c)' PROVE SteadyInv(c)'
  BY DEF SteadyInv
<1>2. Steady(c) /\ gw'[c].state # "stopped"
  BY <1>1 DEF Steady
<1>3. PICK s : s = <<c, 1>>
  OBVIOUS
<1>4. /\ up'[s] = up[s] /\ inbound'[s] = inbound[s] /\ down'[s] = down[s] /\ open'[s] = open[s]
  BY <1>3
<1>5. PICK d \in {0, 1} : SameFor(responseQ, responseQ', c, d)
  BY DEF QueuesKept
<1>6. \A i \in 1 .. Len(responseQ') :
         responseQ'[i].client = c => responseQ'[i].resp.type \in {"ANSWER", "FILLED"}
  BY <1>2, <1>5 DEF SteadyInv, SameFor
<1>7. /\ owner[c] # Peer /\ gw[c].healthy /\ open[s]
      /\ \A i \in 1 .. Len(inbound[s]) : inbound[s][i].seq = expected[c] + i - 1
      /\ \A i \in 1 .. Len(up[s]) : up[s][i].seq = expected[c] + Len(inbound[s]) + i - 1
      /\ gw[c].next = expected[c] + Len(inbound[s]) + Len(up[s])
      /\ \A i \in 1 .. Len(down[s]) : down[s][i].resp.type \in {"ANSWER", "FILLED"}
  BY <1>2, <1>3 DEF SteadyInv
<1>8. /\ owner'[c] # Peer /\ gw'[c].healthy /\ open'[s]
      /\ \A i \in 1 .. Len(inbound'[s]) : inbound'[s][i].seq = expected'[c] + i - 1
      /\ \A i \in 1 .. Len(up'[s]) : up'[s][i].seq = expected'[c] + Len(inbound'[s]) + i - 1
      /\ gw'[c].next = expected'[c] + Len(inbound'[s]) + Len(up'[s])
      /\ \A i \in 1 .. Len(down'[s]) : down'[s][i].resp.type \in {"ANSWER", "FILLED"}
  BY <1>2, <1>4, <1>7
<1> QED
  BY <1>3, <1>6, <1>8 DEF SteadyInv

\* A step that does not concern the client.
Apart(c) ==
    /\ gw'[c] = gw[c] /\ SocketsKept(c) /\ SessionKept(c) /\ EngineKept(c) /\ QueuesKept(c) /\ LifeKept

LEMMA ApartKeeps ==
    ASSUME Types, Types', NEW c \in Clients, ClientInv(c), Apart(c)
    PROVE  ClientInv(c)'
<1>1. PICK e \in 1 .. Peer : Current(c) = <<c, e>>
  <2>1. gw[c].epoch \in 1 .. Peer
    BY CurrentSocket, SocketFacts
  <2> QED
    BY <2>1 DEF Current
<1>2. /\ up'[Current(c)] = up[Current(c)] /\ inbound'[Current(c)] = inbound[Current(c)]
      /\ down'[Current(c)] = down[Current(c)] /\ open'[Current(c)] = open[Current(c)]
      /\ anonSeq'[Current(c)] = anonSeq[Current(c)]
  BY <1>1 DEF Apart, SocketsKept
<1>3. GatewayState(c)
  BY DEF Apart, GatewayState
<1>4. GatewayInv(c)'
  BY GatewayKept DEF ClientInv, Apart
<1>5. SocketInv(c)'
  BY <1>3, SocketKept DEF ClientInv, Apart, EngineKept
<1>6. NumberInv(c)'
  BY <1>2, NumberKept DEF ClientInv, Apart, SessionKept
<1>7. SettleInv(c)'
  BY <1>2, SettleKept DEF ClientInv, Apart, SessionKept
<1>8. AbsentInv(c)'
  <2>1. \A x \in 1 .. Peer : down'[<<c, x>>] = down[<<c, x>>]
    BY DEF Apart, SocketsKept
  <2> QED
    BY <2>1, AbsentKept DEF ClientInv, Apart, SessionKept, EngineKept
<1>9. ReplyInv(c)'
  BY <1>2, ReplyKept DEF ClientInv, Apart, SessionKept, EngineKept
<1>10. WholeInv(c)'
  BY WholeKept DEF ClientInv, Apart, SessionKept, EngineKept
<1>11. SteadyInv(c)'
  <2>1. 1 \in 1 .. Peer
    BY SocketFacts
  <2>2. /\ up'[<<c, 1>>] = up[<<c, 1>>] /\ inbound'[<<c, 1>>] = inbound[<<c, 1>>]
        /\ down'[<<c, 1>>] = down[<<c, 1>>] /\ open'[<<c, 1>>] = open[<<c, 1>>]
    BY <2>1 DEF Apart, SocketsKept
  <2> QED
    BY <2>2, SteadyKept DEF ClientInv, Apart, SessionKept
<1>12. OrderInv(c)'
  <2>1. owner[c] # 0 => owner[c] \in 1 .. Peer
    <3>1. owner[c] \in 0 .. Peer
      BY DEF Types
    <3> QED
      BY <3>1, SocketFacts
  <2>2. owner[c] # 0 => rx'[<<c, owner[c]>>] = rx[<<c, owner[c]>>]
    BY <2>1 DEF Apart, SocketsKept
  <2> QED
    BY <2>2, OrderKept DEF ClientInv, Apart, SessionKept, EngineKept
<1> QED
  BY <1>4, <1>5, <1>6, <1>7, <1>8, <1>9, <1>10, <1>11, <1>12 DEF ClientInv

\* The connections of a client whose session does not change: frames keep their
\* shape, what must be unused stays so, and a connection is closed for a reason.
MustBeUnused(c, e) == (e # Peer /\ e > gw[c].epoch) \/ (e = Peer /\ peerSent[c] = 0)

LEMMA SocketStep ==
    ASSUME NEW c, SocketInv(c), gw'[c].epoch = gw[c].epoch,
           gw[c].state = "stopped" => gw'[c].state = "stopped",
           owner'[c] = owner[c], epoch'[c] = epoch[c], unknown'[c] = unknown[c],
           peerSent'[c] = peerSent[c],
           \A e \in 1 .. Peer :
              /\ FrameShape(up'[<<c, e>>], e) /\ FrameShape(inbound'[<<c, e>>], e)
              /\ MustBeUnused(c, e) => /\ up'[<<c, e>>] = up[<<c, e>>] /\ down'[<<c, e>>] = down[<<c, e>>]
                                       /\ inbound'[<<c, e>>] = inbound[<<c, e>>]
                                       /\ anonSeq'[<<c, e>>] = anonSeq[<<c, e>>]
              /\ open'[<<c, e>>] = open[<<c, e>>] \/ Closed(<<c, e>>)
    PROVE  SocketInv(c)'
<1>1. ASSUME NEW e \in 1 .. Peer, ~open'[<<c, e>>] PROVE Closed(<<c, e>>)'
  <2>1. Closed(<<c, e>>)
    BY <1>1 DEF SocketInv
  <2> QED
    BY <2>1 DEF Closed, Current
<1>2. Peer \in 1 .. Peer
  BY SocketFacts
<1>3. ASSUME NEW e \in 1 .. Peer PROVE MustBeUnused(c, e) => Unused(<<c, e>>)'
  <2>1. MustBeUnused(c, e) => Unused(<<c, e>>)
    BY DEF SocketInv, MustBeUnused
  <2> QED
    BY <2>1 DEF Unused
<1>4. /\ owner'[c] = Peer \/ owner'[c] <= gw'[c].epoch
      /\ owner'[c] # 0 => epoch'[c] # 0
      /\ owner'[c] \notin {0, Peer} => epoch'[c] = owner'[c]
      /\ unknown'[c] => owner'[c] = Peer
      /\ peerSent'[c] = 0 => owner'[c] # Peer
  BY DEF SocketInv
<1>5. peerSent'[c] = 0 => Unused(<<c, Peer>>)'
  BY <1>2, <1>3 DEF MustBeUnused
<1>6. ASSUME NEW e \in 1 .. Peer
      PROVE  /\ FrameShape(up[<<c, e>>], e)' /\ FrameShape(inbound[<<c, e>>], e)'
             /\ e # Peer /\ e > gw'[c].epoch => Unused(<<c, e>>)'
             /\ ~open'[<<c, e>>] => Closed(<<c, e>>)'
  <2>1. FrameShape(up[<<c, e>>], e)' /\ FrameShape(inbound[<<c, e>>], e)'
    BY DEF FrameShape
  <2>2. e # Peer /\ e > gw'[c].epoch => Unused(<<c, e>>)'
    BY <1>3 DEF MustBeUnused
  <2> QED
    BY <1>1, <2>1, <2>2
<1> QED
  BY <1>4, <1>5, <1>6 DEF SocketInv

LEMMA QueuesSame ==
    ASSUME Types, NEW c, pending' = pending, requestQ' = requestQ, responseQ' = responseQ
    PROVE  QueuesKept(c)
<1>1. pending \in Seq(Requests) /\ requestQ \in Seq(Requests) /\ responseQ \in Seq(Replies)
  BY DEF Types
<1>2. /\ SameFor(pending, pending, c, 0) /\ SameFor(requestQ, requestQ, c, 0)
      /\ SameFor(responseQ, responseQ, c, 0)
  BY <1>1, SameSelf
<1> QED
  BY <1>2 DEF QueuesKept

LEMMA TimeKept ==
    ASSUME Types, NEW s \in Sockets, TimeInv(s), up'[s] = up[s], rx'[s] = rx[s], clock' \in Nat, clock <= clock'
    PROVE  TimeInv(s)'
<1>1. PICK q \in Seq(UpFrames), x \in Nat, t \in Nat, u \in Nat :
         q = up[s] /\ x = rx[s] /\ t = clock /\ u = clock'
  BY DEF Types
<1>2. \A i \in 1 .. Len(q) : q[i].time \in Nat
  <2>1. \A i \in 1 .. Len(q) : q[i] \in UpFrames
    OBVIOUS
  <2> QED
    BY <2>1 DEF UpFrames
<1>3. /\ \A i \in 1 .. Len(q) : x <= q[i].time /\ q[i].time <= t
      /\ \A i, j \in 1 .. Len(q) : i < j => q[i].time <= q[j].time
      /\ x <= t /\ t <= u
  BY <1>1 DEF TimeInv
<1>4. (\A i \in 1 .. Len(q) : q[i].time <= u) /\ x <= u
  BY <1>2, <1>3
<1> QED
  BY <1>1, <1>3, <1>4 DEF TimeInv

LEMMA AcceptKept ==
    ASSUME AcceptInv, matched' = matched, requestQ' = requestQ, pending' = pending,
           accepted' = accepted, exPhase' = exPhase
    PROVE  AcceptInv'
BY DEF AcceptInv

\* A step of client c: its inputs concern no other client.
ClientStep(c) ==
    /\ \A d \in Clients \ {c} : gw'[d] = gw[d] /\ SocketsKept(d) /\ SessionKept(d) /\ EngineKept(d)
    /\ requestQ' = requestQ /\ responseQ' = responseQ
    /\ halted' = halted /\ exPhase' = exPhase

LEMMA ClientStepKeeps ==
    ASSUME SessionInv, Types', NEW c \in Clients, ClientStep(c),
           pending' = pending \/ \E r \in Requests : r.client = c /\ pending' = Append(pending, r)
    PROVE  \A d \in Clients \ {c} : ClientInv(d)'
<1>1. SUFFICES ASSUME NEW d \in Clients, d # c PROVE ClientInv(d)'
  OBVIOUS
<1>2. Types /\ ClientInv(d)
  BY DEF SessionInv
<1>3. pending \in Seq(Requests) /\ requestQ \in Seq(Requests) /\ responseQ \in Seq(Replies)
  BY <1>2 DEF Types
<1>4. SameFor(requestQ, requestQ', d, 0) /\ SameFor(responseQ, responseQ', d, 0)
  BY <1>3, SameSelf DEF ClientStep
<1>5. SameFor(pending, pending', d, 0)
  <2>1. CASE pending' = pending
    BY <1>3, <2>1, SameSelf
  <2>2. ASSUME NEW r \in Requests, r.client = c, pending' = Append(pending, r)
        PROVE  SameFor(pending, pending', d, 0)
    BY <1>1, <1>3, <2>2, SameAppend
  <2> QED
    BY <2>1, <2>2
<1>6. QueuesKept(d)
  BY <1>4, <1>5 DEF QueuesKept
<1>7. Apart(d)
  BY <1>1, <1>6 DEF Apart, ClientStep, LifeKept
<1> QED
  BY <1>2, <1>7, ApartKeeps

-------------------------------------------------------------------------------
(* The steps of a gateway.                                                    *)

\* The conjuncts about the acting client, with the rest of the system at hand.
LEMMA InvOf ==
    ASSUME SessionInv, NEW c \in Clients
    PROVE  /\ Types /\ Bounds /\ AcceptInv /\ (\A s \in Sockets : TimeInv(s))
           /\ GatewayInv(c) /\ SocketInv(c) /\ NumberInv(c) /\ SettleInv(c) /\ AbsentInv(c)
           /\ ReplyInv(c) /\ OrderInv(c) /\ WholeInv(c) /\ SteadyInv(c)
BY DEF SessionInv, ClientInv

\* Nothing but the gateway changes.
LEMMA RestKept ==
    ASSUME Types, NEW c \in Clients, NEW g, gw' = [gw EXCEPT ![c] = g], RestUnchanged
    PROVE  /\ ClientStep(c) /\ pending' = pending
           /\ SocketsKept(c) /\ SessionKept(c) /\ EngineKept(c) /\ QueuesKept(c) /\ LifeKept
           /\ AcceptInv => AcceptInv'
           /\ (\A s \in Sockets : TimeInv(s)) => \A s \in Sockets : TimeInv(s)'
           /\ gw'[c] = g
<1>1. UNCHANGED <<up, down, clock, inbound, rx, open, owner, epoch, unknown, accepted, expected, outSeq,
                 anonSeq, pending, requestQ, responseQ, exPhase, halted, matched, issued, peerSent>>
  BY DEF RestUnchanged, wireVars, serverVars, sessionVars, engineVars
<1>2. \A d \in Clients : SocketsKept(d) /\ SessionKept(d) /\ EngineKept(d)
  BY <1>1 DEF SocketsKept, SessionKept, EngineKept
<1>3. (\A d \in Clients \ {c} : gw'[d] = gw[d]) /\ gw'[c] = g
  BY DEF Types
<1>4. ClientStep(c)
  BY <1>1, <1>2, <1>3 DEF ClientStep
<1>5. QueuesKept(c)
  BY <1>1, QueuesSame
<1>6. AcceptInv => AcceptInv'
  BY <1>1, AcceptKept
<1>7. LifeKept
  BY <1>1 DEF LifeKept
<1>8. (\A s \in Sockets : TimeInv(s)) => \A s \in Sockets : TimeInv(s)'
  BY <1>1 DEF TimeInv
<1> QED
  BY <1>1, <1>2, <1>3, <1>4, <1>5, <1>6, <1>7, <1>8

LEMMA LocalKeeps ==
    ASSUME SessionInv, NEW c \in Clients, LocalStep(c)
    PROVE  SessionInv'
<1>1. /\ Types /\ Bounds /\ AcceptInv /\ (\A s \in Sockets : TimeInv(s))
      /\ GatewayInv(c) /\ SocketInv(c) /\ NumberInv(c) /\ SettleInv(c) /\ AbsentInv(c)
      /\ ReplyInv(c) /\ OrderInv(c) /\ WholeInv(c) /\ SteadyInv(c)
  BY InvOf
<1>2. PICK g \in Gateways :
                 /\ gw' = [gw EXCEPT ![c] = g]
                 /\ g.epoch = gw[c].epoch /\ g.next = gw[c].next /\ g.expected = gw[c].expected
                 /\ g.got = gw[c].got /\ g.pending = gw[c].pending
                 /\ gw[c].state = "stopped" => g.state = "stopped"
                 /\ g.healthy => gw[c].healthy
                 /\ \/ /\ g.queue = Append(gw[c].queue, gw[c].submitted + 1)
                       /\ g.submitted = gw[c].submitted + 1
                       /\ g.state # "stopped"
                    \/ /\ g.queue = gw[c].queue /\ g.submitted = gw[c].submitted
                       /\ g.state = "stopped" /\ g.healthy /\ gw[c].state # "stopped" =>
                             g.queue = <<>> /\ g.pending = 0
  BY <1>1, LocalEffect
<1>3. RestUnchanged
  BY <1>1, LocalEffect
<1>4. Types' /\ Bounds'
  BY <1>1, TypesLocal
<1>5. /\ ClientStep(c) /\ pending' = pending
      /\ SocketsKept(c) /\ SessionKept(c) /\ EngineKept(c) /\ QueuesKept(c) /\ LifeKept
      /\ AcceptInv' /\ (\A s \in Sockets : TimeInv(s)') /\ gw'[c] = g
  BY <1>1, <1>2, <1>3, RestKept
<1>6. \A d \in Clients \ {c} : ClientInv(d)'
  BY <1>4, <1>5, ClientStepKeeps
<1>7. PICK h \in Gateways : h = gw[c]
  BY <1>1 DEF Types
<1>8. GatewayInv(c)'
  <2>1. PICK q \in Seq(Nat \ {0}), n \in Nat, k \in Nat : q = h.queue /\ n = h.next /\ k = h.submitted
    BY <1>7 DEF Gateways
  <2>2. /\ n - 1 + Len(q) = k /\ (\A i \in 1 .. Len(q) : q[i] = n - 1 + i)
        /\ h.pending = n - 1 - Total(h.got, Settling)
        /\ h.state = "stopped" /\ h.healthy => q = <<>> /\ h.pending = 0
    BY <1>1, <1>7, <2>1 DEF GatewayInv
  <2>3. n - 1 + Len(g.queue) = g.submitted /\ \A i \in 1 .. Len(g.queue) : g.queue[i] = n - 1 + i
    <3>1. CASE g.queue = Append(q, k + 1) /\ g.submitted = k + 1
      <4>1. PICK x \in Nat \ {0} : x = k + 1
        OBVIOUS
      <4>2. /\ Len(Append(q, x)) = Len(q) + 1 /\ Append(q, x)[Len(q) + 1] = x
            /\ \A i \in 1 .. Len(q) : Append(q, x)[i] = q[i]
        BY AppendType
      <4>3. PICK m \in Nat : m = Len(q)
        OBVIOUS
      <4>4. Len(g.queue) = m + 1 /\ g.queue[m + 1] = x /\ \A i \in 1 .. m : g.queue[i] = q[i]
        BY <3>1, <4>1, <4>2, <4>3
      <4>5. x = n - 1 + (m + 1) /\ \A i \in 1 .. m : q[i] = n - 1 + i
        BY <2>2, <4>1, <4>3
      <4>6. \A i \in 1 .. m + 1 : i \in 1 .. m \/ i = m + 1
        OBVIOUS
      <4>7. \A i \in 1 .. m + 1 : g.queue[i] = n - 1 + i
        BY <4>4, <4>5, <4>6
      <4> QED
        BY <3>1, <4>1, <4>4, <4>5, <4>7
    <3>2. CASE g.queue = q /\ g.submitted = k
      BY <2>2, <3>2
    <3> QED
      BY <1>2, <1>7, <2>1, <3>1, <3>2
  <2>4. g.state = "stopped" /\ g.healthy => g.queue = <<>> /\ g.pending = 0
    BY <1>2, <1>7, <2>1, <2>2
  <2>5. g.pending = n - 1 - Total(g.got, Settling) /\ g.next = n
    BY <1>2, <1>7, <2>1, <2>2
  <2> QED
    BY <1>5, <2>3, <2>4, <2>5 DEF GatewayInv
<1>9. GatewayState(c)
  BY <1>2, <1>5 DEF GatewayState
<1>10. PICK e \in 1 .. Peer : Current(c) = <<c, e>>
  <2>1. gw[c].epoch \in 1 .. Peer
    BY <1>1, CurrentSocket, SocketFacts
  <2> QED
    BY <2>1 DEF Current
<1>11. /\ up'[Current(c)] = up[Current(c)] /\ inbound'[Current(c)] = inbound[Current(c)]
       /\ down'[Current(c)] = down[Current(c)] /\ open'[Current(c)] = open[Current(c)]
       /\ anonSeq'[Current(c)] = anonSeq[Current(c)]
  BY <1>5, <1>10 DEF SocketsKept
<1>12. SocketInv(c)'
  BY <1>1, <1>5, <1>9, SocketKept DEF EngineKept
<1>13. NumberInv(c)'
  BY <1>1, <1>5, <1>9, <1>11, NumberKept DEF SessionKept, GatewayState
<1>14. SettleInv(c)'
  BY <1>1, <1>5, <1>9, <1>11, SettleKept DEF SessionKept, GatewayState
<1>15. AbsentInv(c)'
  <2>1. \A x \in 1 .. Peer : down'[<<c, x>>] = down[<<c, x>>]
    BY <1>5 DEF SocketsKept
  <2> QED
    BY <1>1, <1>5, <1>9, <2>1, AbsentKept DEF SessionKept, EngineKept, GatewayState
<1>16. ReplyInv(c)'
  BY <1>1, <1>4, <1>5, <1>9, <1>11, ReplyKept DEF SessionKept, EngineKept, GatewayState
<1>17. OrderInv(c)'
  <2>1. owner[c] # 0 => rx'[<<c, owner[c]>>] = rx[<<c, owner[c]>>]
    BY <1>3 DEF RestUnchanged, serverVars
  <2> QED
    BY <1>1, <1>4, <1>5, <2>1, OrderKept DEF SessionKept, EngineKept
<1>18. WholeInv(c)'
  BY <1>1, <1>4, <1>5, WholeKept DEF SessionKept, EngineKept
<1>19. SteadyInv(c)'
  <2>1. 1 \in 1 .. Peer
    BY SocketFacts
  <2>2. /\ up'[<<c, 1>>] = up[<<c, 1>>] /\ inbound'[<<c, 1>>] = inbound[<<c, 1>>]
        /\ down'[<<c, 1>>] = down[<<c, 1>>] /\ open'[<<c, 1>>] = open[<<c, 1>>]
    BY <1>5, <2>1 DEF SocketsKept
  <2>3. ASSUME gw'[c].state # "stopped" PROVE gw'[c].healthy = gw[c].healthy
    <3>1. ~GatewayDone(c) /\ ~GatewayLost(c)
      <4>1. \A x : gw' = [gw EXCEPT ![c].state = "stopped", ![c].healthy = x] => gw'[c].state = "stopped"
        BY <1>1, <1>7 DEF Types, Gateways
      <4>2. gw' = [gw EXCEPT ![c].state = "stopped"] => gw'[c].state = "stopped"
        BY <1>1, <1>7 DEF Types, Gateways
      <4> QED
        BY <2>3, <4>1, <4>2 DEF GatewayDone, GatewayLost
    <3>2. Submit(c) \/ ClientTake(c) \/ GatewayStop(c)
      BY <3>1 DEF LocalStep
    <3>3. \/ gw'[c] = [h EXCEPT !.queue = Append(@, h.submitted + 1), !.submitted = @ + 1]
          \/ gw'[c] = [h EXCEPT !.unread = @ - 1]
          \/ gw'[c] = [h EXCEPT !.state = "stopping"]
      BY <1>1, <1>7, <3>2 DEF Submit, ClientTake, GatewayStop, Types
    <3> QED
      BY <1>7, <3>3 DEF Gateways
  <2>4. gw'[c].state # "stopped" => gw[c].state # "stopped"
    BY <1>9 DEF GatewayState
  <2> QED
    BY <1>1, <1>5, <1>9, <2>2, <2>3, <2>4, SteadyKept DEF SessionKept, GatewayState
<1>20. ClientInv(c)'
  BY <1>8, <1>12, <1>13, <1>14, <1>15, <1>16, <1>17, <1>18, <1>19 DEF ClientInv
<1> QED
  BY <1>4, <1>5, <1>6, <1>20 DEF SessionInv

LEMMA CurrentIs ==
    ASSUME Types, NEW c \in Clients
    PROVE  \E e \in 1 .. Peer : e = gw[c].epoch /\ e # Peer /\ Current(c) = <<c, e>>
<1>1. gw[c].epoch \in 1 .. MaxEpoch
  BY CurrentSocket
<1>2. gw[c].epoch \in 1 .. Peer /\ gw[c].epoch # Peer
  BY <1>1, SocketFacts
<1> QED
  BY <1>2 DEF Current

LEMMA CrashKeeps ==
    ASSUME SessionInv, NEW c \in Clients, Crash(c)
    PROVE  SessionInv'
<1>1. /\ Types /\ Bounds /\ AcceptInv /\ (\A s \in Sockets : TimeInv(s))
      /\ GatewayInv(c) /\ SocketInv(c) /\ NumberInv(c) /\ SettleInv(c) /\ AbsentInv(c)
      /\ ReplyInv(c) /\ OrderInv(c) /\ WholeInv(c) /\ SteadyInv(c)
  BY InvOf
<1>2. PICK e \in 1 .. MaxEpoch, k \in 1 .. MaxEpoch : k = gw[c].epoch /\ e = k + 1
  BY <1>1, CurrentSocket, CrashEffect
<1>3. PICK g \in Gateways : g = Session(e) /\ gw' = [gw EXCEPT ![c] = g]
  BY <1>1, <1>2, CrashEffect
<1>4. RestUnchanged /\ c \in Crashing
  BY <1>1, CrashEffect
<1>5. Types' /\ Bounds'
  BY <1>1, TypesLocal
<1>6. /\ ClientStep(c) /\ pending' = pending
      /\ SocketsKept(c) /\ SessionKept(c) /\ EngineKept(c) /\ QueuesKept(c) /\ LifeKept
      /\ AcceptInv' /\ (\A s \in Sockets : TimeInv(s)') /\ gw'[c] = g
  BY <1>1, <1>3, <1>4, RestKept
<1>7. \A d \in Clients \ {c} : ClientInv(d)'
  BY <1>5, <1>6, ClientStepKeeps
<1>8. /\ g.epoch = e /\ g.queue = <<>> /\ g.submitted = 0 /\ g.next = 1 /\ g.pending = 0
      /\ g.expected = 1 /\ g.healthy /\ g.state = "run" /\ g.got = <<>>
  BY <1>3 DEF Session
<1>9. e # Peer /\ k # Peer /\ e \in 1 .. Peer /\ k < e
  BY <1>2, SocketFacts
<1>10. PICK s \in Sockets : s = <<c, e>> /\ Current(c)' = s
  <2>1. <<c, e>> \in Sockets
    BY <1>9, SocketFacts
  <2> QED
    BY <1>6, <1>8, <2>1 DEF Current
<1>11. Unused(s) /\ Unused(s)'
  <2>1. Unused(s)
    BY <1>1, <1>2, <1>9, <1>10 DEF SocketInv
  <2> QED
    BY <1>6, <1>9, <1>10, <2>1 DEF Unused, SocketsKept
<1>12. /\ owner'[c] # e /\ owner'[c] = owner[c] /\ epoch'[c] = epoch[c] /\ unknown'[c] = unknown[c]
       /\ owner[c] \in 0 .. Peer /\ (owner[c] = Peer \/ owner[c] <= k)
  <2>1. owner[c] \in 0 .. Peer
    BY <1>1 DEF Types
  <2>2. owner[c] = Peer \/ owner[c] <= k
    BY <1>1, <1>2 DEF SocketInv
  <2>3. owner[c] # e
    BY <1>9, <2>1, <2>2, SocketFacts
  <2> QED
    BY <1>6, <2>1, <2>2, <2>3 DEF SessionKept
<1>13. GatewayInv(c)'
  <2>1. Len(g.queue) = 0 /\ Total(g.got, Settling) = 0
    BY <1>8, TotalEmpty
  <2> QED
    BY <1>6, <1>8, <2>1 DEF GatewayInv
<1>14. SocketInv(c)'
  <2>1. ASSUME NEW x \in 1 .. Peer
        PROVE  /\ FrameShape(up[<<c, x>>], x)' /\ FrameShape(inbound[<<c, x>>], x)'
               /\ x # Peer /\ x > gw'[c].epoch => Unused(<<c, x>>)'
               /\ ~open'[<<c, x>>] => Closed(<<c, x>>)'
    <3>1. /\ FrameShape(up[<<c, x>>], x) /\ FrameShape(inbound[<<c, x>>], x)
          /\ x # Peer /\ x > k => Unused(<<c, x>>)
          /\ ~open[<<c, x>>] => Closed(<<c, x>>)
      BY <1>1, <1>2 DEF SocketInv
    <3>2. FrameShape(up[<<c, x>>], x)' /\ FrameShape(inbound[<<c, x>>], x)'
      BY <1>6, <3>1 DEF FrameShape, SocketsKept
    <3>3. x > e => x > k
      BY <1>9
    <3>4. Unused(<<c, x>>) => Unused(<<c, x>>)'
      BY <1>6 DEF Unused, SocketsKept
    <3>5. ~open'[<<c, x>>] => x < e
      <4>1. Closed(<<c, x>>) => x <= k
        BY <1>2 DEF Closed, Current
      <4> QED
        BY <1>6, <1>9, <3>1, <4>1 DEF SocketsKept
    <3>6. x < e => Closed(<<c, x>>)'
      BY <1>6, <1>8 DEF Closed
    <3> QED
      BY <1>6, <1>8, <3>1, <3>2, <3>3, <3>4, <3>5, <3>6
  <2>2. owner'[c] = Peer \/ owner'[c] <= gw'[c].epoch
    BY <1>6, <1>8, <1>9, <1>12, SocketFacts
  <2>3. gw'[c].epoch # 1
    BY <1>6, <1>8, <1>9
  <2>4. Unused(<<c, Peer>>) => Unused(<<c, Peer>>)'
    <3>1. Peer \in 1 .. Peer
      BY SocketFacts
    <3> QED
      BY <1>6, <3>1 DEF Unused, SocketsKept
  <2>5. /\ owner'[c] # 0 => epoch'[c] # 0
        /\ owner'[c] \notin {0, Peer} => epoch'[c] = owner'[c]
        /\ unknown'[c] => owner'[c] = Peer
        /\ peerSent'[c] = 0 => owner'[c] # Peer /\ Unused(<<c, Peer>>)'
    BY <1>1, <1>6, <1>12, <2>4 DEF SocketInv, EngineKept
  <2> QED
    BY <2>1, <2>2, <2>3, <2>5 DEF SocketInv
<1>15. NumberInv(c)'
  <2>1. down'[s] = <<>> /\ anonSeq'[s] = 1 /\ Len(down'[s]) = 0
    BY <1>11 DEF Unused
  <2>2. NextNumber(c)' = 1
    BY <1>6, <1>8, <1>10, <1>12, <2>1 DEF NextNumber
  <2> QED
    BY <1>6, <1>8, <1>10, <2>1, <2>2 DEF NumberInv
<1>16. SettleInv(c)'
  <2>1. /\ down'[s] = <<>> /\ up'[s] = <<>> /\ inbound'[s] = <<>>
    BY <1>11 DEF Unused
  <2>2. AtExchange(c)' = 0
    BY <1>6, <1>8, <1>12 DEF AtExchange
  <2>3. Total(g.got, Settling) = 0 /\ Total(down'[s], SettlingFrames) = 0
        /\ Len(up'[s]) = 0 /\ Len(inbound'[s]) = 0
    BY <1>8, <2>1, TotalEmpty
  <2> QED
    BY <1>6, <1>8, <1>10, <2>2, <2>3 DEF SettleInv
<1>17. AbsentInv(c)'
  <2>1. Total(g.got, Genuine) = 0
    BY <1>8, TotalEmpty
  <2>2. \A x \in 1 .. Peer : down'[<<c, x>>] = down[<<c, x>>]
    BY <1>6 DEF SocketsKept
  <2>3. requestQ' = requestQ /\ responseQ' = responseQ
    BY <1>6 DEF ClientStep
  <2> QED
    BY <1>1, <1>6, <2>1, <2>2, <2>3 DEF AbsentInv, SessionKept, EngineKept
<1>18. ReplyInv(c)'
  <2>1. down'[s] = <<>> /\ Len(down'[s]) = 0 /\ Len(g.got) = 0
    BY <1>8, <1>11 DEF Unused
  <2>2. responseQ' = responseQ
    BY <1>6 DEF ClientStep
  <2>3. \A i \in 1 .. Len(responseQ') : responseQ'[i].client = c =>
           responseQ'[i].resp.epoch = epoch'[c] /\ responseQ'[i].resp.rid # 0
    BY <1>1, <1>12, <2>2 DEF ReplyInv
  <2> QED
    BY <1>6, <1>8, <1>10, <1>12, <2>1, <2>3 DEF ReplyInv
<1>19. OrderInv(c)'
  <2>1. owner[c] # 0 => rx'[<<c, owner[c]>>] = rx[<<c, owner[c]>>]
    BY <1>4 DEF RestUnchanged, serverVars
  <2> QED
    BY <1>1, <1>5, <1>6, <2>1, OrderKept DEF SessionKept, EngineKept
<1>20. WholeInv(c)'
  BY <1>1, <1>5, <1>6, WholeKept DEF SessionKept, EngineKept
<1>21. SteadyInv(c)'
  <2>1. gw'[c].epoch # 1
    BY <1>2, <1>6, <1>8
  <2> QED
    BY <2>1 DEF SteadyInv, Steady
<1>22. ClientInv(c)'
  BY <1>13, <1>14, <1>15, <1>16, <1>17, <1>18, <1>19, <1>20, <1>21 DEF ClientInv
<1> QED
  BY <1>5, <1>6, <1>7, <1>22 DEF SessionInv

\* A sequence with one frame more.
LEMMA ShapeAppend ==
    ASSUME NEW q \in Seq(UpFrames), NEW f \in UpFrames, NEW e, FrameShape(q, e), f.id = f.seq,
           e # Peer => f.type = "NEW" /\ f.epoch = e
    PROVE  FrameShape(Append(q, f), e)
<1>1. PICK n \in Nat, w \in Seq(UpFrames) : n = Len(q) /\ w = Append(q, f)
  BY AppendType
<1>2. Len(w) = n + 1 /\ w[n + 1] = f /\ \A i \in 1 .. n : w[i] = q[i]
  BY <1>1, AppendType
<1>3. \A i \in 1 .. n + 1 : i \in 1 .. n \/ i = n + 1
  OBVIOUS
<1>4. \A i \in 1 .. n : q[i].id = q[i].seq /\ (e # Peer => q[i].type = "NEW" /\ q[i].epoch = e)
  BY <1>1 DEF FrameShape
<1>5. \A i \in 1 .. n + 1 : w[i].id = w[i].seq /\ (e # Peer => w[i].type = "NEW" /\ w[i].epoch = e)
  BY <1>2, <1>3, <1>4
<1> QED
  BY <1>1, <1>2, <1>5 DEF FrameShape

\* A frame that arrives now.
LEMMA TimeAppend ==
    ASSUME Types, NEW s \in Sockets, NEW f \in UpFrames, TimeInv(s), f.time = clock',
           up'[s] = Append(up[s], f), rx'[s] = rx[s], clock' \in Nat, clock <= clock'
    PROVE  TimeInv(s)'
<1>1. PICK q \in Seq(UpFrames), x \in Nat, t \in Nat, z \in Nat :
         q = up[s] /\ x = rx[s] /\ t = clock /\ z = clock' /\ t <= z
  BY DEF Types
<1>2. PICK n \in Nat, w \in Seq(UpFrames) : n = Len(q) /\ w = Append(q, f)
  BY AppendType
<1>3. Len(w) = n + 1 /\ w[n + 1] = f /\ \A i \in 1 .. n : w[i] = q[i]
  BY <1>2, AppendType
<1>4. \A i \in 1 .. n : q[i].time \in Nat
  <2>1. \A i \in 1 .. n : q[i] \in UpFrames
    BY <1>2
  <2> QED
    BY <2>1 DEF UpFrames
<1>5. /\ \A i \in 1 .. n : x <= q[i].time /\ q[i].time <= t
      /\ \A i, j \in 1 .. n : i < j => q[i].time <= q[j].time
      /\ x <= t
  BY <1>1, <1>2 DEF TimeInv
<1>6. \A i \in 1 .. n + 1 : i \in 1 .. n \/ i = n + 1
  OBVIOUS
<1>7. f.time = z
  BY <1>1
<1>8. ASSUME NEW i \in 1 .. n + 1 PROVE w[i].time \in Nat /\ x <= w[i].time /\ w[i].time <= z
  <2>1. CASE i \in 1 .. n
    <3>1. PICK k \in Nat : k = q[i].time
      BY <1>4, <2>1
    <3>2. x <= k /\ k <= t
      BY <1>5, <2>1, <3>1
    <3>3. x <= k /\ k <= z
      BY <1>1, <3>2
    <3> QED
      BY <1>3, <2>1, <3>1, <3>3
  <2>2. CASE i = n + 1
    <3>1. x <= z /\ z <= z /\ z \in Nat
      BY <1>1, <1>5
    <3> QED
      BY <1>3, <1>7, <2>2, <3>1
  <2> QED
    BY <1>6, <2>1, <2>2
<1>9. ASSUME NEW i \in 1 .. n + 1, NEW j \in 1 .. n + 1, i < j PROVE w[i].time <= w[j].time
  <2>1. i \in 1 .. n /\ w[i] = q[i]
    BY <1>3, <1>9
  <2>2. CASE j \in 1 .. n
    BY <1>3, <1>5, <1>9, <2>1, <2>2
  <2>3. CASE j = n + 1
    <3>1. w[j].time = z
      BY <1>3, <1>7, <2>3
    <3> QED
      BY <1>8, <3>1
  <2> QED
    BY <1>6, <2>2, <2>3
<1>10. x <= z
  BY <1>1, <1>5
<1>11. up'[s] = w /\ Len(w) = n + 1 /\ rx'[s] = x /\ clock' = z
  BY <1>1, <1>2, <1>3
<1>12. \A i \in 1 .. Len(up'[s]) : rx'[s] <= up'[s][i].time /\ up'[s][i].time <= clock'
  BY <1>8, <1>11
<1>13. \A i, j \in 1 .. Len(up'[s]) : i < j => up'[s][i].time <= up'[s][j].time
  BY <1>9, <1>11
<1> QED
  BY <1>10, <1>11, <1>12, <1>13 DEF TimeInv

LEMMA SendKeeps ==
    ASSUME SessionInv, NEW c \in Clients, GatewaySend(c)
    PROVE  SessionInv'
<1>1. /\ Types /\ Bounds /\ AcceptInv /\ (\A s \in Sockets : TimeInv(s))
      /\ GatewayInv(c) /\ SocketInv(c) /\ NumberInv(c) /\ SettleInv(c) /\ AbsentInv(c)
      /\ ReplyInv(c) /\ OrderInv(c) /\ WholeInv(c) /\ SteadyInv(c)
  BY InvOf
<1>2. PICK g \in Gateways :
                 /\ gw' = [gw EXCEPT ![c] = g]
                 /\ g.epoch = gw[c].epoch /\ g.next = gw[c].next + 1 /\ g.expected = gw[c].expected
                 /\ g.got = gw[c].got /\ g.pending = gw[c].pending + 1 /\ g.queue = Tail(gw[c].queue)
                 /\ g.submitted = gw[c].submitted
                 /\ g.state = gw[c].state /\ g.healthy = gw[c].healthy
  BY <1>1, SendEffect
<1>3. PICK f \in UpFrames :
                 /\ up' = [up EXCEPT ![Current(c)] = Append(@, f)]
                 /\ f.type = "NEW" /\ f.epoch = gw[c].epoch /\ f.seq = gw[c].next
                 /\ f.id = Head(gw[c].queue) /\ f.time = clock'
  BY <1>1, SendEffect
<1>4. gw[c].queue # <<>> /\ gw[c].state # "stopped" /\ clock' \in Nat /\ clock <= clock'
  BY <1>1, SendEffect
<1>5. UNCHANGED <<down, inbound, rx, open, owner, epoch, unknown, accepted, expected, outSeq,
                 anonSeq, pending, requestQ, responseQ, exPhase, halted, matched, issued, peerSent>>
  BY DEF GatewaySend, serverVars, sessionVars, engineVars
<1>6. Types' /\ Bounds'
  BY <1>1, TypesSend
<1>7. PICK e \in 1 .. Peer : e = gw[c].epoch /\ e # Peer /\ Current(c) = <<c, e>>
  BY <1>1, CurrentIs
<1>8. PICK s \in Sockets : s = <<c, e>>
  BY <1>7, SocketFacts
<1>9. /\ up'[<<c, e>>] = Append(up[<<c, e>>], f)
      /\ \A y \in 1 .. Peer : y # e => up'[<<c, y>>] = up[<<c, y>>]
      /\ \A d \in Clients \ {c} : \A y \in 1 .. Peer : up'[<<d, y>>] = up[<<d, y>>]
  <2>1. PICK x : x = Append(up[<<c, e>>], f)
    OBVIOUS
  <2>2. up \in [Sockets -> Seq(UpFrames)] /\ up' = [up EXCEPT ![<<c, e>>] = x]
    BY <1>1, <1>3, <1>7, <2>1 DEF Types
  <2> QED
    BY <2>1, <2>2, SocketFacts
<1>10. (\A d \in Clients \ {c} : gw'[d] = gw[d]) /\ gw'[c] = g
  BY <1>1, <1>2 DEF Types
<1>11. ClientStep(c)
  BY <1>5, <1>9, <1>10 DEF ClientStep, SocketsKept, SessionKept, EngineKept
<1>12. \A d \in Clients \ {c} : ClientInv(d)'
  BY <1>5, <1>6, <1>11, ClientStepKeeps
<1>13. AcceptInv'
  BY <1>1, <1>5, AcceptKept
<1>14. ASSUME NEW t \in Sockets PROVE TimeInv(t)'
  <2>1. PICK d \in Clients, y \in 1 .. Peer : t = <<d, y>>
    BY SocketFacts
  <2>2. CASE t = s
    BY <1>1, <1>3, <1>4, <1>5, <1>8, <1>9, <2>2, TimeAppend
  <2>3. CASE t # s
    <3>1. up'[t] = up[t]
      BY <1>8, <1>9, <2>1, <2>3
    <3>2. clock \in Nat /\ clock' \in Nat /\ clock <= clock'
      BY <1>1, <1>4 DEF Types
    <3> QED
      BY <1>1, <1>5, <3>1, <3>2, TimeKept
  <2> QED
    BY <2>2, <2>3
<1>15. PICK h \in Gateways : h = gw[c]
  BY <1>1 DEF Types
<1>16. PICK q \in Seq(Nat \ {0}), n \in Nat, k \in Nat :
          q = h.queue /\ n = h.next /\ k = h.submitted /\ q # <<>>
  BY <1>4, <1>15 DEF Gateways
<1>17. /\ n - 1 + Len(q) = k /\ (\A i \in 1 .. Len(q) : q[i] = n - 1 + i)
       /\ h.pending = n - 1 - Total(h.got, Settling)
  BY <1>1, <1>15, <1>16 DEF GatewayInv
<1>18. /\ Head(q) = q[1] /\ 1 \in 1 .. Len(q) /\ Len(Tail(q)) = Len(q) - 1 /\ Len(q) \in Nat \ {0}
       /\ \A i \in 1 .. Len(q) - 1 : Tail(q)[i] = q[i + 1]
  BY <1>16, TailType
<1>19. f.id = f.seq /\ f.seq = n
  <2>1. q[1] = n - 1 + 1
    BY <1>17, <1>18
  <2> QED
    BY <1>3, <1>15, <1>16, <1>18, <2>1
<1>20. GatewayInv(c)'
  <2>1. PICK m \in Nat : m = Len(q)
    OBVIOUS
  <2>2. g.queue = Tail(q) /\ g.next = n + 1 /\ g.submitted = k
    BY <1>2, <1>15, <1>16
  <2>3. (n + 1) - 1 + (m - 1) = k
    BY <1>17, <1>18, <2>1
  <2>4. ASSUME NEW i \in 1 .. m - 1 PROVE Tail(q)[i] = (n + 1) - 1 + i
    <3>1. i + 1 \in 1 .. m
      BY <2>1
    <3>2. q[i + 1] = n - 1 + (i + 1)
      BY <1>17, <2>1, <3>1
    <3> QED
      BY <1>18, <2>1, <3>2
  <2>5. g.pending = (n + 1) - 1 - Total(g.got, Settling)
    <3>1. Total(h.got, Settling) \in Nat
      <4>1. h.got \in Seq(Responses)
        BY <1>15 DEF Gateways
      <4> QED
        BY <4>1, TotalNat
    <3>2. g.pending = h.pending + 1 /\ g.got = h.got
      BY <1>2, <1>15
    <3> QED
      BY <1>17, <3>1, <3>2
  <2>6. g.state # "stopped"
    BY <1>2, <1>4
  <2> QED
    BY <1>10, <1>18, <2>1, <2>2, <2>3, <2>4, <2>5, <2>6 DEF GatewayInv
<1>21. SocketInv(c)'
  <2>1. ASSUME NEW y \in 1 .. Peer
        PROVE  /\ FrameShape(up'[<<c, y>>], y) /\ FrameShape(inbound'[<<c, y>>], y)
               /\ MustBeUnused(c, y) => up'[<<c, y>>] = up[<<c, y>>]
    <3>1. FrameShape(up[<<c, y>>], y) /\ FrameShape(inbound[<<c, y>>], y)
      BY <1>1 DEF SocketInv
    <3>2. CASE y = e
      <4>1. up[<<c, e>>] \in Seq(UpFrames)
        BY <1>1, <1>8 DEF Types
      <4>2. FrameShape(up'[<<c, y>>], y)
        BY <1>3, <1>7, <1>9, <1>19, <3>1, <3>2, <4>1, ShapeAppend
      <4>3. ~MustBeUnused(c, y)
        BY <1>7, <3>2 DEF MustBeUnused
      <4> QED
        BY <1>5, <3>1, <4>2, <4>3
    <3>3. CASE y # e
      BY <1>5, <1>9, <3>1, <3>3
    <3> QED
      BY <3>2, <3>3
  <2>2. gw'[c].epoch = gw[c].epoch /\ (gw[c].state = "stopped" => gw'[c].state = "stopped")
    BY <1>2, <1>10
  <2> QED
    BY <1>1, <1>5, <2>1, <2>2, SocketStep
<1>22. QueuesKept(c)
  BY <1>1, <1>5, QueuesSame
<1>23. NumberInv(c)'
  BY <1>1, <1>2, <1>5, <1>10, NumberKept
<1>24. SettleInv(c)'
  <2>1. PICK a \in Nat, b \in Nat, u \in Nat, v \in Nat :
           /\ a = Total(h.got, Settling) /\ b = Total(down[s], SettlingFrames)
           /\ u = Len(up[s]) /\ v = Len(inbound[s])
    <3>1. h.got \in Seq(Responses)
      BY <1>15 DEF Gateways
    <3>2. down[s] \in Seq(DownFrames) /\ Len(up[s]) \in Nat /\ Len(inbound[s]) \in Nat
      BY <1>1, <1>8, BufferLengths
    <3> QED
      BY <3>1, <3>2, TotalNat
  <2>2. PICK z : z = AtExchange(c)
    OBVIOUS
  <2>3. AtExchange(c)' = z
    BY <1>2, <1>5, <1>10, <2>2 DEF AtExchange
  <2>4. z \in Nat
    <3>1. AtExchange(c) \in Nat
      BY <1>1, AtExchangeNat
    <3> QED
      BY <2>2, <3>1 DEF AtExchange
  <2>5. a + b + u + v + z <= n - 1
    BY <1>1, <1>7, <1>8, <1>15, <1>16, <2>1, <2>2 DEF SettleInv
  <2>6. Len(up'[s]) = u + 1
    <3>1. up[s] \in Seq(UpFrames)
      BY <1>1 DEF Types
    <3> QED
      BY <1>3, <1>8, <1>9, <2>1, <3>1, AppendType
  <2>7. a + b + (u + 1) + v + z <= (n + 1) - 1
    BY <2>4, <2>5
  <2>8. Current(c)' = s
    BY <1>2, <1>7, <1>8, <1>10 DEF Current
  <2>9. gw'[c].got = h.got /\ gw'[c].next = n + 1
    BY <1>2, <1>10, <1>15, <1>16
  <2> QED
    BY <1>5, <2>1, <2>3, <2>6, <2>7, <2>8, <2>9 DEF SettleInv
<1>25. AbsentInv(c)'
  BY <1>1, <1>2, <1>5, <1>10, <1>22, AbsentKept
<1>26. ReplyInv(c)'
  BY <1>1, <1>2, <1>5, <1>6, <1>10, <1>22, ReplyKept
<1>27. OrderInv(c)'
  BY <1>1, <1>5, <1>6, <1>22, OrderKept
<1>28. WholeInv(c)'
  BY <1>1, <1>5, <1>6, <1>22, WholeKept
<1>29. SteadyInv(c)'
  <2>1. SUFFICES ASSUME Steady(c) PROVE SteadyInv(c)'
    BY <1>2, <1>5, <1>10 DEF SteadyInv, Steady
  <2>2. e = 1 /\ s = <<c, 1>>
    BY <1>7, <1>8, <2>1 DEF Steady
  <2>3. PICK x \in Nat, u \in Nat, v \in Nat :
           x = expected[c] /\ u = Len(up[s]) /\ v = Len(inbound[s]) /\ up[s] \in Seq(UpFrames)
    <3>1. expected[c] \in Nat
      BY <1>1 DEF Types
    <3> QED
      BY <1>1, <1>8, <3>1, BufferLengths
  <2>4. n = x + v + u /\ \A i \in 1 .. u : up[s][i].seq = x + v + i - 1
    BY <1>1, <1>15, <1>16, <2>1, <2>2, <2>3 DEF SteadyInv
  <2>5. Len(up'[s]) = u + 1 /\ up'[s][u + 1] = f /\ \A i \in 1 .. u : up'[s][i] = up[s][i]
    <3>1. PICK w \in Seq(UpFrames) : w = up[s]
      BY <2>3
    <3>2. /\ Len(Append(w, f)) = Len(w) + 1 /\ Append(w, f)[Len(w) + 1] = f
          /\ \A i \in 1 .. Len(w) : Append(w, f)[i] = w[i]
      BY <1>3, AppendType
    <3> QED
      BY <1>8, <1>9, <2>3, <3>1, <3>2
  <2>6. n + 1 = x + v + (u + 1) /\ n = x + v + (u + 1) - 1
    BY <2>4
  <2>7. \A i \in 1 .. u + 1 : up'[s][i].seq = x + v + i - 1
    <3>1. \A i \in 1 .. u + 1 : i \in 1 .. u \/ i = u + 1
      OBVIOUS
    <3> QED
      BY <1>19, <2>4, <2>5, <2>6, <3>1
  <2>8. gw'[c].next = n + 1 /\ gw'[c].epoch = 1 /\ gw'[c].healthy = gw[c].healthy
        /\ gw'[c].state = gw[c].state
    BY <1>2, <1>7, <1>10, <1>15, <1>16, <2>2
  <2>9. PICK t : t = <<c, 1>>
    OBVIOUS
  <2>10. /\ \A i \in 1 .. Len(up'[t]) : up'[t][i].seq = expected'[c] + Len(inbound'[t]) + i - 1
         /\ gw'[c].next = expected'[c] + Len(inbound'[t]) + Len(up'[t])
    BY <1>5, <2>2, <2>3, <2>5, <2>6, <2>7, <2>8, <2>9
  <2>11. /\ owner[c] # Peer /\ gw[c].healthy /\ open[t]
         /\ \A i \in 1 .. Len(inbound[t]) : inbound[t][i].seq = expected[c] + i - 1
         /\ \A i \in 1 .. Len(down[t]) : down[t][i].resp.type \in {"ANSWER", "FILLED"}
         /\ \A i \in 1 .. Len(responseQ) :
               responseQ[i].client = c => responseQ[i].resp.type \in {"ANSWER", "FILLED"}
    BY <1>1, <2>1, <2>9 DEF SteadyInv
  <2>12. /\ owner'[c] # Peer /\ gw'[c].healthy /\ open'[t]
         /\ \A i \in 1 .. Len(inbound'[t]) : inbound'[t][i].seq = expected'[c] + i - 1
         /\ \A i \in 1 .. Len(down'[t]) : down'[t][i].resp.type \in {"ANSWER", "FILLED"}
         /\ \A i \in 1 .. Len(responseQ') :
               responseQ'[i].client = c => responseQ'[i].resp.type \in {"ANSWER", "FILLED"}
    BY <1>5, <2>8, <2>11
  <2> QED
    BY <2>9, <2>10, <2>12 DEF SteadyInv
<1>30. ClientInv(c)'
  BY <1>20, <1>21, <1>23, <1>24, <1>25, <1>26, <1>27, <1>28, <1>29 DEF ClientInv
<1> QED
  BY <1>6, <1>12, <1>13, <1>14, <1>30 DEF SessionInv

\* A sequence without its head.
LEMMA TailParts ==
    ASSUME NEW T, NEW q \in Seq(T), q # <<>>
    PROVE  /\ Tail(q) \in Seq(T) /\ Head(q) = q[1] /\ Head(q) \in T
           /\ \E l \in Nat : /\ Len(q) = l + 1 /\ Len(Tail(q)) = l /\ 1 \in 1 .. l + 1
                             /\ \A i \in 1 .. l : Tail(q)[i] = q[i + 1]
<1>1. Tail(q) \in Seq(T) /\ Len(Tail(q)) = Len(q) - 1 /\ Len(q) \in Nat \ {0} /\ Head(q) = q[1] /\ Head(q) \in T
  BY TailType
<1>2. PICK k : k = Len(q) /\ k \in Nat \ {0}
  BY <1>1
<1>3. PICK l \in Nat : k = l + 1 /\ k - 1 = l /\ 1 \in 1 .. l + 1
  <2>1. k - 1 \in Nat /\ k = (k - 1) + 1 /\ 1 \in 1 .. (k - 1) + 1
    BY <1>2
  <2> QED
    BY <2>1
<1>4. \A i \in 1 .. Len(q) - 1 : Tail(q)[i] = q[i + 1]
  BY TailType
<1> QED
  BY <1>1, <1>2, <1>3, <1>4


LEMMA RecvKeeps ==
    ASSUME SessionInv, NEW c \in Clients, GatewayRecv(c)
    PROVE  SessionInv'
<1>1. /\ Types /\ Bounds /\ AcceptInv /\ (\A s \in Sockets : TimeInv(s))
      /\ GatewayInv(c) /\ SocketInv(c) /\ NumberInv(c) /\ SettleInv(c) /\ AbsentInv(c)
      /\ ReplyInv(c) /\ OrderInv(c) /\ WholeInv(c) /\ SteadyInv(c)
  BY InvOf
<1>2. PICK e \in 1 .. Peer : e = gw[c].epoch /\ e # Peer /\ Current(c) = <<c, e>>
  BY <1>1, CurrentIs
<1>3. PICK s \in Sockets : s = <<c, e>> /\ s = Current(c)
  BY <1>2, SocketFacts
<1>4. PICK q \in Seq(DownFrames) : q = down[s] /\ q # <<>>
  <2>1. down[s] # <<>>
    BY <1>3 DEF GatewayRecv
  <2> QED
    BY <1>1, <2>1, BufferLengths
<1>5. PICK f \in DownFrames : f = Head(q) /\ f.resp \in Responses
  BY <1>1, <1>3, <1>4, RecvEffect
<1>6. PICK r \in Responses : r = f.resp
  BY <1>5
<1>7. PICK g \in Gateways :
         /\ gw' = [gw EXCEPT ![c] = g]
         /\ g.epoch = gw[c].epoch /\ g.next = gw[c].next
         /\ g.expected = gw[c].expected + 1 /\ g.got = Append(gw[c].got, r)
         /\ g.pending = gw[c].pending - (IF r \in Settling THEN 1 ELSE 0)
         /\ g.queue = gw[c].queue /\ g.submitted = gw[c].submitted
         /\ g.state = gw[c].state /\ g.healthy = (gw[c].healthy /\ r.type \notin Fatal)
  BY <1>1, <1>3, <1>4, <1>5, <1>6, RecvEffect
<1>8. down' = [down EXCEPT ![s] = Tail(q)] /\ gw[c].state # "stopped"
  BY <1>1, <1>3, <1>4, RecvEffect
<1>9. UNCHANGED <<up, clock, inbound, rx, open, owner, epoch, unknown, accepted, expected, outSeq,
                 anonSeq, pending, requestQ, responseQ, exPhase, halted, matched, issued, peerSent>>
  BY DEF GatewayRecv, serverVars, sessionVars, engineVars
<1>10. Types' /\ Bounds'
  BY <1>1, TypesRecv
<1>11. /\ down'[<<c, e>>] = Tail(q)
       /\ \A y \in 1 .. Peer : y # e => down'[<<c, y>>] = down[<<c, y>>]
       /\ \A d \in Clients \ {c} : \A y \in 1 .. Peer : down'[<<d, y>>] = down[<<d, y>>]
  <2>1. PICK x : x = Tail(q)
    OBVIOUS
  <2>2. down \in [Sockets -> Seq(DownFrames)] /\ down' = [down EXCEPT ![<<c, e>>] = x]
    BY <1>1, <1>3, <1>8, <2>1 DEF Types
  <2> QED
    BY <2>1, <2>2, SocketFacts
<1>12. (\A d \in Clients \ {c} : gw'[d] = gw[d]) /\ gw'[c] = g
  BY <1>1, <1>7 DEF Types
<1>13. ClientStep(c)
  BY <1>9, <1>11, <1>12 DEF ClientStep, SocketsKept, SessionKept, EngineKept
<1>14. \A d \in Clients \ {c} : ClientInv(d)'
  BY <1>9, <1>10, <1>13, ClientStepKeeps
<1>15. AcceptInv'
  BY <1>1, <1>9, AcceptKept
<1>16. \A t \in Sockets : TimeInv(t)'
  BY <1>1, <1>9 DEF TimeInv
<1>17. PICK h \in Gateways : h = gw[c]
  BY <1>1 DEF Types
<1>18. PICK w \in Seq(Responses), p \in Nat, x \in Nat, n \in Nat :
          w = h.got /\ p = h.pending /\ x = h.expected /\ n = h.next
  BY <1>17 DEF Gateways
<1>19. PICK v \in Seq(Responses), m \in Nat :
          /\ v = Append(w, r) /\ m = Len(w) /\ Len(v) = m + 1 /\ v[m + 1] = r
          /\ \A i \in 1 .. m : v[i] = w[i]
  <2>1. PICK m \in Nat : m = Len(w)
    OBVIOUS
  <2>2. PICK v : v = Append(w, r)
    OBVIOUS
  <2>3. /\ v \in Seq(Responses) /\ Len(v) = m + 1 /\ v[m + 1] = r
        /\ \A i \in 1 .. m : v[i] = w[i]
    BY <2>1, <2>2, AppendType
  <2> QED
    BY <2>1, <2>2, <2>3
<1>20. PICK u \in Seq(DownFrames), l \in Nat :
          /\ u = Tail(q) /\ Len(q) = l + 1 /\ Len(u) = l /\ f = q[1] /\ 1 \in 1 .. l + 1
          /\ \A i \in 1 .. l : u[i] = q[i + 1]
  <2>1. PICK u : u = Tail(q)
    OBVIOUS
  <2>2. u \in Seq(DownFrames) /\ f = q[1]
    BY <1>4, <1>5, <2>1, TailParts
  <2>3. PICK l \in Nat : /\ Len(q) = l + 1 /\ Len(u) = l /\ 1 \in 1 .. l + 1
                         /\ \A i \in 1 .. l : u[i] = q[i + 1]
    BY <1>4, <2>1, TailParts
  <2> QED
    BY <2>1, <2>2, <2>3
<1>21. down'[s] = u /\ Current(c)' = s
  BY <1>2, <1>3, <1>7, <1>11, <1>12, <1>20 DEF Current
<1>22. g.got = v /\ g.epoch = e /\ g.expected = x + 1 /\ g.next = n
       /\ g.pending = p - (IF r \in Settling THEN 1 ELSE 0)
  BY <1>2, <1>7, <1>17, <1>18, <1>19
<1>23. QueuesKept(c)
  BY <1>1, <1>9, QueuesSame
<1>24. GatewayInv(c)'
  <2>1. PICK a \in Nat : a = Total(w, Settling)
    BY TotalNat
  <2>2. PICK k \in {0, 1} : k = IF r \in Settling THEN 1 ELSE 0
    OBVIOUS
  <2>3. Total(v, Settling) = a + k
    BY <1>19, <2>1, <2>2, TotalAppend
  <2>4. p = n - 1 - a
    BY <1>1, <1>17, <1>18, <2>1 DEF GatewayInv
  <2>5. g.pending = n - 1 - Total(v, Settling)
    BY <1>22, <2>2, <2>3, <2>4
  <2>6. g.state # "stopped" /\ g.queue = gw[c].queue /\ g.submitted = gw[c].submitted /\ g.next = gw[c].next
    BY <1>7, <1>8
  <2> QED
    BY <1>1, <1>12, <1>22, <2>5, <2>6 DEF GatewayInv
<1>25. SocketInv(c)'
  <2>1. ASSUME NEW y \in 1 .. Peer
        PROVE  /\ FrameShape(up'[<<c, y>>], y) /\ FrameShape(inbound'[<<c, y>>], y)
               /\ MustBeUnused(c, y) => down'[<<c, y>>] = down[<<c, y>>]
    <3>1. FrameShape(up[<<c, y>>], y) /\ FrameShape(inbound[<<c, y>>], y)
      BY <1>1 DEF SocketInv
    <3>2. MustBeUnused(c, y) => y # e
      BY <1>2 DEF MustBeUnused
    <3> QED
      BY <1>9, <1>11, <3>1, <3>2
  <2>2. gw'[c].epoch = gw[c].epoch /\ (gw[c].state = "stopped" => gw'[c].state = "stopped")
    BY <1>7, <1>12
  <2> QED
    BY <1>1, <1>9, <2>1, <2>2, SocketStep
<1>26. NumberInv(c)'
  <2>1. /\ \A i \in 1 .. l + 1 : q[i].seq = x + i - 1 /\ q[i].epoch = e
        /\ open[s] => NextNumber(c) = x + (l + 1)
    <3>1. gw[c].epoch = e /\ gw[c].expected = x /\ down[Current(c)] = q /\ Current(c) = s
      BY <1>2, <1>3, <1>4, <1>17, <1>18
    <3>2. /\ \A i \in 1 .. Len(q) : q[i].seq = x + i - 1 /\ q[i].epoch = e
          /\ open[s] => NextNumber(c) = x + Len(q)
      BY <1>1, <3>1 DEF NumberInv
    <3> QED
      BY <1>20, <3>2
  <2>2. ASSUME NEW i \in 1 .. l PROVE u[i].seq = (x + 1) + i - 1 /\ u[i].epoch = e
    <3>1. i + 1 \in 1 .. l + 1 /\ x + (i + 1) - 1 = (x + 1) + i - 1
      OBVIOUS
    <3> QED
      BY <1>20, <2>1, <3>1
  <2>3. NextNumber(c)' = NextNumber(c)
    BY <1>2, <1>3, <1>9, <1>12, <1>21, <1>22 DEF NextNumber
  <2>4. x + (l + 1) = (x + 1) + l
    OBVIOUS
  <2> QED
    BY <1>9, <1>12, <1>20, <1>21, <1>22, <2>1, <2>2, <2>3, <2>4 DEF NumberInv
<1>27. r \in Settling <=> f \in SettlingFrames
  BY <1>5, <1>6 DEF Settling, SettlingFrames
<1>28. r \in Genuine <=> f \in GenuineFrames
  BY <1>5, <1>6 DEF Genuine, GenuineFrames
<1>29. SettleInv(c)'
  <2>1. PICK a \in Nat, b \in Nat : a = Total(w, Settling) /\ b = Total(u, SettlingFrames)
    BY TotalNat
  <2>2. PICK k \in {0, 1} : k = IF r \in Settling THEN 1 ELSE 0
    OBVIOUS
  <2>3. Total(v, Settling) = a + k
    BY <1>19, <2>1, <2>2, TotalAppend
  <2>4. Total(q, SettlingFrames) = b + k
    BY <1>4, <1>5, <1>20, <1>27, <2>1, <2>2, TotalTail
  <2>5. PICK y \in Nat, z \in Nat : y = Len(up[s]) /\ z = Len(inbound[s])
    BY <1>1, BufferLengths
  <2>6. PICK t : t = AtExchange(c) /\ t = AtExchange(c)'
    BY <1>2, <1>9, <1>12, <1>22 DEF AtExchange
  <2>7. t \in Nat
    BY <1>1, <2>6, AtExchangeNat
  <2>8. a + (b + k) + y + z + t <= n - 1
    BY <1>1, <1>3, <1>4, <1>17, <1>18, <2>1, <2>4, <2>5, <2>6 DEF SettleInv
  <2>9. (a + k) + b + y + z + t <= n - 1
    BY <2>7, <2>8
  <2> QED
    BY <1>9, <1>12, <1>21, <1>22, <2>1, <2>3, <2>5, <2>6, <2>9 DEF SettleInv
<1>30. AbsentInv(c)'
  <2>1. SUFFICES ASSUME owner[c] = 0 PROVE AbsentInv(c)'
    BY <1>9 DEF AbsentInv
  <2>2. Total(w, Genuine) = 0 /\ \A y \in 1 .. Peer : Total(down[<<c, y>>], GenuineFrames) = 0
    BY <1>1, <1>17, <1>18, <2>1 DEF AbsentInv
  <2>3. PICK b \in Nat : b = Total(u, GenuineFrames)
    BY TotalNat
  <2>4. Total(q, GenuineFrames) = b + (IF f \in GenuineFrames THEN 1 ELSE 0)
    BY <1>4, <1>5, <1>20, <2>3, TotalTail
  <2>5. Total(q, GenuineFrames) = 0
    BY <1>2, <1>3, <1>4, <2>2
  <2>6. f \notin GenuineFrames /\ b = 0
    BY <2>4, <2>5
  <2>7. Total(v, Genuine) = 0
    <3>1. Total(v, Genuine) = Total(w, Genuine) + IF r \in Genuine THEN 1 ELSE 0
      BY <1>19, TotalAppend
    <3> QED
      BY <1>28, <2>2, <2>6, <3>1
  <2>8. \A y \in 1 .. Peer : Total(down'[<<c, y>>], GenuineFrames) = 0
    BY <1>3, <1>11, <1>20, <2>2, <2>3, <2>6
  <2> QED
    BY <1>1, <1>9, <1>12, <1>22, <2>1, <2>7, <2>8 DEF AbsentInv
<1>31. ReplyInv(c)'
  <2>1. PICK a \in Nat, b \in Nat : a = Total(w, Genuine) /\ b = Total(u, GenuineFrames)
    BY TotalNat
  <2>2. PICK k \in {0, 1} : k = IF r \in Genuine THEN 1 ELSE 0
    OBVIOUS
  <2>3. /\ Total(v, Genuine) = a + k /\ Count(v, Genuine, m + 1) = a + k
        /\ \A i \in 1 .. m : Count(v, Genuine, i) = Count(w, Genuine, i)
    <3>1. /\ Total(Append(w, r), Genuine) = a + k
          /\ \A i \in 1 .. Len(w) : Count(Append(w, r), Genuine, i) = Count(w, Genuine, i)
          /\ Count(Append(w, r), Genuine, Len(w) + 1) = a + k
      BY <2>1, <2>2, TotalAppend
    <3> QED
      BY <1>19, <3>1
  <2>4. /\ Total(q, GenuineFrames) = b + k /\ Count(q, GenuineFrames, 1) = k
        /\ \A i \in 1 .. l : Count(q, GenuineFrames, i + 1) = Count(u, GenuineFrames, i) + k
    <3>1. Len(q) - 1 = l
      BY <1>20
    <3>2. Total(q, GenuineFrames) = b + k
      BY <1>4, <1>5, <1>20, <1>28, <2>1, <2>2, <3>1, TotalTail
    <3>3. Count(q, GenuineFrames, 1) = k
      BY <1>4, <1>5, <1>20, <1>28, <2>1, <2>2, <3>1, TotalTail
    <3>4. \A i \in 1 .. l : Count(q, GenuineFrames, i + 1) = Count(u, GenuineFrames, i) + k
      BY <1>4, <1>5, <1>20, <1>28, <2>1, <2>2, <3>1, TotalTail
    <3> QED
      BY <3>2, <3>3, <3>4
  <2>5. /\ \A i \in 1 .. m : w[i].rid # 0 => w[i].rid = Count(w, Genuine, i) /\ w[i].epoch = e
        /\ \A i \in 1 .. l + 1 :
              q[i].resp.rid # 0 => /\ q[i].resp.rid = a + Count(q, GenuineFrames, i)
                                   /\ q[i].resp.epoch = e
    <3>1. gw[c].got = w /\ gw[c].epoch = e /\ down[Current(c)] = q /\ Len(w) = m /\ Len(q) = l + 1
      BY <1>2, <1>3, <1>4, <1>17, <1>18, <1>19, <1>20
    <3> QED
      BY <1>1, <2>1, <3>1 DEF ReplyInv
  <2>6. ASSUME NEW i \in 1 .. m + 1, v[i].rid # 0
        PROVE  v[i].rid = Count(v, Genuine, i) /\ v[i].epoch = e
    <3>1. CASE i \in 1 .. m
      BY <1>19, <2>3, <2>5, <2>6, <3>1
    <3>2. CASE i = m + 1
      <4>1. v[i] = r /\ q[1].resp = r
        BY <1>6, <1>19, <1>20, <3>2
      <4>2. r \in Genuine
        BY <2>6, <4>1 DEF Genuine
      <4>3. r.rid = a + k /\ r.epoch = e
        BY <1>20, <2>4, <2>5, <2>6, <4>1
      <4> QED
        BY <2>3, <3>2, <4>1, <4>3
    <3> QED
      BY <3>1, <3>2
  <2>7. ASSUME NEW i \in 1 .. l, u[i].resp.rid # 0
        PROVE  u[i].resp.rid = (a + k) + Count(u, GenuineFrames, i) /\ u[i].resp.epoch = e
    <3>1. i \in Nat /\ i + 1 \in 1 .. l + 1 /\ u[i] = q[i + 1]
      BY <1>20
    <3>2. PICK y \in Nat : y = Count(u, GenuineFrames, i)
      BY <3>1, CountType
    <3>3. q[i + 1].resp.rid = a + (y + k) /\ q[i + 1].resp.epoch = e
      BY <2>4, <2>5, <2>7, <3>1, <3>2
    <3> QED
      BY <3>1, <3>2, <3>3
  <2>8. (a + k) + b = a + (b + k)
    OBVIOUS
  <2>9. /\ \A i \in 1 .. Len(responseQ) : responseQ[i].client = c =>
              /\ responseQ[i].resp.epoch = epoch[c] /\ responseQ[i].resp.rid # 0
              /\ owner[c] = e => responseQ[i].resp.rid = a + (b + k) + Count(responseQ, RepliesTo(c), i)
        /\ owner[c] = e => issued[c] = a + (b + k) + Total(responseQ, RepliesTo(c))
    BY <1>1, <1>2, <1>3, <1>4, <1>17, <1>18, <2>1, <2>4 DEF ReplyInv
  <2>10. Total(gw'[c].got, Genuine) = a + k /\ Total(down'[s], GenuineFrames) = b
    BY <1>12, <1>21, <1>22, <2>1, <2>3
  <2>11. PICK z : z = (a + k) + b /\ z = a + (b + k)
    BY <2>8
  <2>12. /\ \A i \in 1 .. Len(gw'[c].got) : gw'[c].got[i].rid # 0 =>
               gw'[c].got[i].rid = Count(gw'[c].got, Genuine, i) /\ gw'[c].got[i].epoch = gw'[c].epoch
         /\ \A i \in 1 .. Len(down'[s]) : down'[s][i].resp.rid # 0 =>
               /\ down'[s][i].resp.rid = (a + k) + Count(down'[s], GenuineFrames, i)
               /\ down'[s][i].resp.epoch = gw'[c].epoch
    <3>1. gw'[c].got = v /\ gw'[c].epoch = e /\ down'[s] = u /\ Len(v) = m + 1 /\ Len(u) = l
      BY <1>12, <1>19, <1>20, <1>21, <1>22
    <3> QED
      BY <2>6, <2>7, <3>1
  <2>13. /\ \A i \in 1 .. Len(responseQ') : responseQ'[i].client = c =>
               /\ responseQ'[i].resp.epoch = epoch'[c] /\ responseQ'[i].resp.rid # 0
               /\ owner'[c] = gw'[c].epoch => responseQ'[i].resp.rid = z + Count(responseQ', RepliesTo(c), i)
         /\ owner'[c] = gw'[c].epoch => issued'[c] = z + Total(responseQ', RepliesTo(c))
    BY <1>9, <1>12, <1>22, <2>9, <2>11
  <2> QED
    BY <1>21, <2>10, <2>11, <2>12, <2>13 DEF ReplyInv
<1>32. OrderInv(c)'
  BY <1>1, <1>9, <1>10, <1>23, OrderKept
<1>33. WholeInv(c)'
  BY <1>1, <1>9, <1>10, <1>23, WholeKept
<1>34. SteadyInv(c)'
  <2>1. SUFFICES ASSUME Steady(c) PROVE SteadyInv(c)'
    BY <1>7, <1>9, <1>12 DEF SteadyInv, Steady
  <2>2. e = 1 /\ s = <<c, 1>>
    BY <1>2, <1>3, <2>1 DEF Steady
  <2>3. \A i \in 1 .. l + 1 : q[i].resp.type \in {"ANSWER", "FILLED"}
    BY <1>1, <1>4, <1>20, <2>1, <2>2 DEF SteadyInv
  <2>4. \A i \in 1 .. l : i + 1 \in 1 .. l + 1
    OBVIOUS
  <2>5. \A i \in 1 .. l : u[i].resp.type \in {"ANSWER", "FILLED"}
    BY <1>20, <2>3, <2>4
  <2>6. r.type \notin Fatal
    BY <1>6, <1>20, <2>3 DEF Fatal
  <2>7. gw'[c].healthy = gw[c].healthy /\ gw'[c].state = gw[c].state /\ gw'[c].next = gw[c].next
        /\ gw'[c].epoch = 1
    <3>1. h.healthy \in BOOLEAN
      BY <1>17 DEF Gateways
    <3> QED
      BY <1>2, <1>7, <1>12, <1>17, <2>2, <2>6, <3>1
  <2> QED
    BY <1>1, <1>9, <1>20, <1>21, <2>1, <2>2, <2>5, <2>7 DEF SteadyInv
<1>35. ClientInv(c)'
  BY <1>24, <1>25, <1>26, <1>29, <1>30, <1>31, <1>32, <1>33, <1>34 DEF ClientInv
<1> QED
  BY <1>10, <1>14, <1>15, <1>16, <1>35 DEF SessionInv

-------------------------------------------------------------------------------
(* The second connection.                                                     *)

LEMMA PeerSendKeeps ==
    ASSUME SessionInv, NEW c \in Clients, PeerSend(c)
    PROVE  SessionInv'
<1>1. /\ Types /\ Bounds /\ AcceptInv /\ (\A s \in Sockets : TimeInv(s))
      /\ GatewayInv(c) /\ SocketInv(c) /\ NumberInv(c) /\ SettleInv(c) /\ AbsentInv(c)
      /\ ReplyInv(c) /\ OrderInv(c) /\ WholeInv(c) /\ SteadyInv(c)
  BY InvOf
<1>2. PICK f \in UpFrames : /\ up' = [up EXCEPT ![<<c, Peer>>] = Append(@, f)]
                            /\ f.id = f.seq /\ f.time = clock'
  BY <1>1, PeerEffect
<1>3. clock' \in Nat /\ clock <= clock' /\ peerSent' = [peerSent EXCEPT ![c] = @ + 1]
  BY <1>1, PeerEffect
<1>4. UNCHANGED <<gw, down, inbound, rx, open, owner, epoch, unknown, accepted, expected, outSeq,
                 anonSeq, pending, requestQ, responseQ, exPhase, halted, matched, issued>>
  BY DEF PeerSend, serverVars, sessionVars
<1>5. Types' /\ Bounds'
  BY <1>1, TypesPeer
<1>6. Peer \in 1 .. Peer
  BY SocketFacts
<1>7. PICK e \in 1 .. Peer : e = gw[c].epoch /\ e # Peer /\ Current(c) = <<c, e>>
  BY <1>1, CurrentIs
<1>8. PICK s \in Sockets : s = <<c, Peer>>
  BY <1>6, SocketFacts
<1>9. /\ up'[<<c, Peer>>] = Append(up[<<c, Peer>>], f)
      /\ \A y \in 1 .. Peer : y # Peer => up'[<<c, y>>] = up[<<c, y>>]
      /\ \A d \in Clients \ {c} : \A y \in 1 .. Peer : up'[<<d, y>>] = up[<<d, y>>]
  <2>1. PICK x : x = Append(up[<<c, Peer>>], f)
    OBVIOUS
  <2>2. up \in [Sockets -> Seq(UpFrames)] /\ up' = [up EXCEPT ![<<c, Peer>>] = x]
    BY <1>1, <1>2, <2>1 DEF Types
  <2> QED
    BY <1>6, <2>1, <2>2, SocketFacts
<1>10. (\A d \in Clients \ {c} : peerSent'[d] = peerSent[d]) /\ peerSent'[c] # 0
  <2>1. peerSent \in [Clients -> Nat]
    BY <1>1 DEF Types
  <2>2. PICK k \in Nat : k = peerSent[c]
    BY <2>1
  <2>3. peerSent'[c] = k + 1 /\ k + 1 # 0 /\ \A d \in Clients \ {c} : peerSent'[d] = peerSent[d]
    BY <1>3, <2>1, <2>2
  <2> QED
    BY <2>3
<1>11. ClientStep(c)
  BY <1>4, <1>9, <1>10 DEF ClientStep, SocketsKept, SessionKept, EngineKept
<1>12. \A d \in Clients \ {c} : ClientInv(d)'
  BY <1>4, <1>5, <1>11, ClientStepKeeps
<1>13. AcceptInv'
  BY <1>1, <1>4, AcceptKept
<1>14. ASSUME NEW t \in Sockets PROVE TimeInv(t)'
  <2>1. PICK d \in Clients, y \in 1 .. Peer : t = <<d, y>>
    BY SocketFacts
  <2>2. CASE t = s
    BY <1>1, <1>2, <1>3, <1>4, <1>8, <1>9, <2>2, TimeAppend
  <2>3. CASE t # s
    <3>1. up'[t] = up[t]
      BY <1>8, <1>9, <2>1, <2>3
    <3>2. clock \in Nat /\ clock' \in Nat /\ clock <= clock'
      BY <1>1, <1>3 DEF Types
    <3> QED
      BY <1>1, <1>4, <3>1, <3>2, TimeKept
  <2> QED
    BY <2>2, <2>3
<1>15. QueuesKept(c)
  BY <1>1, <1>4, QueuesSame
<1>16. SocketInv(c)'
  <2>1. ASSUME NEW y \in 1 .. Peer
        PROVE  /\ FrameShape(up[<<c, y>>], y)' /\ FrameShape(inbound[<<c, y>>], y)'
               /\ y # Peer /\ y > gw'[c].epoch => Unused(<<c, y>>)'
               /\ ~open'[<<c, y>>] => Closed(<<c, y>>)'
    <3>1. /\ FrameShape(up[<<c, y>>], y) /\ FrameShape(inbound[<<c, y>>], y)
          /\ y # Peer /\ y > gw[c].epoch => Unused(<<c, y>>)
          /\ ~open[<<c, y>>] => Closed(<<c, y>>)
      BY <1>1 DEF SocketInv
    <3>2. FrameShape(up'[<<c, y>>], y)
      <4>1. CASE y = Peer
        <5>1. up[<<c, Peer>>] \in Seq(UpFrames)
          BY <1>1, <1>8, BufferLengths
        <5> QED
          BY <1>2, <1>9, <3>1, <4>1, <5>1, ShapeAppend
      <4>2. CASE y # Peer
        BY <1>9, <3>1, <4>2
      <4> QED
        BY <4>1, <4>2
    <3>3. FrameShape(up[<<c, y>>], y)' /\ FrameShape(inbound[<<c, y>>], y)'
      BY <1>4, <3>1, <3>2 DEF FrameShape
    <3>4. y # Peer /\ y > gw'[c].epoch => Unused(<<c, y>>)'
      BY <1>4, <1>9, <3>1 DEF Unused
    <3>5. ~open'[<<c, y>>] => Closed(<<c, y>>)'
      BY <1>4, <3>1 DEF Closed, Current
    <3> QED
      BY <3>3, <3>4, <3>5
  <2>2. /\ owner'[c] = Peer \/ owner'[c] <= gw'[c].epoch
        /\ owner'[c] # 0 => epoch'[c] # 0
        /\ owner'[c] \notin {0, Peer} => epoch'[c] = owner'[c]
        /\ unknown'[c] => owner'[c] = Peer
    BY <1>1, <1>4 DEF SocketInv
  <2> QED
    BY <1>10, <2>1, <2>2 DEF SocketInv
<1>17. GatewayInv(c)'
  BY <1>1, <1>4, GatewayKept
<1>18. NumberInv(c)'
  BY <1>1, <1>4, NumberKept
<1>19. SettleInv(c)'
  BY <1>1, <1>4, <1>7, <1>9, <1>15, SettleKept
<1>20. AbsentInv(c)'
  BY <1>1, <1>4, <1>15, AbsentKept
<1>21. ReplyInv(c)'
  BY <1>1, <1>4, <1>5, <1>15, ReplyKept
<1>22. OrderInv(c)'
  BY <1>1, <1>4, <1>5, <1>15, OrderKept
<1>23. WholeInv(c)'
  BY <1>1, <1>4, <1>5, <1>10, <1>15, WholeKept
<1>24. SteadyInv(c)'
  <2>1. 1 \in 1 .. Peer /\ 1 # Peer
    BY SocketFacts
  <2>2. up'[<<c, 1>>] = up[<<c, 1>>]
    BY <1>9, <2>1
  <2> QED
    BY <1>1, <1>4, <1>15, <2>2, SteadyKept
<1>25. ClientInv(c)'
  BY <1>16, <1>17, <1>18, <1>19, <1>20, <1>21, <1>22, <1>23, <1>24 DEF ClientInv
<1> QED
  BY <1>5, <1>12, <1>13, <1>14, <1>25 DEF SessionInv

LEMMA PeerRecvKeeps ==
    ASSUME SessionInv, NEW c \in Clients, PeerRecv(c)
    PROVE  SessionInv'
<1>1. /\ Types /\ Bounds /\ AcceptInv /\ (\A s \in Sockets : TimeInv(s))
      /\ GatewayInv(c) /\ SocketInv(c) /\ NumberInv(c) /\ SettleInv(c) /\ AbsentInv(c)
      /\ ReplyInv(c) /\ OrderInv(c) /\ WholeInv(c) /\ SteadyInv(c)
  BY InvOf
<1>2. Peer \in 1 .. Peer
  BY SocketFacts
<1>3. PICK s \in Sockets : s = <<c, Peer>>
  BY <1>2, SocketFacts
<1>4. PICK q \in Seq(DownFrames) : q = down[s] /\ q # <<>>
  BY <1>1, <1>3, BufferLengths DEF PeerRecv
<1>5. UNCHANGED <<gw, up, clock, inbound, rx, open, owner, epoch, unknown, accepted, expected, outSeq,
                 anonSeq, pending, requestQ, responseQ, exPhase, halted, matched, issued, peerSent>>
  BY DEF PeerRecv, serverVars, sessionVars, engineVars
<1>6. Types' /\ Bounds'
  BY <1>1, TypesPeer
<1>7. PICK e \in 1 .. Peer : e = gw[c].epoch /\ e # Peer /\ Current(c) = <<c, e>>
  BY <1>1, CurrentIs
<1>8. /\ down'[<<c, Peer>>] = Tail(q)
      /\ \A y \in 1 .. Peer : y # Peer => down'[<<c, y>>] = down[<<c, y>>]
      /\ \A d \in Clients \ {c} : \A y \in 1 .. Peer : down'[<<d, y>>] = down[<<d, y>>]
  <2>1. PICK x : x = Tail(q)
    OBVIOUS
  <2>2. down \in [Sockets -> Seq(DownFrames)] /\ down' = [down EXCEPT ![<<c, Peer>>] = x]
    BY <1>1, <1>3, <1>4, <2>1 DEF Types, PeerRecv
  <2> QED
    BY <1>2, <2>1, <2>2, SocketFacts
<1>9. ClientStep(c)
  BY <1>5, <1>8 DEF ClientStep, SocketsKept, SessionKept, EngineKept
<1>10. \A d \in Clients \ {c} : ClientInv(d)'
  BY <1>5, <1>6, <1>9, ClientStepKeeps
<1>11. AcceptInv'
  BY <1>1, <1>5, AcceptKept
<1>12. \A t \in Sockets : TimeInv(t)'
  BY <1>1, <1>5 DEF TimeInv
<1>13. QueuesKept(c)
  BY <1>1, <1>5, QueuesSame
<1>14. GatewayInv(c)'
  BY <1>1, <1>5, GatewayKept
<1>15. SocketInv(c)'
  <2>1. ASSUME NEW y \in 1 .. Peer
        PROVE  /\ FrameShape(up'[<<c, y>>], y) /\ FrameShape(inbound'[<<c, y>>], y)
               /\ MustBeUnused(c, y) => down'[<<c, y>>] = down[<<c, y>>]
    <3>1. FrameShape(up[<<c, y>>], y) /\ FrameShape(inbound[<<c, y>>], y)
      BY <1>1 DEF SocketInv
    <3>2. peerSent[c] # 0
      BY <1>1, <1>3, <1>4 DEF SocketInv, Unused
    <3> QED
      BY <1>5, <1>8, <3>1, <3>2 DEF MustBeUnused
  <2> QED
    BY <1>1, <1>5, <2>1, SocketStep
<1>16. down'[Current(c)] = down[Current(c)]
  BY <1>7, <1>8
<1>17. NumberInv(c)'
  BY <1>1, <1>5, <1>16, NumberKept
<1>18. SettleInv(c)'
  BY <1>1, <1>5, <1>13, <1>16, SettleKept
<1>19. AbsentInv(c)'
  <2>1. SUFFICES ASSUME owner[c] = 0 PROVE AbsentInv(c)'
    BY <1>5 DEF AbsentInv
  <2>2. \A y \in 1 .. Peer : Total(down[<<c, y>>], GenuineFrames) = 0
    BY <1>1, <2>1 DEF AbsentInv
  <2>3. PICK b \in Nat : b = Total(Tail(q), GenuineFrames)
    <3>1. Tail(q) \in Seq(DownFrames)
      BY <1>4, TailParts
    <3> QED
      BY <3>1, TotalNat
  <2>4. Total(q, GenuineFrames) = b + (IF Head(q) \in GenuineFrames THEN 1 ELSE 0)
    BY <1>4, <2>3, TotalTail
  <2>5. b = 0
    BY <1>2, <1>3, <1>4, <2>2, <2>4
  <2>6. \A y \in 1 .. Peer : Total(down'[<<c, y>>], GenuineFrames) = 0
    BY <1>8, <2>2, <2>3, <2>5
  <2> QED
    BY <1>1, <1>5, <2>1, <2>6 DEF AbsentInv
<1>20. ReplyInv(c)'
  BY <1>1, <1>5, <1>6, <1>13, <1>16, ReplyKept
<1>21. OrderInv(c)'
  BY <1>1, <1>5, <1>6, <1>13, OrderKept
<1>22. WholeInv(c)'
  BY <1>1, <1>5, <1>6, <1>13, WholeKept
<1>23. SteadyInv(c)'
  <2>1. 1 \in 1 .. Peer /\ 1 # Peer
    BY SocketFacts
  <2>2. down'[<<c, 1>>] = down[<<c, 1>>]
    BY <1>8, <2>1
  <2> QED
    BY <1>1, <1>5, <1>13, <2>2, SteadyKept
<1>24. ClientInv(c)'
  BY <1>14, <1>15, <1>17, <1>18, <1>19, <1>20, <1>21, <1>22, <1>23 DEF ClientInv
<1> QED
  BY <1>6, <1>10, <1>11, <1>12, <1>24 DEF SessionInv

-------------------------------------------------------------------------------
(* The server reads and parses.                                               *)

\* n frames move from one buffer to the other.
Moved(u, b, v, w, n, k) ==
    /\ Len(u) = n + k /\ Len(v) = k /\ Len(w) = Len(b) + n
    /\ \A i \in 1 .. Len(b) : w[i] = b[i]
    /\ \A i \in 1 .. n : w[Len(b) + i] = u[i]
    /\ \A i \in 1 .. k : v[i] = u[n + i]

LEMMA MovedLemma ==
    ASSUME NEW u \in Seq(UpFrames), NEW b \in Seq(UpFrames), NEW n \in Nat, n <= Len(u)
    PROVE  \E k \in Nat : Moved(u, b, SubSeq(u, n + 1, Len(u)), b \o SubSeq(u, 1, n), n, k)
<1>1. PICK m \in Nat, l \in Nat : m = Len(u) /\ l = Len(b)
  OBVIOUS
<1>2. PICK k \in Nat : k = m - n /\ m = n + k
  <2>1. m - n \in Nat /\ m = n + (m - n)
    BY <1>1
  <2> QED
    BY <2>1
<1>3. PICK v, a : v = SubSeq(u, n + 1, Len(u)) /\ a = SubSeq(u, 1, n)
  OBVIOUS
<1>4. /\ a \in Seq(UpFrames) /\ Len(a) = n /\ Len(v) = k
      /\ (\A i \in 1 .. n : a[i] = u[i]) /\ (\A i \in 1 .. k : v[i] = u[n + i])
  <2>1. n \in 0 .. Len(u)
    BY <1>1
  <2> QED
    BY <1>1, <1>2, <1>3, <2>1, SplitSeq
<1>5. PICK w : w = b \o a
  OBVIOUS
<1>6. Len(w) = l + n /\ \A i \in 1 .. l + n : w[i] = IF i <= l THEN b[i] ELSE a[i - l]
  <2>1. a \in Seq(UpFrames) /\ Len(a) = n
    BY <1>4
  <2>2. /\ Len(b \o a) = Len(b) + Len(a)
        /\ \A i \in 1 .. Len(b) + Len(a) : (b \o a)[i] = IF i <= Len(b) THEN b[i] ELSE a[i - Len(b)]
    BY <2>1, ConcatProperties
  <2> QED
    BY <1>1, <1>5, <2>1, <2>2
<1>7. \A i \in 1 .. l : w[i] = b[i]
  BY <1>6
<1>8. ASSUME NEW i \in 1 .. n PROVE w[l + i] = u[i]
  <2>1. l + i \in 1 .. l + n /\ ~(l + i <= l) /\ (l + i) - l = i
    OBVIOUS
  <2>2. w[l + i] = a[i]
    BY <1>6, <2>1
  <2> QED
    BY <1>4, <2>2
<1>9. Moved(u, b, v, w, n, k)
  BY <1>1, <1>2, <1>4, <1>6, <1>7, <1>8 DEF Moved
<1> QED
  BY <1>3, <1>5, <1>9

LEMMA ReadKeeps ==
    ASSUME SessionInv, NEW s \in Sockets, ServerRead(s)
    PROVE  SessionInv'
<1>1. PICK c \in Clients, e \in 1 .. Peer : s = <<c, e>>
  BY SocketFacts
<1>2. /\ Types /\ Bounds /\ AcceptInv /\ (\A t \in Sockets : TimeInv(t))
      /\ GatewayInv(c) /\ SocketInv(c) /\ NumberInv(c) /\ SettleInv(c) /\ AbsentInv(c)
      /\ ReplyInv(c) /\ OrderInv(c) /\ WholeInv(c) /\ SteadyInv(c)
  BY InvOf
<1>3. PICK n \in Nat \ {0} :
              /\ n <= Len(up[s]) /\ Len(inbound[s]) + n <= WireCapacity
              /\ inbound' = [inbound EXCEPT ![s] = @ \o SubSeq(up[s], 1, n)]
              /\ rx' = [rx EXCEPT ![s] = up[s][n].time]
              /\ up' = [up EXCEPT ![s] = SubSeq(@, n + 1, Len(@))]
              /\ open[s] /\ Running
  BY <1>2, ReadEffect
<1>4. UNCHANGED <<gw, down, clock, open, owner, epoch, unknown, accepted, expected, outSeq,
                 anonSeq, pending, requestQ, responseQ, exPhase, halted, matched, issued, peerSent>>
  BY DEF ServerRead, sessionVars, engineVars
<1>5. Types' /\ Bounds'
  BY <1>2, TypesRead
<1>6. PICK u \in Seq(UpFrames), b \in Seq(UpFrames) : u = up[s] /\ b = inbound[s]
  BY <1>2, BufferLengths
<1>7. PICK v, w : v = SubSeq(u, n + 1, Len(u)) /\ w = b \o SubSeq(u, 1, n)
  OBVIOUS
<1>8. PICK k \in Nat : Moved(u, b, v, w, n, k)
  <2>1. n \in Nat /\ n <= Len(u)
    BY <1>3, <1>6
  <2> QED
    BY <1>7, <2>1, MovedLemma
<1>9. PICK l \in Nat : l = Len(b)
  OBVIOUS
<1>10. /\ Len(u) = n + k /\ Len(v) = k /\ Len(w) = l + n
       /\ (\A i \in 1 .. l : w[i] = b[i]) /\ (\A i \in 1 .. n : w[l + i] = u[i])
       /\ \A i \in 1 .. k : v[i] = u[n + i]
  BY <1>8, <1>9 DEF Moved
<1>11. /\ up'[<<c, e>>] = v /\ inbound'[<<c, e>>] = w /\ rx'[<<c, e>>] = u[n].time
       /\ \A y \in 1 .. Peer : y # e => /\ up'[<<c, y>>] = up[<<c, y>>] /\ rx'[<<c, y>>] = rx[<<c, y>>]
                                        /\ inbound'[<<c, y>>] = inbound[<<c, y>>]
       /\ \A d \in Clients \ {c} : \A y \in 1 .. Peer :
             /\ up'[<<d, y>>] = up[<<d, y>>] /\ rx'[<<d, y>>] = rx[<<d, y>>]
             /\ inbound'[<<d, y>>] = inbound[<<d, y>>]
  <2>1. PICK x : x = u[n].time
    OBVIOUS
  <2>2. /\ up \in [Sockets -> Seq(UpFrames)] /\ up' = [up EXCEPT ![<<c, e>>] = v]
        /\ inbound \in [Sockets -> Seq(UpFrames)] /\ inbound' = [inbound EXCEPT ![<<c, e>>] = w]
        /\ rx \in [Sockets -> Nat] /\ rx' = [rx EXCEPT ![<<c, e>>] = x]
    BY <1>1, <1>2, <1>3, <1>6, <1>7, <2>1 DEF Types
  <2> QED
    BY <2>1, <2>2, SocketFacts
<1>12. ClientStep(c)
  BY <1>4, <1>11 DEF ClientStep, SocketsKept, SessionKept, EngineKept
<1>13. \A d \in Clients \ {c} : ClientInv(d)'
  BY <1>4, <1>5, <1>12, ClientStepKeeps
<1>14. AcceptInv'
  BY <1>2, <1>4, AcceptKept
<1>15. /\ \A i \in 1 .. n + k : u[i].time \in Nat /\ rx[s] <= u[i].time /\ u[i].time <= clock
       /\ \A i, j \in 1 .. n + k : i < j => u[i].time <= u[j].time
       /\ n \in 1 .. n + k /\ rx[s] \in Nat
  <2>1. \A i \in 1 .. Len(u) : u[i] \in UpFrames
    OBVIOUS
  <2>2. \A i \in 1 .. n + k : u[i].time \in Nat
    BY <1>10, <2>1 DEF UpFrames
  <2>3. TimeInv(s) /\ rx[s] \in Nat
    BY <1>2 DEF Types
  <2>4. up[s] = u /\ Len(u) = n + k
    BY <1>6, <1>10
  <2>5. /\ \A i \in 1 .. n + k : rx[s] <= u[i].time /\ u[i].time <= clock
        /\ \A i, j \in 1 .. n + k : i < j => u[i].time <= u[j].time
    BY <2>3, <2>4 DEF TimeInv
  <2>6. n \in 1 .. n + k
    BY <1>3, <1>8
  <2> QED
    BY <2>2, <2>3, <2>5, <2>6
<1>16. TimeInv(s)'
  <2>1. PICK x \in Nat : x = u[n].time /\ x <= clock
    BY <1>15
  <2>2. ASSUME NEW i \in 1 .. k PROVE x <= v[i].time /\ v[i].time <= clock
    <3>1. n + i \in 1 .. n + k /\ n < n + i
      OBVIOUS
    <3> QED
      BY <1>10, <1>15, <2>1, <3>1
  <2>3. ASSUME NEW i \in 1 .. k, NEW j \in 1 .. k, i < j PROVE v[i].time <= v[j].time
    <3>1. n + i \in 1 .. n + k /\ n + j \in 1 .. n + k /\ n + i < n + j
      BY <2>3
    <3> QED
      BY <1>10, <1>15, <3>1
  <2> QED
    BY <1>1, <1>4, <1>10, <1>11, <2>1, <2>2, <2>3 DEF TimeInv
<1>17. ASSUME NEW t \in Sockets PROVE TimeInv(t)'
  <2>1. PICK d \in Clients, y \in 1 .. Peer : t = <<d, y>>
    BY SocketFacts
  <2>2. CASE t # s
    <3>1. up'[t] = up[t] /\ rx'[t] = rx[t]
      BY <1>1, <1>11, <2>1, <2>2
    <3> QED
      BY <1>2, <1>4, <3>1 DEF TimeInv
  <2> QED
    BY <1>16, <2>2
<1>18. QueuesKept(c)
  BY <1>2, <1>4, QueuesSame
<1>19. SocketInv(c)'
  <2>1. FrameShape(v, e) /\ FrameShape(w, e)
    <3>1. /\ \A i \in 1 .. n + k : u[i].id = u[i].seq /\ (e # Peer => u[i].type = "NEW" /\ u[i].epoch = e)
          /\ \A i \in 1 .. l : b[i].id = b[i].seq /\ (e # Peer => b[i].type = "NEW" /\ b[i].epoch = e)
      <4>1. FrameShape(u, e) /\ FrameShape(b, e)
        BY <1>1, <1>2, <1>6 DEF SocketInv
      <4> QED
        BY <1>9, <1>10, <4>1 DEF FrameShape
    <3>2. \A i \in 1 .. k : n + i \in 1 .. n + k
      OBVIOUS
    <3>3. FrameShape(v, e)
      BY <1>10, <3>1, <3>2 DEF FrameShape
    <3>4. ASSUME NEW i \in 1 .. l + n
          PROVE  w[i].id = w[i].seq /\ (e # Peer => w[i].type = "NEW" /\ w[i].epoch = e)
      <4>1. CASE i \in 1 .. l
        BY <1>10, <3>1, <4>1
      <4>2. CASE i \notin 1 .. l
        <5>1. PICK j \in 1 .. n : i = l + j
          <6>1. i - l \in 1 .. n /\ i = l + (i - l)
            BY <4>2
          <6> QED
            BY <6>1
        <5>2. j \in 1 .. n + k /\ w[i] = u[j]
          <6>1. w[l + j] = u[j]
            BY <1>10
          <6> QED
            BY <5>1, <6>1
        <5> QED
          BY <3>1, <5>2
      <4> QED
        BY <4>1, <4>2
    <3>5. FrameShape(w, e)
      BY <1>10, <3>4 DEF FrameShape
    <3> QED
      BY <3>3, <3>5
  <2>2. ~MustBeUnused(c, e)
    <3>1. u # <<>>
      BY <1>10
    <3>2. ~Unused(s)
      BY <1>6, <3>1 DEF Unused
    <3> QED
      BY <1>1, <1>2, <3>2 DEF SocketInv, MustBeUnused
  <2>3. ASSUME NEW y \in 1 .. Peer
        PROVE  /\ FrameShape(up'[<<c, y>>], y) /\ FrameShape(inbound'[<<c, y>>], y)
               /\ MustBeUnused(c, y) => /\ up'[<<c, y>>] = up[<<c, y>>]
                                        /\ inbound'[<<c, y>>] = inbound[<<c, y>>]
    <3>1. FrameShape(up[<<c, y>>], y) /\ FrameShape(inbound[<<c, y>>], y)
      BY <1>2 DEF SocketInv
    <3>2. CASE y = e
      BY <1>11, <2>1, <2>2, <3>2
    <3>3. CASE y # e
      BY <1>11, <3>1, <3>3
    <3> QED
      BY <3>2, <3>3
  <2> QED
    BY <1>2, <1>4, <2>3, SocketStep
<1>20. GatewayInv(c)'
  BY <1>2, <1>4, GatewayKept
<1>21. NumberInv(c)'
  BY <1>2, <1>4, NumberKept
<1>22. PICK z \in 1 .. Peer : z = gw[c].epoch /\ z # Peer /\ Current(c) = <<c, z>>
  BY <1>2, CurrentIs
<1>23. SettleInv(c)'
  <2>1. CASE z = e
    <3>1. Current(c) = s /\ Current(c)' = s /\ AtExchange(c)' = AtExchange(c)
      BY <1>1, <1>4, <1>22, <2>1 DEF Current, AtExchange
    <3>2. PICK x, y, t : /\ x = Total(gw[c].got, Settling) + Total(down[s], SettlingFrames)
                         /\ y = AtExchange(c) /\ t = gw[c].next - 1
      OBVIOUS
    <3>3. x \in Nat /\ y \in Nat /\ t \in Int
      <4>1. gw[c] \in Gateways /\ down[s] \in Seq(DownFrames)
        BY <1>2, CurrentSocket, BufferLengths
      <4>2. gw[c].got \in Seq(Responses) /\ gw[c].next \in Nat
        BY <4>1 DEF Gateways
      <4>3. Total(gw[c].got, Settling) \in Nat /\ Total(down[s], SettlingFrames) \in Nat
        BY <4>1, <4>2, TotalNat
      <4>4. AtExchange(c) \in Nat
        BY <1>2, AtExchangeNat
      <4>5. x \in Nat
        BY <3>2, <4>3
      <4>6. t \in Int
        BY <3>2, <4>2
      <4> QED
        BY <3>2, <4>4, <4>5, <4>6
    <3>4. x + (n + k) + l + y <= t
      BY <1>2, <1>6, <1>9, <1>10, <3>1, <3>2 DEF SettleInv
    <3>5. x + k + (l + n) + y <= t
      BY <3>3, <3>4
    <3> QED
      BY <1>1, <1>4, <1>10, <1>11, <3>1, <3>2, <3>5 DEF SettleInv
  <2>2. CASE z # e
    BY <1>2, <1>4, <1>11, <1>18, <1>22, <2>2, SettleKept
  <2> QED
    BY <2>1, <2>2
<1>24. AbsentInv(c)'
  BY <1>2, <1>4, <1>18, AbsentKept
<1>25. ReplyInv(c)'
  BY <1>2, <1>4, <1>5, <1>18, ReplyKept
<1>26. OrderInv(c)'
  <2>1. ASSUME ~unknown[c], NEW i \in 1 .. Len(pending), IsOrder(pending[i], c)
        PROVE  pending[i].time <= rx'[<<c, owner[c]>>]
    <3>1. pending[i].time <= rx[<<c, owner[c]>>]
      BY <1>2, <2>1 DEF OrderInv
    <3>2. owner[c] \in 1 .. Peer
      <4>1. owner[c] \in 0 .. Peer /\ owner[c] # 0
        BY <1>2, <2>1 DEF Types, AbsentInv, IsOrder
      <4> QED
        BY <4>1, SocketFacts
    <3>3. CASE owner[c] = e
      <4>1. pending[i].time \in Nat
        <5>1. pending \in Seq(Requests)
          BY <1>2 DEF Types
        <5>2. pending[i] \in Requests
          BY <2>1, <5>1
        <5> QED
          BY <5>2 DEF Requests
      <4>2. rx[s] <= u[n].time /\ u[n].time \in Nat /\ rx[s] \in Nat
        BY <1>15
      <4>3. pending[i].time <= rx[s] /\ rx'[<<c, owner[c]>>] = u[n].time
        BY <1>1, <1>11, <3>1, <3>3
      <4> QED
        BY <4>1, <4>2, <4>3
    <3>4. CASE owner[c] # e
      BY <1>11, <3>1, <3>2, <3>4
    <3> QED
      BY <3>3, <3>4
  <2>2. /\ InSession(matched[c], c)' /\ InSession(requestQ, c)' /\ InSession(pending, c)'
        /\ Ascending(matched[c], c)' /\ Ascending(requestQ, c)' /\ Ascending(pending, c)'
    BY <1>2, <1>4 DEF OrderInv, InSession, Ascending, IsOrder
  <2>3. /\ Precedes(matched[c], requestQ, c)' /\ Precedes(matched[c], pending, c)'
        /\ Precedes(requestQ, pending, c)'
    BY <1>2, <1>4 DEF OrderInv, Precedes, IsOrder
  <2> QED
    BY <1>2, <1>4, <2>1, <2>2, <2>3 DEF OrderInv, IsOrder
<1>27. WholeInv(c)'
  BY <1>2, <1>4, <1>5, <1>18, WholeKept
<1>28. SteadyInv(c)'
  <2>1. CASE e = 1 /\ Steady(c)
    <3>1. PICK x \in Nat, y \in Nat : x = expected[c] /\ y = gw[c].next
      <4>1. expected[c] \in Nat /\ gw[c] \in Gateways
        BY <1>2 DEF Types
      <4> QED
        BY <4>1 DEF Gateways
    <3>2. /\ \A i \in 1 .. l : b[i].seq = x + i - 1
          /\ \A i \in 1 .. n + k : u[i].seq = x + l + i - 1
          /\ y = x + l + (n + k)
      BY <1>1, <1>2, <1>6, <1>9, <1>10, <2>1, <3>1 DEF SteadyInv
    <3>3. ASSUME NEW i \in 1 .. l + n PROVE w[i].seq = x + i - 1
      <4>1. CASE i \in 1 .. l
        BY <1>10, <3>2, <4>1
      <4>2. CASE i \notin 1 .. l
        <5>1. PICK j \in 1 .. n : i = l + j
          <6>1. i - l \in 1 .. n /\ i = l + (i - l)
            BY <4>2
          <6> QED
            BY <6>1
        <5>2. j \in 1 .. n + k /\ w[i] = u[j] /\ x + l + j - 1 = x + i - 1
          BY <1>10, <5>1
        <5> QED
          BY <3>2, <5>2
      <4> QED
        BY <4>1, <4>2
    <3>4. ASSUME NEW i \in 1 .. k PROVE v[i].seq = x + (l + n) + i - 1
      <4>1. n + i \in 1 .. n + k /\ x + l + (n + i) - 1 = x + (l + n) + i - 1
        OBVIOUS
      <4> QED
        BY <1>10, <3>2, <4>1
    <3>5. y = x + (l + n) + k
      BY <3>2
    <3>6. up'[<<c, 1>>] = v /\ inbound'[<<c, 1>>] = w
      BY <1>11, <2>1
    <3>7. /\ owner[c] # Peer /\ gw[c].healthy /\ open[<<c, 1>>]
          /\ \A i \in 1 .. Len(down[<<c, 1>>]) : down[<<c, 1>>][i].resp.type \in {"ANSWER", "FILLED"}
          /\ \A i \in 1 .. Len(responseQ) :
                responseQ[i].client = c => responseQ[i].resp.type \in {"ANSWER", "FILLED"}
      BY <1>2, <2>1 DEF SteadyInv
    <3>8. PICK t : t = <<c, 1>>
      OBVIOUS
    <3>9. /\ \A i \in 1 .. Len(inbound'[t]) : inbound'[t][i].seq = expected'[c] + i - 1
          /\ \A i \in 1 .. Len(up'[t]) : up'[t][i].seq = expected'[c] + Len(inbound'[t]) + i - 1
          /\ gw'[c].next = expected'[c] + Len(inbound'[t]) + Len(up'[t])
      BY <1>4, <1>10, <3>1, <3>3, <3>4, <3>5, <3>6, <3>8
    <3>10. /\ owner'[c] # Peer /\ gw'[c].healthy /\ open'[t]
           /\ \A i \in 1 .. Len(down'[t]) : down'[t][i].resp.type \in {"ANSWER", "FILLED"}
           /\ \A i \in 1 .. Len(responseQ') :
                 responseQ'[i].client = c => responseQ'[i].resp.type \in {"ANSWER", "FILLED"}
      BY <1>4, <3>7, <3>8
    <3> QED
      BY <3>8, <3>9, <3>10 DEF SteadyInv
  <2>2. CASE ~Steady(c)
    BY <1>4, <2>2 DEF SteadyInv, Steady
  <2>3. CASE e # 1
    <3>1. 1 \in 1 .. Peer
      BY SocketFacts
    <3>2. up'[<<c, 1>>] = up[<<c, 1>>] /\ inbound'[<<c, 1>>] = inbound[<<c, 1>>]
      BY <1>11, <2>3, <3>1
    <3> QED
      BY <1>2, <1>4, <1>18, <3>2, SteadyKept
  <2> QED
    BY <2>1, <2>2, <2>3
<1>29. ClientInv(c)'
  BY <1>19, <1>20, <1>21, <1>23, <1>24, <1>25, <1>26, <1>27, <1>28 DEF ClientInv
<1> QED
  BY <1>5, <1>13, <1>14, <1>17, <1>29 DEF SessionInv

LEMMA NoticeKeeps ==
    ASSUME SessionInv, NEW s \in Sockets, ServerNoticeClose(s)
    PROVE  SessionInv'
<1>1. PICK c \in Clients, e \in 1 .. Peer : s = <<c, e>>
  BY SocketFacts
<1>2. /\ Types /\ Bounds /\ AcceptInv /\ (\A t \in Sockets : TimeInv(t))
      /\ GatewayInv(c) /\ SocketInv(c) /\ NumberInv(c) /\ SettleInv(c) /\ AbsentInv(c)
      /\ ReplyInv(c) /\ OrderInv(c) /\ WholeInv(c) /\ SteadyInv(c)
  BY InvOf
<1>3. UNCHANGED <<gw, up, down, clock, inbound, rx, owner, epoch, unknown, accepted, expected, outSeq,
                 anonSeq, pending, requestQ, responseQ, exPhase, halted, matched, issued, peerSent>>
  BY DEF ServerNoticeClose, wireVars, sessionVars, engineVars
<1>4. Closed(s) /\ Running /\ open' = [open EXCEPT ![s] = FALSE]
  BY DEF ServerNoticeClose
<1>5. Types' /\ Bounds'
  BY <1>2, TypesRead
<1>6. /\ ~open'[<<c, e>>]
      /\ \A y \in 1 .. Peer : y # e => open'[<<c, y>>] = open[<<c, y>>]
      /\ \A d \in Clients \ {c} : \A y \in 1 .. Peer : open'[<<d, y>>] = open[<<d, y>>]
  <2>1. open \in [Sockets -> BOOLEAN] /\ open' = [open EXCEPT ![<<c, e>>] = FALSE]
    BY <1>1, <1>2, <1>4 DEF Types
  <2> QED
    BY <2>1, SocketFacts
<1>7. ClientStep(c)
  BY <1>3, <1>6 DEF ClientStep, SocketsKept, SessionKept, EngineKept
<1>8. \A d \in Clients \ {c} : ClientInv(d)'
  BY <1>3, <1>5, <1>7, ClientStepKeeps
<1>9. AcceptInv'
  BY <1>2, <1>3, AcceptKept
<1>10. \A t \in Sockets : TimeInv(t)'
  BY <1>2, <1>3 DEF TimeInv
<1>11. QueuesKept(c)
  BY <1>2, <1>3, QueuesSame
<1>12. GatewayInv(c)'
  BY <1>2, <1>3, GatewayKept
<1>13. SocketInv(c)'
  <2>1. ASSUME NEW y \in 1 .. Peer
        PROVE  /\ FrameShape(up'[<<c, y>>], y) /\ FrameShape(inbound'[<<c, y>>], y)
               /\ open'[<<c, y>>] = open[<<c, y>>] \/ Closed(<<c, y>>)
    BY <1>1, <1>2, <1>3, <1>4, <1>6 DEF SocketInv
  <2> QED
    BY <1>2, <1>3, <2>1, SocketStep
<1>14. PICK z \in 1 .. Peer : z = gw[c].epoch /\ z # Peer /\ Current(c) = <<c, z>>
  BY <1>2, CurrentIs
<1>15. NumberInv(c)'
  <2>1. open'[Current(c)] => open[Current(c)]
    BY <1>6, <1>14
  <2> QED
    BY <1>2, <1>3, <2>1, NumberKept
<1>16. SettleInv(c)'
  BY <1>2, <1>3, <1>11, SettleKept
<1>17. AbsentInv(c)'
  BY <1>2, <1>3, <1>11, AbsentKept
<1>18. ReplyInv(c)'
  BY <1>2, <1>3, <1>5, <1>11, ReplyKept
<1>19. OrderInv(c)'
  BY <1>2, <1>3, <1>5, <1>11, OrderKept
<1>20. WholeInv(c)'
  BY <1>2, <1>3, <1>5, <1>11, WholeKept
<1>21. SteadyInv(c)'
  <2>1. CASE ~Steady(c)
    BY <1>3, <2>1 DEF SteadyInv, Steady
  <2>2. CASE Steady(c)
    <3>1. gw[c].epoch = 1 /\ gw[c].state # "stopped"
      BY <2>2 DEF Steady
    <3>2. ~(e < 1)
      BY SocketFacts
    <3>3. s[1] = c /\ s[2] = e
      BY <1>1
    <3>4. Closed(s) => e < gw[c].epoch \/ gw[c].state = "stopped"
      BY <3>3 DEF Closed
    <3> QED
      BY <1>4, <3>1, <3>2, <3>4
  <2> QED
    BY <2>1, <2>2
<1>22. ClientInv(c)'
  BY <1>12, <1>13, <1>15, <1>16, <1>17, <1>18, <1>19, <1>20, <1>21 DEF ClientInv
<1> QED
  BY <1>5, <1>8, <1>9, <1>10, <1>22 DEF SessionInv

\* A frame in the receive buffer of a connection: it has been opened.
LEMMA Speaking ==
    ASSUME Types, NEW c \in Clients, NEW e \in 1 .. Peer, NEW s \in Sockets, s = <<c, e>>, SocketInv(c),
           inbound[s] # <<>>
    PROVE  /\ ~MustBeUnused(c, e) /\ (e # Peer => e <= gw[c].epoch) /\ (e = Peer => peerSent[c] # 0)
           /\ Head(inbound[s]).id = Head(inbound[s]).seq
           /\ e # Peer => Head(inbound[s]).type = "NEW" /\ Head(inbound[s]).epoch = e
<1>1. ~Unused(s)
  BY DEF Unused
<1>2. ~MustBeUnused(c, e)
  BY <1>1 DEF SocketInv, MustBeUnused
<1>3. gw[c].epoch \in Nat /\ e \in Nat
  <2>1. gw[c].epoch \in 1 .. MaxEpoch
    BY CurrentSocket
  <2> QED
    BY <2>1, SocketFacts
<1>4. (e # Peer => e <= gw[c].epoch) /\ (e = Peer => peerSent[c] # 0)
  BY <1>2, <1>3 DEF MustBeUnused
<1>5. Head(inbound[s]) = inbound[s][1] /\ 1 \in 1 .. Len(inbound[s])
  BY FirstFrame
<1>6. FrameShape(inbound[s], e)
  BY DEF SocketInv
<1> QED
  BY <1>2, <1>4, <1>5, <1>6 DEF FrameShape

\* A frame binds its connection: as the first of the client, as its own, or by
\* taking over from a dead one.
First(c, s, f) ==
    /\ owner[c] = 0 /\ ~unknown[c] /\ ~unknown'[c] /\ f.seq = expected[c]
    /\ Renumber(s, f) = anonSeq[s]
Again(c, s, f) ==
    /\ owner[c] = s[2] /\ unknown'[c] = unknown[c] /\ epoch[c] = f.epoch /\ f.seq = expected[c]
    /\ (unknown[c] => f.type \in Queries) /\ Renumber(s, f) = outSeq[c]
Over(c, s, f) ==
    /\ s[2] = Peer /\ owner[c] \notin {0, Peer} /\ ~open[<<c, owner[c]>>] /\ epoch[c] = f.epoch
    /\ unknown'[c] /\ f.type \in Queries

LEMMA BindFacts ==
    ASSUME Types, NEW c \in Clients, NEW e \in 1 .. Peer, NEW s \in Sockets, s = <<c, e>>, SocketInv(c),
           NEW f, BindResult(s, f)
    PROVE  /\ owner'[c] = e /\ epoch'[c] = f.epoch
           /\ \A d \in Clients \ {c} : /\ owner'[d] = owner[d] /\ epoch'[d] = epoch[d]
                                       /\ unknown'[d] = unknown[d]
           /\ First(c, s, f) \/ Again(c, s, f) \/ Over(c, s, f)
           /\ unknown'[c] => e = Peer
           /\ Taken(s, f) \/ ~Over(c, s, f)
<1>1. /\ owner \in [Clients -> 0 .. Peer] /\ epoch \in [Clients -> 0 .. MaxEpoch]
      /\ unknown \in [Clients -> BOOLEAN]
  BY DEF Types
<1>2. s[1] = c /\ s[2] = e /\ e # 0
  BY SocketFacts
<1>3. unknown[c] => owner[c] = Peer
  BY DEF SocketInv
<1>4. CASE Fresh(s, f) /\ owner' = [owner EXCEPT ![c] = e] /\ epoch' = [epoch EXCEPT ![c] = f.epoch]
             /\ unknown' = unknown /\ Renumber(s, f) = anonSeq[s]
  <2>1. owner[c] = 0 /\ f.seq = expected[c] /\ ~unknown[c]
    BY <1>2, <1>4 DEF Fresh
  <2>2. First(c, s, f)
    BY <1>4, <2>1 DEF First
  <2>3. ~Over(c, s, f)
    BY <2>1 DEF Over
  <2> QED
    BY <1>1, <1>4, <2>1, <2>2, <2>3
<1>5. CASE Same(s, f) /\ owner' = owner /\ epoch' = epoch /\ unknown' = unknown /\ Renumber(s, f) = outSeq[c]
  <2>1. owner[c] = e /\ epoch[c] = f.epoch /\ f.seq = expected[c] /\ (unknown[c] => f.type \in Queries)
    BY <1>2, <1>5 DEF Same
  <2>2. Again(c, s, f)
    BY <1>2, <1>5, <2>1 DEF Again
  <2>3. ~Over(c, s, f)
    BY <1>2, <2>1 DEF Over
  <2> QED
    BY <1>3, <1>5, <2>1, <2>2, <2>3
<1>6. CASE Taken(s, f) /\ owner' = [owner EXCEPT ![c] = Peer] /\ epoch' = epoch
             /\ unknown' = [unknown EXCEPT ![c] = TRUE]
  <2>1. /\ owner[c] \notin {0, Peer} /\ e = Peer
        /\ ~open[<<c, owner[c]>>] /\ f.epoch = epoch[c] /\ f.type \in Queries
    BY <1>2, <1>6 DEF Taken
  <2>2. Over(c, s, f)
    BY <1>1, <1>2, <1>6, <2>1 DEF Over
  <2> QED
    BY <1>1, <1>6, <2>1, <2>2
<1> QED
  BY <1>2, <1>4, <1>5, <1>6 DEF BindResult

\* Only its own connection binds a session that goes on.
LEMMA BindsSteady ==
    ASSUME Types, NEW c \in Clients, NEW e \in 1 .. Peer, NEW s, s = <<c, e>>, SocketInv(c), SteadyInv(c),
           NEW f, First(c, s, f) \/ Again(c, s, f) \/ Over(c, s, f), owner'[c] = e,
           e # Peer => e <= gw[c].epoch, gw' = gw, Steady(c)'
    PROVE  Steady(c) /\ e = 1
<1>1. s[2] = e /\ e # 0 /\ Peer # 0 /\ Peer # 1
  BY SocketFacts
<1>2. gw[c].epoch = 1 /\ gw[c].state # "stopped" /\ (owner'[c] = Peer => unknown'[c])
  BY DEF Steady
<1>3. owner[c] \in 0 .. Peer /\ (owner[c] = Peer \/ owner[c] <= 1)
  BY <1>2 DEF SocketInv, Types
<1>4. e # Peer
  <2>1. SUFFICES ASSUME e = Peer PROVE FALSE
    OBVIOUS
  <2>2. unknown'[c] /\ (Again(c, s, f) \/ Over(c, s, f))
    BY <1>2, <2>1 DEF First
  <2>3. CASE Again(c, s, f)
    BY <1>1, <1>2, <2>1, <2>2, <2>3 DEF Again, Steady, SteadyInv
  <2>4. CASE Over(c, s, f)
    <3>1. owner[c] = 1 /\ ~open[<<c, owner[c]>>]
      BY <1>3, <2>4, SocketFacts DEF Over
    <3>2. Steady(c)
      BY <1>1, <1>2, <3>1 DEF Steady
    <3> QED
      BY <3>1, <3>2 DEF SteadyInv
  <2> QED
    BY <2>2, <2>3, <2>4
<1>5. e = 1
  BY <1>2, <1>4, SocketFacts
<1>6. owner[c] # Peer
  BY <1>1, <1>4 DEF First, Again, Over
<1> QED
  BY <1>2, <1>5, <1>6 DEF Steady

\* The connections of a client whose session changes hands.
LEMMA SocketBound ==
    ASSUME NEW c \in Clients, NEW e \in 1 .. Peer, SocketInv(c), gw' = gw, peerSent' = peerSent,
           ~MustBeUnused(c, e), e # Peer => e <= gw[c].epoch, owner'[c] = e, epoch'[c] # 0,
           e # Peer => epoch'[c] = e, unknown'[c] => e = Peer, open' = open, up' = up,
           \A y \in 1 .. Peer :
              /\ FrameShape(inbound'[<<c, y>>], y)
              /\ y # e => /\ down'[<<c, y>>] = down[<<c, y>>] /\ inbound'[<<c, y>>] = inbound[<<c, y>>]
                          /\ anonSeq'[<<c, y>>] = anonSeq[<<c, y>>]
    PROVE  SocketInv(c)'
<1>1. Peer \in 1 .. Peer
  BY SocketFacts
<1>2. ASSUME NEW y \in 1 .. Peer PROVE MustBeUnused(c, y) => Unused(<<c, y>>)'
  <2>1. MustBeUnused(c, y) => Unused(<<c, y>>) /\ y # e
    BY DEF SocketInv, MustBeUnused
  <2> QED
    BY <2>1 DEF Unused
<1>3. /\ owner'[c] = Peer \/ owner'[c] <= gw'[c].epoch
      /\ owner'[c] # 0 => epoch'[c] # 0
      /\ owner'[c] \notin {0, Peer} => epoch'[c] = owner'[c]
      /\ unknown'[c] => owner'[c] = Peer
  BY DEF SocketInv
<1>4. peerSent'[c] = 0 => owner'[c] # Peer /\ Unused(<<c, Peer>>)'
  BY <1>1, <1>2 DEF MustBeUnused
<1>5. ASSUME NEW y \in 1 .. Peer
      PROVE  /\ FrameShape(up[<<c, y>>], y)' /\ FrameShape(inbound[<<c, y>>], y)'
             /\ y # Peer /\ y > gw'[c].epoch => Unused(<<c, y>>)'
             /\ ~open'[<<c, y>>] => Closed(<<c, y>>)'
  <2>1. FrameShape(up[<<c, y>>], y) /\ (~open[<<c, y>>] => Closed(<<c, y>>))
    BY DEF SocketInv
  <2>2. FrameShape(up[<<c, y>>], y)' /\ FrameShape(inbound[<<c, y>>], y)'
    BY <2>1 DEF FrameShape
  <2>3. y # Peer /\ y > gw'[c].epoch => Unused(<<c, y>>)'
    BY <1>2 DEF MustBeUnused
  <2>4. ~open'[<<c, y>>] => Closed(<<c, y>>)'
    BY <2>1 DEF Closed, Current
  <2> QED
    BY <2>2, <2>3, <2>4
<1> QED
  BY <1>3, <1>4, <1>5 DEF SocketInv

\* The head leaves the receive buffer.
LEMMA ShapeTail ==
    ASSUME NEW q \in Seq(UpFrames), q # <<>>, NEW e, FrameShape(q, e)
    PROVE  FrameShape(Tail(q), e)
<1>1. PICK u : u = Tail(q)
  OBVIOUS
<1>2. PICK l \in Nat : Len(q) = l + 1 /\ Len(u) = l /\ \A i \in 1 .. l : u[i] = q[i + 1]
  BY <1>1, TailParts
<1>3. \A i \in 1 .. l : i + 1 \in 1 .. l + 1
  OBVIOUS
<1> QED
  BY <1>1, <1>2, <1>3 DEF FrameShape

\* Nothing of a client that has not been bound is counted.
LEMMA NothingAbsent ==
    ASSUME Types, NEW c \in Clients, AbsentInv(c), owner[c] = 0
    PROVE  /\ Total(pending, RequestsOf(c)) = 0 /\ Total(requestQ, RequestsOf(c)) = 0
           /\ Total(responseQ, SettlingReplies(c)) = 0 /\ Total(responseQ, RepliesTo(c)) = 0
<1>1. Len(pending) \in Nat /\ Len(requestQ) \in Nat /\ Len(responseQ) \in Nat
  BY DEF Types
<1>2. \A i \in 1 .. Len(pending) : pending[i] \notin RequestsOf(c)
  BY DEF AbsentInv, RequestsOf
<1>3. \A i \in 1 .. Len(requestQ) : requestQ[i] \notin RequestsOf(c)
  BY DEF AbsentInv, RequestsOf
<1>4. \A i \in 1 .. Len(responseQ) : responseQ[i] \notin SettlingReplies(c) /\ responseQ[i] \notin RepliesTo(c)
  BY DEF AbsentInv, SettlingReplies, RepliesTo
<1> QED
  BY <1>1, <1>2, <1>3, <1>4, CountNone DEF Total

\* What binding does to the numbers of the session, and to its replies.
LEMMA NumberBound ==
    ASSUME Types, NEW c \in Clients, NEW e \in 1 .. Peer, NEW s \in Sockets, s = <<c, e>>, NEW f,
           First(c, s, f) \/ Again(c, s, f) \/ Over(c, s, f), owner'[c] = e,
           e = gw[c].epoch => outSeq'[c] = Renumber(s, f),
           NumberInv(c), gw' = gw, open' = open, down'[Current(c)] = down[Current(c)],
           anonSeq'[Current(c)] = anonSeq[Current(c)]
    PROVE  NumberInv(c)'
<1>1. PICK z \in 1 .. Peer : z = gw[c].epoch /\ z # Peer /\ Current(c) = <<c, z>>
  BY CurrentIs
<1>2. Current(c)' = Current(c) /\ z # 0 /\ s[2] = e
  BY <1>1, SocketFacts DEF Current
<1>3. open[Current(c)] => NextNumber(c)' = NextNumber(c)
  <2>1. CASE e = z
    <3>1. s = Current(c)
      BY <1>1, <2>1
    <3>2. NextNumber(c)' = Renumber(s, f)
      BY <1>1, <2>1 DEF NextNumber
    <3>3. CASE First(c, s, f)
      BY <1>1, <1>2, <3>1, <3>2, <3>3 DEF First, NextNumber
    <3>4. CASE Again(c, s, f)
      BY <1>1, <1>2, <2>1, <3>2, <3>4 DEF Again, NextNumber
    <3>5. CASE Over(c, s, f)
      BY <1>1, <1>2, <2>1, <3>5 DEF Over
    <3> QED
      BY <3>3, <3>4, <3>5
  <2>2. CASE e # z
    <3>1. NextNumber(c)' = anonSeq[Current(c)]
      BY <1>1, <1>2, <2>2 DEF NextNumber
    <3>2. owner[c] = z => ~open[Current(c)]
      BY <1>1, <1>2, <2>2 DEF First, Again, Over
    <3> QED
      BY <1>1, <3>1, <3>2 DEF NextNumber
  <2> QED
    BY <2>1, <2>2
<1> QED
  BY <1>2, <1>3 DEF NumberInv

LEMMA ReplyBound ==
    ASSUME Types, NEW c \in Clients, NEW e \in 1 .. Peer, NEW s \in Sockets, s = <<c, e>>, NEW f,
           First(c, s, f) \/ Again(c, s, f) \/ Over(c, s, f), owner'[c] = e, epoch'[c] = f.epoch,
           ReplyInv(c), AbsentInv(c), gw' = gw, responseQ' = responseQ, issued' = issued,
           down'[Current(c)] = down[Current(c)]
    PROVE  ReplyInv(c)'
<1>1. PICK z \in 1 .. Peer : z = gw[c].epoch /\ z # Peer /\ Current(c) = <<c, z>>
  BY CurrentIs
<1>2. Current(c)' = Current(c) /\ z # 0 /\ s[2] = e
  BY <1>1, SocketFacts DEF Current
<1>3. PICK a, b : a = Total(gw[c].got, Genuine) /\ b = Total(down[Current(c)], GenuineFrames)
  OBVIOUS
<1>4. /\ owner[c] # 0 => epoch'[c] = epoch[c] /\ (e = z => owner[c] = z)
      /\ owner[c] = 0 => e = z \/ e # z
  BY <1>1, <1>2 DEF First, Again, Over
<1>5. ASSUME NEW i \in 1 .. Len(responseQ), responseQ[i].client = c
      PROVE  /\ responseQ[i].resp.epoch = epoch'[c] /\ responseQ[i].resp.rid # 0
             /\ e = z => responseQ[i].resp.rid = a + b + Count(responseQ, RepliesTo(c), i)
  <2>1. owner[c] # 0
    BY <1>5 DEF AbsentInv
  <2> QED
    BY <1>1, <1>3, <1>4, <1>5, <2>1 DEF ReplyInv
<1>6. e = z => issued[c] = a + b + Total(responseQ, RepliesTo(c))
  <2>1. CASE owner[c] # 0
    BY <1>1, <1>3, <1>4, <2>1 DEF ReplyInv
  <2>2. CASE owner[c] = 0
    <3>1. a = 0 /\ b = 0 /\ issued[c] = 0
      BY <1>1, <1>3, <2>2 DEF AbsentInv
    <3>2. Total(responseQ, RepliesTo(c)) = 0
      BY <2>2, NothingAbsent
    <3> QED
      BY <3>1, <3>2
  <2> QED
    BY <2>1, <2>2
<1>7. a = Total(gw'[c].got, Genuine) /\ b = Total(down'[Current(c)'], GenuineFrames)
  BY <1>2, <1>3
<1>8. /\ \A i \in 1 .. Len(gw'[c].got) :
            gw'[c].got[i].rid # 0 => /\ gw'[c].got[i].rid = Count(gw'[c].got, Genuine, i)
                                     /\ gw'[c].got[i].epoch = gw'[c].epoch
      /\ \A i \in 1 .. Len(down'[Current(c)]) :
            down'[Current(c)][i].resp.rid # 0 =>
               /\ down'[Current(c)][i].resp.rid = a + Count(down'[Current(c)], GenuineFrames, i)
               /\ down'[Current(c)][i].resp.epoch = gw'[c].epoch
  BY <1>3 DEF ReplyInv
<1>9. /\ \A i \in 1 .. Len(responseQ') :
            responseQ'[i].client = c =>
               /\ responseQ'[i].resp.epoch = epoch'[c] /\ responseQ'[i].resp.rid # 0
               /\ owner'[c] = gw'[c].epoch =>
                     responseQ'[i].resp.rid = a + b + Count(responseQ', RepliesTo(c), i)
      /\ owner'[c] = gw'[c].epoch => issued'[c] = a + b + Total(responseQ', RepliesTo(c))
  BY <1>1, <1>5, <1>6
<1> QED
  BY <1>2, <1>7, <1>8, <1>9 DEF ReplyInv

\* The requests at the exchange belong to the session that goes on.
Belongs(q, c) ==
    \A i \in 1 .. Len(q) : q[i].client = c =>
        /\ q[i].epoch = epoch'[c]
        /\ q[i].type = "NEW" /\ ~unknown'[c] => q[i].id < expected'[c]

LEMMA OrdersBelong ==
    ASSUME Types, Types', NEW c \in Clients, NEW e \in 1 .. Peer, NEW s \in Sockets, s = <<c, e>>, NEW f,
           First(c, s, f) \/ Again(c, s, f) \/ Over(c, s, f), epoch'[c] = f.epoch,
           ~unknown'[c] => expected[c] <= expected'[c], OrderInv(c), AbsentInv(c)
    PROVE  /\ Belongs(matched[c], c) /\ Belongs(requestQ, c) /\ Belongs(pending, c)
           /\ ~unknown'[c] => /\ InSession(pending, c) /\ InSession(requestQ, c) /\ InSession(matched[c], c)
                              /\ \A i \in 1 .. Len(pending) :
                                    IsOrder(pending[i], c) => pending[i].time <= rx[<<c, e>>] /\ ~unknown[c]
<1>1. s[2] = e
  OBVIOUS
<1>2. ASSUME NEW q \in Seq(Requests), InSession(q, c), owner[c] = 0 => \A i \in 1 .. Len(q) : q[i].client # c
      PROVE  Belongs(q, c)
  <2>1. SUFFICES ASSUME NEW i \in 1 .. Len(q), q[i].client = c
                 PROVE  /\ q[i].epoch = epoch'[c]
                        /\ q[i].type = "NEW" /\ ~unknown'[c] => q[i].id < expected'[c]
    BY DEF Belongs
  <2>2. owner[c] # 0
    BY <1>2, <2>1
  <2>3. epoch'[c] = epoch[c] /\ (~unknown'[c] => ~unknown[c])
    BY <2>2 DEF First, Again, Over
  <2>4. q[i].epoch = epoch[c] /\ (q[i].type = "NEW" /\ ~unknown[c] => q[i].id < expected[c])
    BY <1>2, <2>1 DEF InSession
  <2>5. q[i].id \in Nat /\ expected[c] \in Nat /\ expected'[c] \in Nat
    <3>1. q[i] \in Requests
      BY <2>1
    <3> QED
      BY <3>1 DEF Types, Requests
  <2> QED
    BY <2>3, <2>4, <2>5
<1>3. pending \in Seq(Requests) /\ requestQ \in Seq(Requests) /\ matched[c] \in Seq(Requests)
  BY DEF Types
<1>4. InSession(pending, c) /\ InSession(requestQ, c) /\ InSession(matched[c], c)
  BY DEF OrderInv
<1>5. owner[c] = 0 => /\ \A i \in 1 .. Len(pending) : pending[i].client # c
                      /\ \A i \in 1 .. Len(requestQ) : requestQ[i].client # c
                      /\ matched[c] = <<>>
  BY DEF AbsentInv
<1>6. owner[c] = 0 => \A i \in 1 .. Len(matched[c]) : matched[c][i].client # c
  BY <1>5
<1>7. Belongs(matched[c], c) /\ Belongs(requestQ, c) /\ Belongs(pending, c)
  BY <1>2, <1>3, <1>4, <1>5, <1>6
<1>8. ASSUME ~unknown'[c], NEW i \in 1 .. Len(pending), IsOrder(pending[i], c)
      PROVE  pending[i].time <= rx[<<c, e>>] /\ ~unknown[c]
  <2>1. owner[c] # 0
    BY <1>5, <1>8 DEF IsOrder
  <2>2. ~unknown[c] /\ owner[c] = e
    BY <1>1, <1>8, <2>1 DEF First, Again, Over
  <2> QED
    BY <1>8, <2>2 DEF OrderInv
<1> QED
  BY <1>4, <1>7, <1>8

\* A request joins the sequencer's: it comes behind the client's others.
LEMMA OrderJoins ==
    ASSUME NEW q \in Seq(Requests), NEW r \in Requests, NEW c,
           IsOrder(r, c) => \A i \in 1 .. Len(q) : IsOrder(q[i], c) => q[i].id < r.id /\ q[i].time <= r.time,
           Ascending(q, c), Timely(q, c), Belongs(q, c),
           r.epoch = epoch'[c], r.type = "NEW" /\ ~unknown'[c] => r.id < expected'[c]
    PROVE  LET w == Append(q, r) IN
           /\ Ascending(w, c) /\ Timely(w, c) /\ Belongs(w, c)
           /\ \A p : Precedes(p, q, c) /\ (IsOrder(r, c) => \A i \in 1 .. Len(p) : IsOrder(p[i], c) => p[i].id < r.id)
                        => Precedes(p, w, c)
           /\ \A t : (\A i \in 1 .. Len(q) : IsOrder(q[i], c) => q[i].time <= t) /\ r.time <= t
                        => \A i \in 1 .. Len(w) : IsOrder(w[i], c) => w[i].time <= t
           /\ (\A i \in 1 .. Len(q) : q[i].client = c => q[i].type = "NEW") /\ r.type = "NEW"
                 => \A i \in 1 .. Len(w) : w[i].client = c => w[i].type = "NEW"
           /\ \A k : Holds(q, c, k) => Holds(w, c, k)
           /\ r.client = c => Holds(w, c, r.id)
<1>1. PICK n \in Nat : n = Len(q)
  OBVIOUS
<1>2. PICK w : w = Append(q, r)
  OBVIOUS
<1>3. Len(w) = n + 1 /\ w[n + 1] = r /\ \A i \in 1 .. n : w[i] = q[i]
  BY <1>1, <1>2, AppendType
<1>4. /\ \A i \in 1 .. n + 1 : i \in 1 .. n \/ i = n + 1
      /\ \A i, j \in 1 .. n + 1 : i < j => i \in 1 .. n
      /\ n + 1 \in 1 .. n + 1 /\ 1 .. n \subseteq 1 .. n + 1
  OBVIOUS
<1>5. Ascending(w, c)
  BY <1>1, <1>3, <1>4 DEF Ascending
<1>6. Timely(w, c)
  BY <1>1, <1>3, <1>4 DEF Timely
<1>7. Belongs(w, c)
  BY <1>1, <1>3, <1>4 DEF Belongs
<1>8. \A p : Precedes(p, q, c) /\ (IsOrder(r, c) => \A i \in 1 .. Len(p) : IsOrder(p[i], c) => p[i].id < r.id)
               => Precedes(p, w, c)
  BY <1>1, <1>3, <1>4 DEF Precedes
<1>9. \A t : (\A i \in 1 .. Len(q) : IsOrder(q[i], c) => q[i].time <= t) /\ r.time <= t
               => \A i \in 1 .. Len(w) : IsOrder(w[i], c) => w[i].time <= t
  BY <1>1, <1>3, <1>4
<1>10. (\A i \in 1 .. Len(q) : q[i].client = c => q[i].type = "NEW") /\ r.type = "NEW"
          => \A i \in 1 .. Len(w) : w[i].client = c => w[i].type = "NEW"
  BY <1>1, <1>3, <1>4
<1>11. \A k : Holds(q, c, k) => Holds(w, c, k)
  BY <1>1, <1>3, <1>4 DEF Holds
<1>12. r.client = c => Holds(w, c, r.id)
  BY <1>3, <1>4 DEF Holds
<1> QED
  BY <1>2, <1>5, <1>6, <1>7, <1>8, <1>9, <1>10, <1>11, <1>12

\* The terms of the settlement are numbers.
LEMMA SettleNat ==
    ASSUME Types, NEW c \in Clients
    PROVE  /\ Total(gw[c].got, Settling) \in Nat /\ Total(down[Current(c)], SettlingFrames) \in Nat
           /\ Len(up[Current(c)]) \in Nat /\ Len(inbound[Current(c)]) \in Nat /\ gw[c].next \in Nat
<1>1. gw[c] \in Gateways /\ Current(c) \in Sockets
  BY CurrentSocket
<1>2. gw[c].got \in Seq(Responses) /\ gw[c].next \in Nat
  BY <1>1 DEF Gateways
<1>3. /\ down[Current(c)] \in Seq(DownFrames) /\ Len(up[Current(c)]) \in Nat
      /\ Len(inbound[Current(c)]) \in Nat
  BY <1>1, BufferLengths
<1> QED
  BY <1>2, <1>3, TotalNat

LEMMA AcceptKeeps ==
    ASSUME SessionInv, NEW s \in Sockets, ServerAccept(s)
    PROVE  SessionInv'
<1>1. PICK c \in Clients, e \in 1 .. Peer : s = <<c, e>>
  BY SocketFacts
<1>2. /\ Types /\ Bounds /\ AcceptInv /\ (\A t \in Sockets : TimeInv(t))
      /\ GatewayInv(c) /\ SocketInv(c) /\ NumberInv(c) /\ SettleInv(c) /\ AbsentInv(c)
      /\ ReplyInv(c) /\ OrderInv(c) /\ WholeInv(c) /\ SteadyInv(c)
  BY InvOf
<1>3. s[1] = c /\ s[2] = e
  BY <1>1
<1>4. PICK f \in UpFrames, r \in Requests : AcceptResult(s, f, r)
  BY <1>2, <1>3, AcceptEffect
<1>5. UNCHANGED <<gw, up, down, clock, rx, open, anonSeq, requestQ, responseQ, exPhase, halted,
                 matched, issued, peerSent>>
  BY DEF ServerAccept, wireVars, engineVars
<1>6. Types' /\ Bounds'
  BY <1>2, <1>3, TypesAccept
<1>7. /\ f = Head(inbound[s]) /\ inbound[s] # <<>> /\ inbound' = [inbound EXCEPT ![s] = Tail(@)]
      /\ BindResult(s, f) /\ f.epoch \in 1 .. MaxEpoch /\ f.type \in {"NEW", "QUERY"}
      /\ r.client = c /\ r.type = f.type /\ r.epoch = f.epoch /\ r.id = f.id /\ r.time = rx[s]
      /\ pending' = Append(pending, r)
      /\ outSeq' = [outSeq EXCEPT ![c] = Renumber(s, f)]
      /\ expected' = [expected EXCEPT ![c] = f.seq + 1]
      /\ accepted' = [accepted EXCEPT ![c] = @ + 1]
      /\ exPhase = "accepting"
  BY <1>3, <1>4 DEF AcceptResult
<1>8. /\ owner'[c] = e /\ epoch'[c] = f.epoch
      /\ \A d \in Clients \ {c} : /\ owner'[d] = owner[d] /\ epoch'[d] = epoch[d]
                                  /\ unknown'[d] = unknown[d]
      /\ First(c, s, f) \/ Again(c, s, f) \/ Over(c, s, f)
      /\ unknown'[c] => e = Peer
  BY <1>1, <1>2, <1>7, BindFacts
<1>9. /\ ~MustBeUnused(c, e) /\ (e # Peer => e <= gw[c].epoch) /\ (e = Peer => peerSent[c] # 0)
      /\ f.id = f.seq /\ (e # Peer => f.type = "NEW" /\ f.epoch = e)
  BY <1>1, <1>2, <1>7, Speaking
<1>10. PICK q \in Seq(UpFrames) : q = inbound[s] /\ q # <<>>
  BY <1>2, <1>7, BufferLengths
<1>11. PICK u : u = Tail(q)
  OBVIOUS
<1>12. PICK l \in Nat : /\ Len(q) = l + 1 /\ Len(u) = l /\ 1 \in 1 .. l + 1
                        /\ \A i \in 1 .. l : u[i] = q[i + 1]
  BY <1>10, <1>11, TailParts
<1>13. f = q[1] /\ u \in Seq(UpFrames)
  BY <1>7, <1>10, <1>11, TailParts
<1>14. /\ inbound'[<<c, e>>] = u
       /\ \A y \in 1 .. Peer : y # e => inbound'[<<c, y>>] = inbound[<<c, y>>]
       /\ \A d \in Clients \ {c} : \A y \in 1 .. Peer : inbound'[<<d, y>>] = inbound[<<d, y>>]
  <2>1. inbound \in [Sockets -> Seq(UpFrames)] /\ inbound' = [inbound EXCEPT ![<<c, e>>] = u]
    BY <1>1, <1>2, <1>7, <1>10, <1>11 DEF Types
  <2> QED
    BY <2>1, SocketFacts
<1>15. PICK x \in Nat, m \in Nat, k \in Nat : x = expected[c] /\ m = accepted[c] /\ k = f.seq
  BY <1>2 DEF Types, UpFrames
<1>16. /\ outSeq'[c] = Renumber(s, f) /\ expected'[c] = k + 1 /\ accepted'[c] = m + 1
       /\ \A d \in Clients \ {c} : /\ outSeq'[d] = outSeq[d] /\ expected'[d] = expected[d]
                                   /\ accepted'[d] = accepted[d]
  <2>1. PICK y : y = Renumber(s, f)
    OBVIOUS
  <2>2. /\ outSeq \in [Clients -> Nat \ {0}] /\ expected \in [Clients -> Nat \ {0}]
        /\ accepted \in [Clients -> Nat]
    BY <1>2 DEF Types
  <2>3. outSeq'[c] = y /\ \A d \in Clients \ {c} : outSeq'[d] = outSeq[d]
    BY <1>7, <2>1, <2>2
  <2>4. expected'[c] = k + 1 /\ \A d \in Clients \ {c} : expected'[d] = expected[d]
    BY <1>7, <1>15, <2>2
  <2>5. accepted'[c] = m + 1 /\ \A d \in Clients \ {c} : accepted'[d] = accepted[d]
    BY <1>7, <1>15, <2>2
  <2> QED
    BY <2>1, <2>3, <2>4, <2>5
<1>17. ClientStep(c)
  BY <1>5, <1>8, <1>14, <1>16 DEF ClientStep, SocketsKept, SessionKept, EngineKept
<1>18. \A d \in Clients \ {c} : ClientInv(d)'
  BY <1>2, <1>6, <1>7, <1>17, ClientStepKeeps
<1>19. pending \in Seq(Requests)
  BY <1>2 DEF Types
<1>20. Total(pending', RequestsOf(c)) = Total(pending, RequestsOf(c)) + 1
  <2>1. r \in RequestsOf(c)
    BY <1>7 DEF RequestsOf
  <2> QED
    BY <1>7, <1>19, <2>1, TotalAppend
<1>21. AcceptInv'
  <2>1. ASSUME NEW d \in Clients
        PROVE  Len(matched'[d]) + Total(requestQ', RequestsOf(d)) + Total(pending', RequestsOf(d)) = accepted'[d]
    <3>1. PICK i, j, o : /\ i = Len(matched[d]) /\ j = Total(requestQ, RequestsOf(d))
                         /\ o = Total(pending, RequestsOf(d))
      OBVIOUS
    <3>2. i \in Nat /\ j \in Nat /\ o \in Nat
      <4>1. matched[d] \in Seq(Requests)
        BY <1>2 DEF Types
      <4> QED
        BY <1>2, <3>1, <4>1, AtExchangeNat
    <3>3. i + j + o = accepted[d]
      BY <1>2, <3>1 DEF AcceptInv
    <3>4. CASE d = c
      <4>1. i + j + (o + 1) = m + 1
        BY <1>15, <3>2, <3>3, <3>4
      <4> QED
        BY <1>5, <1>16, <1>20, <3>1, <3>4, <4>1
    <3>5. CASE d # c
      <4>1. r \notin RequestsOf(d)
        BY <1>7, <3>5 DEF RequestsOf
      <4>2. Total(pending', RequestsOf(d)) = o + 0
        BY <1>7, <1>19, <3>1, <4>1, TotalAppend
      <4> QED
        BY <1>5, <1>16, <3>1, <3>2, <3>3, <3>5, <4>2
    <3> QED
      BY <3>4, <3>5
  <2> QED
    BY <1>5, <1>7, <2>1 DEF AcceptInv
<1>22. \A t \in Sockets : TimeInv(t)'
  BY <1>2, <1>5 DEF TimeInv
<1>23. GatewayInv(c)'
  BY <1>2, <1>5, GatewayKept
<1>24. SocketInv(c)'
  <2>1. ASSUME NEW y \in 1 .. Peer
        PROVE  /\ FrameShape(inbound'[<<c, y>>], y)
               /\ y # e => inbound'[<<c, y>>] = inbound[<<c, y>>]
    <3>1. FrameShape(inbound[<<c, y>>], y)
      BY <1>2 DEF SocketInv
    <3>2. CASE y = e
      BY <1>1, <1>10, <1>11, <1>14, <3>1, <3>2, ShapeTail
    <3>3. CASE y # e
      BY <1>14, <3>1, <3>3
    <3> QED
      BY <3>2, <3>3
  <2>2. epoch'[c] # 0
    BY <1>7, <1>8, SocketFacts
  <2> QED
    BY <1>2, <1>5, <1>8, <1>9, <2>1, <2>2, SocketBound
<1>25. NumberInv(c)'
  BY <1>1, <1>2, <1>5, <1>8, <1>16, NumberBound
<1>26. PICK z \in 1 .. Peer : z = gw[c].epoch /\ z # Peer /\ Current(c) = <<c, z>>
  BY <1>2, CurrentIs
<1>27. SettleInv(c)'
  <2>1. Current(c)' = Current(c) /\ z # 0
    BY <1>5, <1>26, SocketFacts DEF Current
  <2>2. PICK a, t : /\ a = Total(gw[c].got, Settling) + Total(down[Current(c)], SettlingFrames) + Len(up[Current(c)])
                    /\ t = gw[c].next - 1
    OBVIOUS
  <2>3. a \in Nat /\ t \in Int
    <3>1. PICK i \in Nat, j \in Nat, h \in Nat, n \in Nat :
             /\ i = Total(gw[c].got, Settling) /\ j = Total(down[Current(c)], SettlingFrames)
             /\ h = Len(up[Current(c)]) /\ n = gw[c].next
      BY <1>2, SettleNat
    <3>2. a = i + j + h /\ t = n - 1
      BY <2>2, <3>1
    <3> QED
      BY <3>2
  <2>4. AtExchange(c) \in Nat
    BY <1>2, AtExchangeNat
  <2>5. CASE e = z
    <3>1. a + (l + 1) + AtExchange(c) <= t
      BY <1>1, <1>2, <1>10, <1>12, <1>26, <2>2, <2>5 DEF SettleInv
    <3>2. AtExchange(c)' = AtExchange(c) + 1
      <4>1. PICK i \in Nat, j \in Nat, o \in Nat :
               /\ i = Total(pending, RequestsOf(c)) /\ j = Total(requestQ, RequestsOf(c))
               /\ o = Total(responseQ, SettlingReplies(c))
        BY <1>2, AtExchangeNat
      <4>2. AtExchange(c)' = (i + 1) + j + o
        BY <1>5, <1>8, <1>20, <1>26, <2>5, <4>1 DEF AtExchange
      <4>3. CASE owner[c] = z
        <5>1. AtExchange(c) = i + j + o
          BY <1>26, <4>1, <4>3 DEF AtExchange
        <5> QED
          BY <4>2, <5>1
      <4>4. CASE owner[c] # z
        <5>1. owner[c] = 0
          BY <1>3, <1>8, <1>26, <2>5, <4>4 DEF First, Again, Over
        <5>2. i = 0 /\ j = 0 /\ o = 0
          BY <1>2, <4>1, <5>1, NothingAbsent
        <5>3. AtExchange(c) = 0
          BY <1>26, <4>4 DEF AtExchange
        <5> QED
          BY <4>2, <5>2, <5>3
      <4> QED
        BY <4>3, <4>4
    <3>3. a + l + (AtExchange(c) + 1) <= t
      BY <2>3, <2>4, <3>1
    <3>4. /\ Total(gw'[c].got, Settling) + Total(down'[Current(c)], SettlingFrames) + Len(up'[Current(c)]) = a
          /\ gw'[c].next - 1 = t /\ Len(inbound'[Current(c)]) = l
      BY <1>5, <1>12, <1>14, <1>26, <2>2, <2>5
    <3> QED
      BY <2>1, <3>2, <3>3, <3>4 DEF SettleInv
  <2>6. CASE e # z
    <3>1. AtExchange(c)' = 0
      BY <1>5, <1>8, <1>26, <2>6 DEF AtExchange
    <3>2. PICK b \in Nat : b = Len(inbound[Current(c)])
      <4>1. Current(c) \in Sockets
        BY <1>2, CurrentSocket
      <4> QED
        BY <1>2, <4>1, BufferLengths
    <3>3. a + b + AtExchange(c) <= t
      BY <1>2, <2>2, <3>2 DEF SettleInv
    <3>4. a + b + 0 <= t
      BY <2>3, <2>4, <3>3
    <3>5. /\ Total(gw'[c].got, Settling) + Total(down'[Current(c)], SettlingFrames) + Len(up'[Current(c)]) = a
          /\ gw'[c].next - 1 = t /\ Len(inbound'[Current(c)]) = b
      BY <1>5, <1>14, <1>26, <2>2, <2>6, <3>2
    <3> QED
      BY <2>1, <3>1, <3>4, <3>5 DEF SettleInv
  <2> QED
    BY <2>5, <2>6
<1>28. AbsentInv(c)'
  <2>1. e # 0
    BY SocketFacts
  <2> QED
    BY <1>8, <2>1 DEF AbsentInv
<1>29. ReplyInv(c)'
  BY <1>1, <1>2, <1>5, <1>8, ReplyBound
<1>30. ~Over(c, s, f) => k = x
  BY <1>8, <1>15 DEF First, Again
<1>31. ~unknown'[c] => expected[c] <= expected'[c]
  BY <1>15, <1>16, <1>30 DEF Over
<1>32. /\ Belongs(matched[c], c) /\ Belongs(requestQ, c) /\ Belongs(pending, c)
       /\ ~unknown'[c] => /\ InSession(pending, c) /\ InSession(requestQ, c) /\ InSession(matched[c], c)
                          /\ \A i \in 1 .. Len(pending) :
                                IsOrder(pending[i], c) => pending[i].time <= rx[<<c, e>>] /\ ~unknown[c]
  BY <1>1, <1>2, <1>6, <1>8, <1>31, OrdersBelong
<1>33. IsOrder(r, c) => ~unknown'[c] /\ ~unknown[c] /\ r.id = x
  BY <1>7, <1>8, <1>9, <1>15 DEF First, Again, Over, IsOrder, Queries
<1>34. ASSUME IsOrder(r, c), NEW p, InSession(p, c), NEW i \in 1 .. Len(p), IsOrder(p[i], c)
       PROVE  p[i].id < r.id
  BY <1>15, <1>33, <1>34 DEF InSession, IsOrder
<1>35. /\ Ascending(pending', c) /\ Timely(pending', c) /\ Belongs(pending', c)
       /\ Precedes(matched[c], pending', c) /\ Precedes(requestQ, pending', c)
       /\ ~unknown'[c] => \A i \in 1 .. Len(pending') : IsOrder(pending'[i], c) => pending'[i].time <= rx[<<c, e>>]
       /\ (\A i \in 1 .. Len(pending) : pending[i].client = c => pending[i].type = "NEW") /\ r.type = "NEW"
             => \A i \in 1 .. Len(pending') : pending'[i].client = c => pending'[i].type = "NEW"
       /\ \A o : Holds(pending, c, o) => Holds(pending', c, o)
       /\ Holds(pending', c, r.id)
  <2>1. PICK w : w = Append(pending, r)
    OBVIOUS
  <2>2. /\ Ascending(pending, c) /\ Timely(pending, c)
        /\ Precedes(matched[c], pending, c) /\ Precedes(requestQ, pending, c)
    BY <1>2 DEF OrderInv, Timely
  <2>3. IsOrder(r, c) => \A i \in 1 .. Len(pending) :
                            IsOrder(pending[i], c) => pending[i].id < r.id /\ pending[i].time <= r.time
    BY <1>1, <1>7, <1>32, <1>33, <1>34
  <2>4. r.epoch = epoch'[c] /\ (r.type = "NEW" /\ ~unknown'[c] => r.id < expected'[c])
    <3>1. r.id = k /\ k < k + 1
      BY <1>7, <1>9, <1>15
    <3> QED
      BY <1>7, <1>8, <1>16, <3>1
  <2>5. IsOrder(r, c) => \A i \in 1 .. Len(matched[c]) : IsOrder(matched[c][i], c) => matched[c][i].id < r.id
    BY <1>32, <1>33, <1>34
  <2>6. IsOrder(r, c) => \A i \in 1 .. Len(requestQ) : IsOrder(requestQ[i], c) => requestQ[i].id < r.id
    BY <1>32, <1>33, <1>34
  <2>7. /\ Ascending(w, c) /\ Timely(w, c) /\ Belongs(w, c)
        /\ Precedes(matched[c], w, c) /\ Precedes(requestQ, w, c)
    BY <1>19, <1>32, <2>1, <2>2, <2>3, <2>4, <2>5, <2>6, OrderJoins
  <2>8. ASSUME ~unknown'[c] PROVE \A i \in 1 .. Len(w) : IsOrder(w[i], c) => w[i].time <= rx[<<c, e>>]
    <3>1. \A i \in 1 .. Len(pending) : IsOrder(pending[i], c) => pending[i].time <= rx[<<c, e>>]
      BY <1>32, <2>8
    <3>2. r.time <= rx[<<c, e>>]
      <4>1. rx[s] \in Nat
        BY <1>2 DEF Types
      <4> QED
        BY <1>1, <1>7, <4>1
    <3> QED
      BY <1>19, <1>32, <2>1, <2>2, <2>3, <2>4, <3>1, <3>2, OrderJoins
  <2>9. /\ (\A i \in 1 .. Len(pending) : pending[i].client = c => pending[i].type = "NEW") /\ r.type = "NEW"
              => \A i \in 1 .. Len(w) : w[i].client = c => w[i].type = "NEW"
        /\ \A o : Holds(pending, c, o) => Holds(w, c, o)
        /\ Holds(w, c, r.id)
    BY <1>7, <1>19, <1>32, <2>1, <2>2, <2>3, <2>4, OrderJoins
  <2> QED
    BY <1>7, <2>1, <2>7, <2>8, <2>9
<1>36. OrderInv(c)'
  <2>1. InSession(matched[c], c)' /\ InSession(requestQ, c)' /\ InSession(pending, c)'
    BY <1>5, <1>32, <1>35 DEF InSession, Belongs
  <2>2. /\ \A i \in 1 .. Len(matched[c]) : matched[c][i].client = c
        /\ Ascending(matched[c], c) /\ Ascending(requestQ, c) /\ Precedes(matched[c], requestQ, c)
    BY <1>2 DEF OrderInv
  <2>3. /\ \A i \in 1 .. Len(matched'[c]) : matched'[c][i].client = c
        /\ Ascending(matched[c], c)' /\ Ascending(requestQ, c)' /\ Precedes(matched[c], requestQ, c)'
    BY <1>5, <2>2 DEF Ascending, Precedes, IsOrder
  <2>4. /\ Ascending(pending, c)' /\ Timely(pending, c)'
        /\ Precedes(matched[c], pending, c)' /\ Precedes(requestQ, pending, c)'
    BY <1>5, <1>35 DEF Ascending, Precedes, IsOrder, Timely
  <2>5. ~unknown'[c] => \A i \in 1 .. Len(pending') :
                           IsOrder(pending'[i], c) => pending'[i].time <= rx'[<<c, owner'[c]>>]
    BY <1>5, <1>8, <1>35
  <2> QED
    BY <2>1, <2>3, <2>4, <2>5 DEF OrderInv, Timely
<1>37. WholeInv(c)'
  <2>1. SUFFICES ASSUME peerSent'[c] = 0 PROVE WholeInv(c)'
    BY DEF WholeInv
  <2>2. e # Peer /\ r.type = "NEW" /\ k = x
    BY <1>5, <1>7, <1>9, <1>30, <2>1, <1>3 DEF Over
  <2>3. /\ x = m + 1
        /\ \A i \in 1 .. Len(matched[c]) : matched[c][i].type = "NEW" /\ matched[c][i].id = i
        /\ \A i \in 1 .. Len(pending) : pending[i].client = c => pending[i].type = "NEW"
        /\ \A i \in 1 .. Len(requestQ) : requestQ[i].client = c => requestQ[i].type = "NEW"
        /\ \A o \in 1 .. m :
              o <= Len(matched[c]) \/ Holds(requestQ, c, o) \/ Holds(pending, c, o)
    BY <1>2, <1>5, <1>15, <2>1 DEF WholeInv
  <2>4. r.id = m + 1
    BY <1>7, <1>9, <1>15, <2>2, <2>3
  <2>5. ASSUME NEW o \in 1 .. m + 1
        PROVE  o <= Len(matched[c]) \/ Holds(requestQ, c, o) \/ Holds(pending', c, o)
    <3>1. CASE o \in 1 .. m
      BY <1>35, <2>3, <3>1
    <3>2. CASE o = m + 1
      BY <1>35, <2>4, <3>2
    <3> QED
      BY <3>1, <3>2
  <2>6. \A i \in 1 .. Len(pending') : pending'[i].client = c => pending'[i].type = "NEW"
    BY <1>35, <2>2, <2>3
  <2>7. expected'[c] = accepted'[c] + 1
    BY <1>16, <2>2, <2>3
  <2>8. \A o \in 1 .. accepted'[c] :
           o <= Len(matched'[c]) \/ Holds(requestQ, c, o)' \/ Holds(pending, c, o)'
    BY <1>5, <1>16, <2>5 DEF Holds
  <2> QED
    BY <1>5, <2>3, <2>6, <2>7, <2>8 DEF WholeInv
<1>38. SteadyInv(c)'
  <2>1. SUFFICES ASSUME Steady(c)' PROVE SteadyInv(c)'
    BY DEF SteadyInv
  <2>2. Steady(c) /\ e = 1
    BY <1>1, <1>2, <1>5, <1>8, <1>9, <2>1, BindsSteady
  <2>3. e # Peer
    BY <2>2, SocketFacts
  <2>4. PICK t : t = <<c, 1>>
    OBVIOUS
  <2>5. t = s /\ inbound'[t] = u /\ inbound[t] = q
    BY <1>1, <1>10, <1>14, <2>2, <2>4
  <2>6. PICK y \in Nat : y = gw[c].next
    <3>1. gw[c] \in Gateways
      BY <1>2, CurrentSocket
    <3> QED
      BY <3>1 DEF Gateways
  <2>6a. PICK v : v = up[t]
    OBVIOUS
  <2>7. Len(v) \in Nat
    BY <1>2, <2>5, <2>6a, BufferLengths
  <2>8. /\ \A i \in 1 .. l + 1 : q[i].seq = x + i - 1
        /\ \A i \in 1 .. Len(v) : v[i].seq = x + (l + 1) + i - 1
        /\ y = x + (l + 1) + Len(v)
    <3>1. inbound[t] = q /\ Len(q) = l + 1 /\ x = expected[c]
      BY <1>12, <1>15, <2>5
    <3>2. /\ \A i \in 1 .. Len(inbound[t]) : inbound[t][i].seq = expected[c] + i - 1
          /\ \A i \in 1 .. Len(up[t]) : up[t][i].seq = expected[c] + Len(inbound[t]) + i - 1
          /\ gw[c].next = expected[c] + Len(inbound[t]) + Len(up[t])
      BY <1>2, <2>2, <2>4 DEF SteadyInv
    <3> QED
      BY <2>6, <2>6a, <3>1, <3>2
  <2>9. k = x
    <3>1. q[1].seq = x + 1 - 1
      BY <1>12, <2>8
    <3> QED
      BY <1>13, <1>15, <3>1
  <2>10. ASSUME NEW i \in 1 .. l PROVE u[i].seq = (x + 1) + i - 1
    <3>1. i + 1 \in 1 .. l + 1 /\ x + (i + 1) - 1 = (x + 1) + i - 1
      OBVIOUS
    <3> QED
      BY <1>12, <2>8, <3>1
  <2>11. ASSUME NEW i \in 1 .. Len(v) PROVE v[i].seq = (x + 1) + l + i - 1
    <3>1. x + (l + 1) + i - 1 = (x + 1) + l + i - 1
      BY <2>7
    <3> QED
      BY <2>8, <3>1
  <2>12. y = (x + 1) + l + Len(v)
    BY <2>7, <2>8
  <2>13. /\ \A i \in 1 .. Len(inbound'[t]) : inbound'[t][i].seq = expected'[c] + i - 1
         /\ \A i \in 1 .. Len(up'[t]) : up'[t][i].seq = expected'[c] + Len(inbound'[t]) + i - 1
         /\ gw'[c].next = expected'[c] + Len(inbound'[t]) + Len(up'[t])
    <3>1. /\ inbound'[t] = u /\ Len(u) = l /\ up'[t] = v /\ expected'[c] = x + 1 /\ gw'[c].next = y
      BY <1>5, <1>12, <1>16, <2>5, <2>6, <2>6a, <2>9
    <3> QED
      BY <2>10, <2>11, <2>12, <3>1
  <2>14. /\ gw[c].healthy /\ open[t]
         /\ \A i \in 1 .. Len(down[t]) : down[t][i].resp.type \in {"ANSWER", "FILLED"}
         /\ \A i \in 1 .. Len(responseQ) :
               responseQ[i].client = c => responseQ[i].resp.type \in {"ANSWER", "FILLED"}
    BY <1>2, <2>2, <2>4 DEF SteadyInv
  <2>15. /\ owner'[c] # Peer /\ gw'[c].healthy /\ open'[t]
         /\ \A i \in 1 .. Len(down'[t]) : down'[t][i].resp.type \in {"ANSWER", "FILLED"}
         /\ \A i \in 1 .. Len(responseQ') :
               responseQ'[i].client = c => responseQ'[i].resp.type \in {"ANSWER", "FILLED"}
    BY <1>5, <1>8, <2>3, <2>14
  <2> QED
    BY <2>4, <2>13, <2>15 DEF SteadyInv
<1>39. ClientInv(c)'
  BY <1>23, <1>24, <1>25, <1>27, <1>28, <1>29, <1>36, <1>37, <1>38 DEF ClientInv
<1> QED
  BY <1>6, <1>18, <1>21, <1>22, <1>39 DEF SessionInv

\* The gateway's session is not the owner any more: there is less to settle.
LEMMA SettleLess ==
    ASSUME Types, NEW c \in Clients, SettleInv(c), gw' = gw, owner'[c] # gw[c].epoch,
           down'[Current(c)] = down[Current(c)], up'[Current(c)] = up[Current(c)],
           inbound'[Current(c)] = inbound[Current(c)]
    PROVE  SettleInv(c)'
<1>1. Current(c)' = Current(c)
  BY DEF Current
<1>2. PICK a, t : /\ a = Total(gw[c].got, Settling) + Total(down[Current(c)], SettlingFrames)
                           + Len(up[Current(c)]) + Len(inbound[Current(c)])
                  /\ t = gw[c].next - 1
  OBVIOUS
<1>3. a \in Nat /\ t \in Int
  <2>1. PICK i \in Nat, j \in Nat, k \in Nat, h \in Nat, n \in Nat :
           /\ i = Total(gw[c].got, Settling) /\ j = Total(down[Current(c)], SettlingFrames)
           /\ k = Len(up[Current(c)]) /\ h = Len(inbound[Current(c)]) /\ n = gw[c].next
    BY SettleNat
  <2>2. a = i + j + k + h /\ t = n - 1
    BY <1>2, <2>1
  <2> QED
    BY <2>2
<1>4. AtExchange(c)' = 0
  BY DEF AtExchange
<1>5. a + AtExchange(c) <= t /\ AtExchange(c) \in Nat
  BY <1>2, AtExchangeNat DEF SettleInv
<1>6. a + 0 <= t
  BY <1>3, <1>5
<1> QED
  BY <1>1, <1>2, <1>4, <1>6 DEF SettleInv

\* The requests at the exchange stay in order when a connection is bound.
LEMMA OrderBound ==
    ASSUME Types, Types', NEW c \in Clients, NEW e \in 1 .. Peer, NEW s \in Sockets, s = <<c, e>>, NEW f,
           First(c, s, f) \/ Again(c, s, f) \/ Over(c, s, f), owner'[c] = e, epoch'[c] = f.epoch,
           ~unknown'[c] => expected[c] <= expected'[c], OrderInv(c), AbsentInv(c),
           pending' = pending, requestQ' = requestQ, matched' = matched, rx' = rx
    PROVE  OrderInv(c)'
<1>1. /\ Belongs(matched[c], c) /\ Belongs(requestQ, c) /\ Belongs(pending, c)
      /\ ~unknown'[c] => \A i \in 1 .. Len(pending) : IsOrder(pending[i], c) => pending[i].time <= rx[<<c, e>>]
  BY OrdersBelong
<1>2. InSession(matched[c], c)' /\ InSession(requestQ, c)' /\ InSession(pending, c)'
  BY <1>1 DEF InSession, Belongs
<1>3. /\ \A i \in 1 .. Len(matched[c]) : matched[c][i].client = c
      /\ Ascending(matched[c], c) /\ Ascending(requestQ, c) /\ Ascending(pending, c)
      /\ Precedes(matched[c], requestQ, c) /\ Precedes(matched[c], pending, c)
      /\ Precedes(requestQ, pending, c) /\ Timely(pending, c)
  BY DEF OrderInv, Timely
<1>4. /\ \A i \in 1 .. Len(matched'[c]) : matched'[c][i].client = c
      /\ Ascending(matched[c], c)' /\ Ascending(requestQ, c)' /\ Ascending(pending, c)'
      /\ Precedes(matched[c], requestQ, c)' /\ Precedes(matched[c], pending, c)'
      /\ Precedes(requestQ, pending, c)' /\ Timely(pending, c)'
  BY <1>3 DEF Ascending, Precedes, IsOrder, Timely
<1>5. ~unknown'[c] => \A i \in 1 .. Len(pending') :
                         IsOrder(pending'[i], c) => pending'[i].time <= rx'[<<c, owner'[c]>>]
  BY <1>1
<1> QED
  BY <1>2, <1>4, <1>5 DEF OrderInv, Timely

\* The second connection is bound, and nothing leaves its buffer yet.
LEMMA WaitKeeps ==
    ASSUME SessionInv, NEW s \in Sockets, ServerBind(s)
    PROVE  SessionInv'
<1>1. PICK c \in Clients, e \in 1 .. Peer : s = <<c, e>>
  BY SocketFacts
<1>2. /\ Types /\ Bounds /\ AcceptInv /\ (\A t \in Sockets : TimeInv(t))
      /\ GatewayInv(c) /\ SocketInv(c) /\ NumberInv(c) /\ SettleInv(c) /\ AbsentInv(c)
      /\ ReplyInv(c) /\ OrderInv(c) /\ WholeInv(c) /\ SteadyInv(c)
  BY InvOf
<1>3. s[1] = c /\ s[2] = e
  BY <1>1
<1>4. PICK f \in UpFrames : WaitResult(s, f)
  BY <1>2, <1>3, WaitEffect
<1>5. UNCHANGED <<gw, up, down, clock, inbound, rx, open, accepted, anonSeq, pending, requestQ, responseQ,
                 exPhase, halted, matched, issued, peerSent>>
  BY DEF ServerBind, wireVars, engineVars
<1>6. Types' /\ Bounds'
  BY <1>2, <1>3, TypesWait
<1>7. /\ f = Head(inbound[s]) /\ inbound[s] # <<>> /\ e = Peer /\ ~Same(s, f)
      /\ BindResult(s, f) /\ f.epoch \in 1 .. MaxEpoch
      /\ outSeq' = [outSeq EXCEPT ![c] = Renumber(s, f)]
      /\ expected' = [expected EXCEPT ![c] = f.seq]
  BY <1>3, <1>4 DEF WaitResult
<1>8. /\ owner'[c] = e /\ epoch'[c] = f.epoch
      /\ \A d \in Clients \ {c} : /\ owner'[d] = owner[d] /\ epoch'[d] = epoch[d]
                                  /\ unknown'[d] = unknown[d]
      /\ First(c, s, f) \/ Again(c, s, f) \/ Over(c, s, f)
      /\ unknown'[c] => e = Peer
  BY <1>1, <1>2, <1>7, BindFacts
<1>9. ~MustBeUnused(c, e) /\ peerSent[c] # 0
  BY <1>1, <1>2, <1>7, Speaking
<1>10. /\ outSeq'[c] = Renumber(s, f) /\ expected'[c] = f.seq
       /\ \A d \in Clients \ {c} : outSeq'[d] = outSeq[d] /\ expected'[d] = expected[d]
  <2>1. PICK y, k : y = Renumber(s, f) /\ k = f.seq
    OBVIOUS
  <2>2. outSeq \in [Clients -> Nat \ {0}] /\ expected \in [Clients -> Nat \ {0}]
    BY <1>2 DEF Types
  <2>3. outSeq'[c] = y /\ \A d \in Clients \ {c} : outSeq'[d] = outSeq[d]
    BY <1>7, <2>1, <2>2
  <2>4. expected'[c] = k /\ \A d \in Clients \ {c} : expected'[d] = expected[d]
    BY <1>7, <2>1, <2>2
  <2> QED
    BY <2>1, <2>3, <2>4
<1>11. ClientStep(c)
  BY <1>5, <1>8, <1>10 DEF ClientStep, SocketsKept, SessionKept, EngineKept
<1>12. \A d \in Clients \ {c} : ClientInv(d)'
  BY <1>2, <1>5, <1>6, <1>11, ClientStepKeeps
<1>13. AcceptInv'
  BY <1>2, <1>5, AcceptKept
<1>14. \A t \in Sockets : TimeInv(t)'
  BY <1>2, <1>5 DEF TimeInv
<1>15. GatewayInv(c)'
  BY <1>2, <1>5, GatewayKept
<1>16. SocketInv(c)'
  <2>1. ASSUME NEW y \in 1 .. Peer PROVE FrameShape(inbound'[<<c, y>>], y)
    BY <1>2, <1>5 DEF SocketInv
  <2>2. epoch'[c] # 0
    BY <1>7, <1>8, SocketFacts
  <2> QED
    BY <1>2, <1>5, <1>7, <1>8, <1>9, <2>1, <2>2, SocketBound
<1>17. NumberInv(c)'
  BY <1>1, <1>2, <1>5, <1>8, <1>10, NumberBound
<1>18. PICK z \in 1 .. Peer : z = gw[c].epoch /\ z # Peer /\ Current(c) = <<c, z>>
  BY <1>2, CurrentIs
<1>19. SettleInv(c)'
  BY <1>2, <1>5, <1>7, <1>8, <1>18, SettleLess
<1>20. AbsentInv(c)'
  <2>1. e # 0
    BY SocketFacts
  <2> QED
    BY <1>8, <2>1 DEF AbsentInv
<1>21. ReplyInv(c)'
  BY <1>1, <1>2, <1>5, <1>8, ReplyBound
<1>22. OrderInv(c)'
  <2>1. ~unknown'[c] => expected[c] <= expected'[c]
    <3>1. ~unknown'[c] => f.seq = expected[c]
      BY <1>8 DEF First, Again, Over
    <3>2. expected[c] \in Nat
      BY <1>2 DEF Types
    <3> QED
      BY <1>10, <3>1, <3>2
  <2> QED
    BY <1>1, <1>2, <1>5, <1>6, <1>8, <2>1, OrderBound
<1>23. WholeInv(c)'
  BY <1>5, <1>9 DEF WholeInv
<1>24. SteadyInv(c)'
  <2>1. ~Steady(c)'
    <3>1. e = Peer /\ Peer # 1
      BY <1>7, SocketFacts
    <3> QED
      BY <1>1, <1>2, <1>5, <1>8, <3>1, BindsSteady
  <2> QED
    BY <2>1 DEF SteadyInv
<1>25. ClientInv(c)'
  BY <1>15, <1>16, <1>17, <1>19, <1>20, <1>21, <1>22, <1>23, <1>24 DEF ClientInv
<1> QED
  BY <1>6, <1>12, <1>13, <1>14, <1>25 DEF SessionInv

\* The frame of a session that goes on is good.
LEMMA SteadyAdmits ==
    ASSUME Types, NEW c \in Clients, NEW e \in 1 .. Peer, NEW s \in Sockets, s = <<c, e>>, SocketInv(c),
           SteadyInv(c), Steady(c), e # Peer, inbound[s] # <<>>, NEW f, f = Head(inbound[s])
    PROVE  Reason(s, f) = "NONE"
<1>1. s[1] = c /\ s[2] = e
  OBVIOUS
<1>2. gw[c].epoch = 1 /\ owner[c] # Peer
  BY DEF SteadyInv, Steady
<1>3. e <= 1 /\ f.type = "NEW" /\ f.epoch = e
  BY <1>2, Speaking
<1>4. e = 1
  BY <1>3, SocketFacts
<1>5. f.seq = expected[c]
  <2>1. f = inbound[s][1] /\ 1 \in 1 .. Len(inbound[s])
    BY FirstFrame
  <2>2. inbound[s][1].seq = expected[c] + 1 - 1
    BY <1>4, <2>1 DEF SteadyInv
  <2>3. PICK x \in Nat : x = expected[c]
    BY DEF Types
  <2> QED
    BY <2>1, <2>2, <2>3
<1>6. owner[c] \in {0, 1}
  <2>1. owner[c] \in 0 .. Peer /\ owner[c] # Peer /\ owner[c] <= 1
    BY <1>2 DEF Types, SocketInv
  <2> QED
    BY <2>1, SocketFacts
<1>7. ~unknown[c] /\ (owner[c] # 0 => epoch[c] = 1)
  BY <1>2, <1>6 DEF SocketInv
<1>8. ~TakesOver(s, f)
  BY <1>3 DEF TakesOver, Queries
<1> QED
  BY <1>1, <1>3, <1>4, <1>5, <1>6, <1>7, <1>8 DEF Reason, Illformed

\* A refused frame is answered.
LEMMA RejectKeeps ==
    ASSUME SessionInv, NEW s \in Sockets, ServerReject(s)
    PROVE  SessionInv'
<1>1. PICK c \in Clients, e \in 1 .. Peer : s = <<c, e>>
  BY SocketFacts
<1>2. /\ Types /\ Bounds /\ AcceptInv /\ (\A t \in Sockets : TimeInv(t))
      /\ GatewayInv(c) /\ SocketInv(c) /\ NumberInv(c) /\ SettleInv(c) /\ AbsentInv(c)
      /\ ReplyInv(c) /\ OrderInv(c) /\ WholeInv(c) /\ SteadyInv(c)
  BY InvOf
<1>3. s[1] = c /\ s[2] = e
  BY <1>1
<1>4. PICK f \in UpFrames, d \in DownFrames : RejectResult(s, f, d)
  BY <1>2, <1>3, RejectEffect
<1>5. UNCHANGED <<gw, up, clock, rx, open, accepted, pending, requestQ, responseQ, exPhase, halted,
                 matched, issued, peerSent>>
  BY DEF ServerReject, wireVars, engineVars
<1>6. Types' /\ Bounds'
  BY <1>2, <1>3, TypesReject
<1>7. /\ f = Head(inbound[s]) /\ inbound[s] # <<>> /\ inbound' = [inbound EXCEPT ![s] = Tail(@)]
      /\ down' = [down EXCEPT ![s] = Append(@, d)] /\ d.epoch = f.epoch
      /\ d.resp.type \notin {"ANSWER", "FILLED"} /\ d.resp.rid = 0
      /\ d.resp.type = Reason(s, f) /\ open[s]
  BY <1>4 DEF RejectResult
<1>8. PICK bound, own, strange :
         /\ bound = (/\ BindResult(s, f) /\ f.epoch \in 1 .. MaxEpoch /\ e = Peer
                     /\ d.seq = Renumber(s, f) /\ outSeq' = [outSeq EXCEPT ![c] = d.seq + 1]
                     /\ anonSeq' = anonSeq /\ expected' = [expected EXCEPT ![c] = f.seq + 1])
         /\ own = (/\ owner[c] = e /\ d.seq = outSeq[c] /\ outSeq' = [outSeq EXCEPT ![c] = d.seq + 1]
                   /\ anonSeq' = anonSeq /\ UNCHANGED <<owner, epoch, unknown, expected>>)
         /\ strange = (/\ owner[c] # e /\ d.seq = anonSeq[s] /\ outSeq' = outSeq
                       /\ anonSeq' = [anonSeq EXCEPT ![s] = d.seq + 1]
                       /\ UNCHANGED <<owner, epoch, unknown, expected>>)
         /\ bound \/ own \/ strange
  BY <1>3, <1>4 DEF RejectResult
<1>9. /\ ~MustBeUnused(c, e) /\ (e # Peer => e <= gw[c].epoch) /\ (e = Peer => peerSent[c] # 0)
      /\ (e # Peer => f.type = "NEW" /\ f.epoch = e)
  BY <1>1, <1>2, <1>7, Speaking
<1>10. ASSUME bound
       PROVE  /\ owner'[c] = e /\ epoch'[c] = f.epoch /\ e = Peer /\ f.epoch # 0
              /\ \A y \in Clients \ {c} : /\ owner'[y] = owner[y] /\ epoch'[y] = epoch[y]
                                          /\ unknown'[y] = unknown[y]
              /\ First(c, s, f) \/ Again(c, s, f) \/ Over(c, s, f)
  <2>0. BindResult(s, f)
    BY <1>8, <1>10
  <2>1. /\ owner'[c] = e /\ epoch'[c] = f.epoch
        /\ \A y \in Clients \ {c} : /\ owner'[y] = owner[y] /\ epoch'[y] = epoch[y]
                                    /\ unknown'[y] = unknown[y]
        /\ First(c, s, f) \/ Again(c, s, f) \/ Over(c, s, f)
    BY <1>1, <1>2, <2>0, BindFacts
  <2>2. f.epoch # 0
    <3>1. f.epoch \in 1 .. MaxEpoch
      BY <1>8, <1>10
    <3> QED
      BY <3>1
  <2>3. e = Peer
    BY <1>8, <1>10
  <2> QED
    BY <2>1, <2>2, <2>3
<1>11. PICK q \in Seq(UpFrames) : q = inbound[s] /\ q # <<>>
  BY <1>2, <1>7, BufferLengths
<1>12. PICK u : u = Tail(q)
  OBVIOUS
<1>13. PICK l \in Nat : Len(q) = l + 1 /\ Len(u) = l
  BY <1>11, <1>12, TailParts
<1>14. PICK a \in Seq(DownFrames) : a = down[s]
  BY <1>2, BufferLengths
<1>15. PICK m \in Nat : m = Len(a)
  OBVIOUS
<1>15a. PICK w : w = Append(a, d)
  OBVIOUS
<1>16. w \in Seq(DownFrames) /\ Len(w) = m + 1 /\ w[m + 1] = d /\ \A i \in 1 .. m : w[i] = a[i]
  BY <1>15, <1>15a, AppendType
<1>17. /\ inbound'[<<c, e>>] = u /\ down'[<<c, e>>] = w
       /\ \A y \in 1 .. Peer : y # e => /\ inbound'[<<c, y>>] = inbound[<<c, y>>]
                                        /\ down'[<<c, y>>] = down[<<c, y>>]
       /\ \A y \in Clients \ {c} : \A i \in 1 .. Peer : /\ inbound'[<<y, i>>] = inbound[<<y, i>>]
                                                        /\ down'[<<y, i>>] = down[<<y, i>>]
  <2>1. /\ inbound \in [Sockets -> Seq(UpFrames)] /\ inbound' = [inbound EXCEPT ![<<c, e>>] = u]
        /\ down \in [Sockets -> Seq(DownFrames)] /\ down' = [down EXCEPT ![<<c, e>>] = w]
    BY <1>1, <1>2, <1>7, <1>11, <1>12, <1>14, <1>15a DEF Types
  <2> QED
    BY <2>1, SocketFacts
<1>18. PICK n \in Nat, x \in Nat, k \in Nat : n = d.seq /\ x = expected[c] /\ k = f.seq
  BY <1>2 DEF Types, DownFrames, UpFrames
<1>19. /\ \A y \in Clients \ {c} : outSeq'[y] = outSeq[y] /\ expected'[y] = expected[y]
       /\ \A y \in 1 .. Peer : y # e => anonSeq'[<<c, y>>] = anonSeq[<<c, y>>]
       /\ \A y \in Clients \ {c} : \A i \in 1 .. Peer : anonSeq'[<<y, i>>] = anonSeq[<<y, i>>]
       /\ own \/ bound => outSeq'[c] = n + 1
       /\ strange => anonSeq'[s] = n + 1
       /\ bound => expected'[c] = k + 1
  <2>1. /\ outSeq \in [Clients -> Nat \ {0}] /\ expected \in [Clients -> Nat \ {0}]
        /\ anonSeq \in [Sockets -> Nat \ {0}]
    BY <1>2 DEF Types
  <2>2. \/ outSeq' = outSeq
        \/ outSeq' = [outSeq EXCEPT ![c] = n + 1]
    BY <1>8, <1>18
  <2>3. \/ anonSeq' = anonSeq
        \/ anonSeq' = [anonSeq EXCEPT ![<<c, e>>] = n + 1]
    BY <1>1, <1>8, <1>18
  <2>4. expected' = expected \/ expected' = [expected EXCEPT ![c] = k + 1]
    BY <1>8, <1>18
  <2>5. own \/ bound => outSeq'[c] = n + 1
    BY <1>8, <1>18, <2>1
  <2>6. strange => anonSeq'[s] = n + 1
    BY <1>8, <1>18, <2>1
  <2>7. bound => expected'[c] = k + 1
    BY <1>8, <1>18, <2>1
  <2>8. \A y \in Clients \ {c} : outSeq'[y] = outSeq[y] /\ expected'[y] = expected[y]
    BY <2>1, <2>2, <2>4
  <2>9. /\ \A y \in 1 .. Peer : y # e => anonSeq'[<<c, y>>] = anonSeq[<<c, y>>]
        /\ \A y \in Clients \ {c} : \A i \in 1 .. Peer : anonSeq'[<<y, i>>] = anonSeq[<<y, i>>]
    BY <2>1, <2>3, SocketFacts
  <2> QED
    BY <2>5, <2>6, <2>7, <2>8, <2>9
<1>20. /\ own \/ strange => UNCHANGED <<owner, epoch, unknown, expected>>
       /\ own => owner[c] = e /\ n = outSeq[c] /\ anonSeq' = anonSeq
       /\ strange => owner[c] # e /\ n = anonSeq[s] /\ outSeq' = outSeq
       /\ bound \/ own \/ strange
       /\ bound => e = Peer /\ anonSeq' = anonSeq
  BY <1>8, <1>18
<1>21. ClientStep(c)
  <2>1. \A y \in Clients \ {c} : /\ owner'[y] = owner[y] /\ epoch'[y] = epoch[y]
                                 /\ unknown'[y] = unknown[y]
    BY <1>10, <1>20
  <2> QED
    BY <1>5, <1>17, <1>19, <2>1 DEF ClientStep, SocketsKept, SessionKept, EngineKept
<1>22. \A y \in Clients \ {c} : ClientInv(y)'
  BY <1>2, <1>5, <1>6, <1>21, ClientStepKeeps
<1>23. AcceptInv'
  BY <1>2, <1>5, AcceptKept
<1>24. \A t \in Sockets : TimeInv(t)'
  BY <1>2, <1>5 DEF TimeInv
<1>25. GatewayInv(c)'
  BY <1>2, <1>5, GatewayKept
<1>26. PICK z \in 1 .. Peer : z = gw[c].epoch /\ z # Peer /\ Current(c) = <<c, z>>
  BY <1>2, CurrentIs
<1>27. Current(c)' = Current(c) /\ z # 0 /\ e # 0
  BY <1>5, <1>26, SocketFacts DEF Current
<1>28. \A y \in 1 .. Peer : FrameShape(inbound'[<<c, y>>], y)
  <2>1. ASSUME NEW y \in 1 .. Peer PROVE FrameShape(inbound'[<<c, y>>], y)
    <3>1. FrameShape(inbound[<<c, y>>], y)
      BY <1>2 DEF SocketInv
    <3>2. CASE y = e
      BY <1>1, <1>11, <1>12, <1>17, <3>1, <3>2, ShapeTail
    <3>3. CASE y # e
      BY <1>17, <3>1, <3>3
    <3> QED
      BY <3>2, <3>3
  <2> QED
    BY <2>1
<1>29. SocketInv(c)'
  <2>1. CASE bound
    BY <1>2, <1>5, <1>9, <1>10, <1>17, <1>19, <1>28, <2>1, SocketBound
  <2>2. CASE ~bound
    <3>1. ASSUME NEW y \in 1 .. Peer
          PROVE  /\ FrameShape(up'[<<c, y>>], y) /\ FrameShape(inbound'[<<c, y>>], y)
                 /\ MustBeUnused(c, y) => /\ up'[<<c, y>>] = up[<<c, y>>]
                                          /\ down'[<<c, y>>] = down[<<c, y>>]
                                          /\ inbound'[<<c, y>>] = inbound[<<c, y>>]
                                          /\ anonSeq'[<<c, y>>] = anonSeq[<<c, y>>]
      <4>1. MustBeUnused(c, y) => y # e
        BY <1>9
      <4>2. FrameShape(up[<<c, y>>], y)
        BY <1>2 DEF SocketInv
      <4> QED
        BY <1>5, <1>17, <1>19, <1>28, <4>1, <4>2
    <3>2. UNCHANGED <<owner, epoch, unknown>>
      BY <1>20, <2>2
    <3> QED
      BY <1>2, <1>5, <3>1, <3>2, SocketStep
  <2> QED
    BY <2>1, <2>2
<1>30. ASSUME e # z PROVE NumberInv(c)' /\ SettleInv(c)' /\ ReplyInv(c)'
  <2>1. /\ down'[Current(c)] = down[Current(c)] /\ inbound'[Current(c)] = inbound[Current(c)]
        /\ anonSeq'[Current(c)] = anonSeq[Current(c)]
    BY <1>17, <1>19, <1>26, <1>30
  <2>2. ASSUME bound PROVE NumberInv(c)' /\ SettleInv(c)' /\ ReplyInv(c)'
    <3>1. NumberInv(c)'
      BY <1>1, <1>2, <1>5, <1>10, <1>26, <1>30, <2>1, <2>2, NumberBound
    <3>2. SettleInv(c)'
      BY <1>2, <1>5, <1>10, <1>26, <1>30, <2>1, <2>2, SettleLess
    <3>3. ReplyInv(c)'
      BY <1>1, <1>2, <1>5, <1>10, <2>1, <2>2, ReplyBound
    <3> QED
      BY <3>1, <3>2, <3>3
  <2>3. ASSUME ~bound PROVE NumberInv(c)' /\ SettleInv(c)' /\ ReplyInv(c)'
    <3>1. UNCHANGED <<owner, epoch, unknown, expected>>
      BY <1>20, <2>3
    <3>2. QueuesKept(c)
      BY <1>2, <1>5, QueuesSame
    <3>3. NextNumber(c)' = NextNumber(c)
      <4>1. CASE owner[c] = z
        <5>1. outSeq'[c] = outSeq[c]
          BY <1>20, <1>30, <2>3, <4>1
        <5> QED
          BY <1>5, <1>26, <3>1, <4>1, <5>1 DEF NextNumber
      <4>2. CASE owner[c] # z
        BY <1>5, <1>26, <1>27, <2>1, <3>1, <4>2 DEF NextNumber
      <4> QED
        BY <4>1, <4>2
    <3>4. NumberInv(c)'
      BY <1>2, <1>5, <1>27, <2>1, <3>3 DEF NumberInv
    <3>5. SettleInv(c)'
      BY <1>2, <1>5, <2>1, <3>1, <3>2, SettleKept
    <3>6. ReplyInv(c)'
      BY <1>2, <1>5, <1>6, <2>1, <3>1, <3>2, ReplyKept
    <3> QED
      BY <3>4, <3>5, <3>6
  <2> QED
    BY <2>2, <2>3
<1>31. d \in SettlingFrames /\ d \notin GenuineFrames
  BY <1>7 DEF SettlingFrames, GenuineFrames
<1>32. /\ Total(w, SettlingFrames) = Total(a, SettlingFrames) + 1
       /\ Total(w, GenuineFrames) = Total(a, GenuineFrames)
       /\ \A i \in 1 .. m : Count(w, GenuineFrames, i) = Count(a, GenuineFrames, i)
  <2>1. /\ Total(w, SettlingFrames) = Total(a, SettlingFrames) + 1
        /\ Total(w, GenuineFrames) = Total(a, GenuineFrames) + 0
        /\ \A i \in 1 .. m : Count(w, GenuineFrames, i) = Count(a, GenuineFrames, i)
    BY <1>15, <1>15a, <1>31, TotalAppend
  <2>2. Total(a, GenuineFrames) \in Nat
    BY TotalNat
  <2> QED
    BY <2>1, <2>2
<1>33. ASSUME e = z PROVE NumberInv(c)' /\ SettleInv(c)' /\ ReplyInv(c)'
  <2>1. ~bound /\ UNCHANGED <<owner, epoch, unknown, expected>>
    BY <1>20, <1>26, <1>33
  <2>2. /\ Current(c) = s /\ down[Current(c)] = a /\ down'[Current(c)] = w
        /\ inbound[Current(c)] = q /\ inbound'[Current(c)] = u
    BY <1>1, <1>11, <1>14, <1>17, <1>26, <1>33
  <2>3. PICK h \in Nat : h = gw[c].expected
    <3>1. gw[c] \in Gateways
      BY <1>2, CurrentSocket
    <3> QED
      BY <3>1 DEF Gateways
  <2>4. NumberInv(c)'
    <3>1. /\ \A i \in 1 .. m : a[i].seq = h + i - 1 /\ a[i].epoch = z
          /\ NextNumber(c) = h + m
      BY <1>2, <1>7, <1>15, <1>26, <2>2, <2>3 DEF NumberInv
    <3>2. n = h + m /\ NextNumber(c)' = n + 1
      <4>1. CASE own
        <5>1. owner[c] = z /\ n = outSeq[c] /\ outSeq'[c] = n + 1
          BY <1>19, <1>20, <1>33, <4>1
        <5>2. NextNumber(c) = n /\ NextNumber(c)' = n + 1
          BY <1>5, <1>26, <2>1, <5>1 DEF NextNumber
        <5> QED
          BY <3>1, <5>2
      <4>2. CASE strange
        <5>1. owner[c] # z /\ n = anonSeq[s] /\ anonSeq'[s] = n + 1
          BY <1>19, <1>20, <1>33, <4>2
        <5>2. NextNumber(c) = n /\ NextNumber(c)' = n + 1
          BY <1>5, <1>26, <1>27, <2>1, <2>2, <5>1 DEF NextNumber
        <5> QED
          BY <3>1, <5>2
      <4> QED
        BY <1>20, <2>1, <4>1, <4>2
    <3>3. d.seq = h + m /\ d.epoch = z
      BY <1>7, <1>9, <1>18, <1>26, <1>33, <3>2
    <3>4. ASSUME NEW i \in 1 .. m + 1 PROVE w[i].seq = h + i - 1 /\ w[i].epoch = z
      <4>1. CASE i \in 1 .. m
        BY <1>16, <3>1, <4>1
      <4>2. CASE i = m + 1
        <5>1. h + (m + 1) - 1 = h + m
          OBVIOUS
        <5> QED
          BY <1>16, <3>3, <4>2, <5>1
      <4> QED
        BY <4>1, <4>2
    <3>5. n + 1 = h + (m + 1)
      BY <3>2
    <3> QED
      BY <1>5, <1>16, <1>26, <1>27, <2>2, <2>3, <3>2, <3>4, <3>5 DEF NumberInv
  <2>5. SettleInv(c)'
    <3>1. AtExchange(c)' = AtExchange(c)
      BY <1>5, <2>1 DEF AtExchange
    <3>2. PICK i \in Nat, j \in Nat, still \in Nat, y \in Nat :
             /\ i = Total(gw[c].got, Settling) /\ j = Total(a, SettlingFrames)
             /\ still = Len(up[Current(c)]) /\ y = gw[c].next
      BY <1>2, <2>2, SettleNat
    <3>3. PICK g \in Nat : g = AtExchange(c)
      BY <1>2, AtExchangeNat
    <3>4. i + j + still + (l + 1) + g <= y - 1
      BY <1>2, <1>13, <2>2, <3>2, <3>3 DEF SettleInv
    <3>5. i + (j + 1) + still + l + g <= y - 1
      BY <3>4
    <3>6. Total(down'[Current(c)'], SettlingFrames) = j + 1 /\ Len(inbound'[Current(c)']) = l
      BY <1>13, <1>27, <1>32, <2>2, <3>2
    <3> QED
      BY <1>5, <1>27, <3>1, <3>2, <3>3, <3>5, <3>6 DEF SettleInv
  <2>6. ReplyInv(c)'
    <3>1. PICK b, g : b = Total(a, GenuineFrames) /\ g = Total(gw[c].got, Genuine)
      OBVIOUS
    <3>2. b = Total(down'[Current(c)'], GenuineFrames) /\ g = Total(gw'[c].got, Genuine)
      BY <1>5, <1>27, <1>32, <2>2, <3>1
    <3>3. ASSUME NEW i \in 1 .. m + 1, w[i].resp.rid # 0
          PROVE  w[i].resp.rid = g + Count(w, GenuineFrames, i) /\ w[i].resp.epoch = gw[c].epoch
      <4>1. i \in 1 .. m
        <5>1. i # m + 1
          BY <1>7, <1>16, <3>3
        <5> QED
          BY <5>1
      <4>2. a[i].resp.rid # 0 => a[i].resp.rid = g + Count(a, GenuineFrames, i) /\ a[i].resp.epoch = gw[c].epoch
        BY <1>2, <1>15, <2>2, <3>1, <4>1 DEF ReplyInv
      <4> QED
        BY <1>16, <1>32, <3>3, <4>1, <4>2
    <3>4. \A i \in 1 .. Len(down'[Current(c)']) :
             down'[Current(c)'][i].resp.rid # 0 =>
                /\ down'[Current(c)'][i].resp.rid = g + Count(down'[Current(c)'], GenuineFrames, i)
                /\ down'[Current(c)'][i].resp.epoch = gw'[c].epoch
      BY <1>5, <1>16, <1>27, <2>2, <3>3
    <3>5. \A i \in 1 .. Len(gw'[c].got) :
             gw'[c].got[i].rid # 0 => /\ gw'[c].got[i].rid = Count(gw'[c].got, Genuine, i)
                                      /\ gw'[c].got[i].epoch = gw'[c].epoch
      BY <1>2, <1>5 DEF ReplyInv
    <3>6. /\ \A i \in 1 .. Len(responseQ') :
                responseQ'[i].client = c =>
                   /\ responseQ'[i].resp.epoch = epoch'[c] /\ responseQ'[i].resp.rid # 0
                   /\ owner'[c] = gw'[c].epoch =>
                         responseQ'[i].resp.rid = g + b + Count(responseQ', RepliesTo(c), i)
          /\ owner'[c] = gw'[c].epoch => issued'[c] = g + b + Total(responseQ', RepliesTo(c))
      BY <1>2, <1>5, <2>1, <2>2, <3>1 DEF ReplyInv
    <3> QED
      BY <3>2, <3>4, <3>5, <3>6 DEF ReplyInv
  <2> QED
    BY <2>4, <2>5, <2>6
<1>34. AbsentInv(c)'
  <2>1. SUFFICES ASSUME owner'[c] = 0 PROVE AbsentInv(c)'
    BY DEF AbsentInv
  <2>2. UNCHANGED <<owner, epoch, unknown, expected>>
    BY <1>10, <1>20, <1>27, <2>1
  <2>3. /\ owner[c] = 0 /\ expected[c] = 1 /\ accepted[c] = 0 /\ matched[c] = <<>> /\ issued[c] = 0
        /\ \A i \in 1 .. Len(pending) : pending[i].client # c
        /\ \A i \in 1 .. Len(requestQ) : requestQ[i].client # c
        /\ \A i \in 1 .. Len(responseQ) : responseQ[i].client # c
        /\ Total(gw[c].got, Genuine) = 0
        /\ \A y \in 1 .. Peer : Total(down[<<c, y>>], GenuineFrames) = 0
    BY <1>2, <2>1, <2>2 DEF AbsentInv
  <2>4. ASSUME NEW y \in 1 .. Peer PROVE Total(down'[<<c, y>>], GenuineFrames) = 0
    <3>1. CASE y = e
      BY <1>1, <1>14, <1>17, <1>32, <2>3, <3>1
    <3>2. CASE y # e
      BY <1>17, <2>3, <3>2
    <3> QED
      BY <3>1, <3>2
  <2> QED
    BY <1>5, <2>2, <2>3, <2>4 DEF AbsentInv
<1>35. OrderInv(c)'
  <2>1. ASSUME bound PROVE OrderInv(c)'
    <3>1. ~unknown'[c] => expected[c] <= expected'[c]
      <4>1. ~unknown'[c] => k = x
        BY <1>10, <1>18, <2>1 DEF First, Again, Over
      <4> QED
        BY <1>18, <1>19, <2>1, <4>1
    <3> QED
      BY <1>1, <1>2, <1>5, <1>6, <1>10, <2>1, <3>1, OrderBound
  <2>2. ASSUME ~bound PROVE OrderInv(c)'
    <3>1. UNCHANGED <<owner, epoch, unknown, expected>>
      BY <1>20, <2>2
    <3>2. QueuesKept(c)
      BY <1>2, <1>5, QueuesSame
    <3> QED
      BY <1>2, <1>5, <1>6, <3>1, <3>2, OrderKept
  <2> QED
    BY <2>1, <2>2
<1>36. WholeInv(c)'
  <2>1. ASSUME bound PROVE WholeInv(c)'
    <3>1. peerSent'[c] # 0
      BY <1>5, <1>9, <1>10, <2>1
    <3> QED
      BY <3>1 DEF WholeInv
  <2>2. ASSUME ~bound PROVE WholeInv(c)'
    <3>1. UNCHANGED <<owner, epoch, unknown, expected>>
      BY <1>20, <2>2
    <3>2. QueuesKept(c)
      BY <1>2, <1>5, QueuesSame
    <3> QED
      BY <1>2, <1>5, <1>6, <3>1, <3>2, WholeKept
  <2> QED
    BY <2>1, <2>2
<1>37. SteadyInv(c)'
  <2>1. SUFFICES ASSUME Steady(c)' PROVE SteadyInv(c)'
    BY DEF SteadyInv
  <2>2. 1 \in 1 .. Peer /\ Peer # 1
    BY SocketFacts
  <2>3. ~bound
    BY <1>1, <1>2, <1>5, <1>9, <1>10, <2>1, <2>2, BindsSteady
  <2>4. UNCHANGED <<owner, epoch, unknown, expected>>
    BY <1>20, <2>3
  <2>5. Steady(c)
    BY <1>5, <2>1, <2>4 DEF Steady
  <2>6. e = Peer
    <3>1. Reason(s, f) # "NONE"
      BY <1>7 DEF DownFrames, Responses, ResponseTypes
    <3> QED
      BY <1>1, <1>2, <1>7, <2>5, <3>1, SteadyAdmits
  <2>7. inbound'[<<c, 1>>] = inbound[<<c, 1>>] /\ down'[<<c, 1>>] = down[<<c, 1>>]
    BY <1>17, <2>2, <2>6
  <2>8. QueuesKept(c)
    BY <1>2, <1>5, QueuesSame
  <2> QED
    BY <1>2, <1>5, <2>4, <2>7, <2>8, SteadyKept
<1>38. ClientInv(c)'
  BY <1>25, <1>29, <1>30, <1>33, <1>34, <1>35, <1>36, <1>37 DEF ClientInv
<1> QED
  BY <1>6, <1>22, <1>23, <1>24, <1>38 DEF SessionInv

-------------------------------------------------------------------------------
(* The sequencer publishes.                                                   *)

\* v has been sorted into w and cut at n: p has joined q, and r is the rest.
Publishes(q, v, w, n, p, r, u) ==
    /\ q \in Seq(Requests) /\ v \in Seq(Requests) /\ w = StableSort(v) /\ w \in Seq(Requests)
    /\ Len(w) = Len(v) /\ n \in 0 .. Len(v)
    /\ p = SubSeq(w, 1, n) /\ r = SubSeq(w, n + 1, Len(w)) /\ u = q \o p

Places(q, v, w, n, p, r, u, k, l) ==
    /\ n \in Nat /\ Len(q) = l /\ Len(w) = n + k /\ Len(v) = n + k
    /\ Len(p) = n /\ Len(r) = k /\ Len(u) = l + n
    /\ \A i \in 1 .. k : r[i] = w[n + i]
    /\ \A i \in 1 .. l : u[i] = q[i]
    /\ \A i \in 1 .. n : u[l + i] = w[i]

LEMMA PublishedPlaces ==
    ASSUME NEW q, NEW v, NEW w, NEW n, NEW p, NEW r, NEW u, Publishes(q, v, w, n, p, r, u)
    PROVE  \E k \in Nat, l \in Nat : Places(q, v, w, n, p, r, u, k, l)
<1>1. PICK m \in Nat, l \in Nat : m = Len(v) /\ l = Len(q) /\ m = Len(w)
  BY DEF Publishes
<1>2. n \in Nat /\ n <= m
  BY <1>1 DEF Publishes
<1>3. PICK k \in Nat : m = n + k
  <2>1. m - n \in Nat /\ m = n + (m - n)
    BY <1>2
  <2> QED
    BY <2>1
<1>4. w \in Seq(Requests) /\ n \in 0 .. Len(w)
  BY <1>1 DEF Publishes
<1>5. /\ p \in Seq(Requests) /\ Len(p) = n /\ Len(r) = m - n
      /\ \A i \in 1 .. n : p[i] = w[i]
      /\ \A i \in 1 .. m - n : r[i] = w[n + i]
  <2>1. /\ SubSeq(w, 1, n) \in Seq(Requests) /\ Len(SubSeq(w, 1, n)) = n
        /\ Len(SubSeq(w, n + 1, Len(w))) = Len(w) - n
        /\ \A i \in 1 .. n : SubSeq(w, 1, n)[i] = w[i]
        /\ \A i \in 1 .. Len(w) - n : SubSeq(w, n + 1, Len(w))[i] = w[n + i]
    BY <1>4, SplitSeq
  <2>2. p = SubSeq(w, 1, n) /\ r = SubSeq(w, n + 1, Len(w))
    BY DEF Publishes
  <2> QED
    BY <1>1, <2>1, <2>2
<1>6. m - n = k
  BY <1>2, <1>3
<1>7. /\ Len(u) = l + n
      /\ \A i \in 1 .. l + n : u[i] = IF i <= l THEN q[i] ELSE p[i - l]
  BY <1>1, <1>5, ConcatProperties DEF Publishes
<1>8. \A i \in 1 .. l : u[i] = q[i]
  <2>1. \A i \in 1 .. l : i \in 1 .. l + n /\ i <= l
    BY <1>2
  <2> QED
    BY <1>7, <2>1
<1>9. ASSUME NEW i \in 1 .. n PROVE u[l + i] = w[i]
  <2>1. l + i \in 1 .. l + n /\ ~(l + i <= l) /\ (l + i) - l = i
    BY <1>2
  <2> QED
    BY <1>5, <1>7, <2>1
<1>10. Places(q, v, w, n, p, r, u, k, l)
  BY <1>1, <1>2, <1>3, <1>5, <1>6, <1>7, <1>8, <1>9 DEF Places
<1> QED
  BY <1>10

\* Nothing is lost, and nothing is new.
Gathered(q, v, r, u) ==
    /\ \A i \in 1 .. Len(u) : \/ \E j \in 1 .. Len(q) : u[i] = q[j]
                              \/ \E j \in 1 .. Len(v) : u[i] = v[j]
    /\ \A i \in 1 .. Len(r) : \E j \in 1 .. Len(v) : r[i] = v[j]
    /\ \A j \in 1 .. Len(q) : \E i \in 1 .. Len(u) : u[i] = q[j]
    /\ \A j \in 1 .. Len(v) : \/ \E i \in 1 .. Len(u) : u[i] = v[j]
                              \/ \E i \in 1 .. Len(r) : r[i] = v[j]

LEMMA PublishedSame ==
    ASSUME NEW q, NEW v, NEW w, NEW n, NEW p, NEW r, NEW u, Publishes(q, v, w, n, p, r, u)
    PROVE  /\ \A S : Total(u, S) + Total(r, S) = Total(q, S) + Total(v, S)
           /\ Gathered(q, v, r, u)
<1>0. PICK k \in Nat, l \in Nat : Places(q, v, w, n, p, r, u, k, l)
  BY PublishedPlaces
<1>1. /\ n \in Nat /\ Len(q) = l /\ Len(w) = n + k /\ Len(v) = n + k
      /\ Len(p) = n /\ Len(r) = k /\ Len(u) = l + n
      /\ \A i \in 1 .. k : r[i] = w[n + i]
      /\ \A i \in 1 .. l : u[i] = q[i]
      /\ \A i \in 1 .. n : u[l + i] = w[i]
  BY <1>0 DEF Places
<1>2. v \in Seq(Requests) /\ q \in Seq(Requests) /\ w \in Seq(Requests)
  BY DEF Publishes
<1>3. /\ \A S : Total(w, S) = Total(v, S)
      /\ \A i \in 1 .. n + k : \E j \in 1 .. n + k : w[i] = v[j]
      /\ \A j \in 1 .. n + k : \E i \in 1 .. n + k : w[i] = v[j]
  <2>1. w = StableSort(v) /\ Len(v) = n + k
    BY <1>1 DEF Publishes
  <2>2. /\ \A S : Total(StableSort(v), S) = Total(v, S)
        /\ \A i \in 1 .. Len(v) : \E j \in 1 .. Len(v) : StableSort(v)[i] = v[j]
        /\ \A j \in 1 .. Len(v) : \E i \in 1 .. Len(v) : StableSort(v)[i] = v[j]
    BY <1>2, SortedSame
  <2> QED
    BY <2>1, <2>2
<1>4. ASSUME NEW S PROVE Total(u, S) + Total(r, S) = Total(q, S) + Total(v, S)
  <2>1. n \in 0 .. Len(w)
    BY DEF Publishes
  <2>2. p \in Seq(Requests) /\ r \in Seq(Requests)
    BY <1>2, <2>1, SplitSeq DEF Publishes
  <2>3. Total(w, S) = Total(p, S) + Total(r, S)
    BY <1>2, <2>1, TotalSplit DEF Publishes
  <2>4. Total(u, S) = Total(q, S) + Total(p, S)
    <3>1. u = q \o p
      BY DEF Publishes
    <3> QED
      BY <1>2, <2>2, <3>1, TotalConcat
  <2>5. Total(p, S) \in Nat /\ Total(r, S) \in Nat /\ Total(q, S) \in Nat
    BY <1>2, <2>2, TotalNat
  <2>6. PICK x \in Nat, y \in Nat, z \in Nat : x = Total(p, S) /\ y = Total(r, S) /\ z = Total(q, S)
    BY <2>5
  <2>7. Total(v, S) = x + y /\ Total(u, S) = z + x
    BY <1>3, <2>3, <2>4, <2>6
  <2> QED
    BY <2>6, <2>7
<1>5. ASSUME NEW i \in 1 .. l + n
      PROVE  \/ \E j \in 1 .. l : u[i] = q[j]
             \/ \E j \in 1 .. n + k : u[i] = v[j]
  <2>1. CASE i <= l
    BY <1>1, <2>1
  <2>2. CASE ~(i <= l)
    <3>1. PICK j \in 1 .. n : i = l + j
      <4>1. i - l \in 1 .. n /\ i = l + (i - l)
        BY <1>1, <2>2
      <4> QED
        BY <4>1
    <3>2. u[i] = w[j] /\ j \in 1 .. n + k
      BY <1>1, <3>1
    <3> QED
      BY <1>3, <3>2
  <2> QED
    BY <2>1, <2>2
<1>6. ASSUME NEW i \in 1 .. k PROVE \E j \in 1 .. n + k : r[i] = v[j]
  <2>1. r[i] = w[n + i] /\ n + i \in 1 .. n + k
    BY <1>1
  <2> QED
    BY <1>3, <2>1
<1>7. ASSUME NEW j \in 1 .. l PROVE \E i \in 1 .. l + n : u[i] = q[j]
  <2>1. j \in 1 .. l + n
    BY <1>1
  <2> QED
    BY <1>1, <2>1
<1>8. ASSUME NEW j \in 1 .. n + k
      PROVE  \/ \E i \in 1 .. l + n : u[i] = v[j]
             \/ \E i \in 1 .. k : r[i] = v[j]
  <2>1. PICK i \in 1 .. n + k : w[i] = v[j]
    BY <1>3
  <2>2. CASE i <= n
    <3>1. i \in 1 .. n /\ l + i \in 1 .. l + n
      BY <1>1, <2>2
    <3> QED
      BY <1>1, <2>1, <3>1
  <2>3. CASE ~(i <= n)
    <3>1. PICK h \in 1 .. k : i = n + h
      <4>1. i - n \in 1 .. k /\ i = n + (i - n)
        BY <1>1, <2>3
      <4> QED
        BY <4>1
    <3> QED
      BY <1>1, <2>1, <3>1
  <2> QED
    BY <2>2, <2>3
<1>9. Gathered(q, v, r, u)
  BY <1>1, <1>5, <1>6, <1>7, <1>8 DEF Gathered
<1> QED
  BY <1>4, <1>9

LEMMA PublishedOrders ==
    ASSUME NEW q, NEW v, NEW w, NEW n, NEW p, NEW r, NEW u, Publishes(q, v, w, n, p, r, u), NEW c,
           Ascending(q, c), Ascending(v, c), Timely(v, c), Precedes(q, v, c)
    PROVE  Ascending(u, c) /\ Ascending(r, c) /\ Timely(r, c) /\ Precedes(u, r, c)
<1>0. PICK k \in Nat, l \in Nat : Places(q, v, w, n, p, r, u, k, l)
  BY PublishedPlaces
<1>1. /\ n \in Nat /\ Len(q) = l /\ Len(w) = n + k /\ Len(v) = n + k
      /\ Len(p) = n /\ Len(r) = k /\ Len(u) = l + n
      /\ \A i \in 1 .. k : r[i] = w[n + i]
      /\ \A i \in 1 .. l : u[i] = q[i]
      /\ \A i \in 1 .. n : u[l + i] = w[i]
  BY <1>0 DEF Places
<1>2. v \in Seq(Requests)
  BY DEF Publishes
<1>3. Ascending(w, c) /\ Timely(w, c)
  BY <1>2, SortedOrders DEF Publishes
<1>4. \A i, j \in 1 .. n + k : i < j /\ IsOrder(w[i], c) /\ IsOrder(w[j], c) =>
                                  w[i].id < w[j].id /\ w[i].time <= w[j].time
  BY <1>1, <1>3 DEF Ascending, Timely
<1>5. ASSUME NEW i \in 1 .. l, NEW j \in 1 .. n + k, IsOrder(q[i], c), IsOrder(w[j], c)
      PROVE  q[i].id < w[j].id
  <2>1. PICK h \in 1 .. n + k : w[j] = v[h]
    <3>1. w = StableSort(v) /\ Len(v) = n + k
      BY <1>1 DEF Publishes
    <3>2. \A y \in 1 .. Len(v) : \E x \in 1 .. Len(v) : StableSort(v)[y] = v[x]
      BY <1>2, SortedSame
    <3> QED
      BY <3>1, <3>2
  <2> QED
    BY <1>1, <1>5, <2>1 DEF Precedes
<1>6. \A i \in 1 .. k : n + i \in 1 .. n + k
  BY <1>1
<1>7. \A i, j \in 1 .. k : i < j => n + i < n + j
  BY <1>1
<1>8. Ascending(r, c) /\ Timely(r, c)
  <2>1. ASSUME NEW i \in 1 .. k, NEW j \in 1 .. k, i < j, IsOrder(r[i], c), IsOrder(r[j], c)
        PROVE  r[i].id < r[j].id /\ r[i].time <= r[j].time
    <3>1. r[i] = w[n + i] /\ r[j] = w[n + j]
      BY <1>1, <2>1
    <3>2. n + i \in 1 .. n + k /\ n + j \in 1 .. n + k /\ n + i < n + j
      BY <1>6, <1>7, <2>1
    <3> QED
      BY <1>4, <2>1, <3>1, <3>2
  <2>2. Len(r) = k
    BY <1>1
  <2> QED
    BY <2>1, <2>2 DEF Ascending, Timely
<1>9. ASSUME NEW i \in 1 .. l + n PROVE i \in 1 .. l \/ \E h \in 1 .. n : i = l + h
  <2>1. CASE i <= l
    BY <2>1
  <2>2. CASE ~(i <= l)
    <3>1. i - l \in 1 .. n /\ i = l + (i - l)
      BY <1>1, <2>2
    <3> QED
      BY <3>1
  <2> QED
    BY <2>1, <2>2
<1>10. ASSUME NEW i \in 1 .. l + n, NEW j \in 1 .. l + n, i < j, IsOrder(u[i], c), IsOrder(u[j], c)
       PROVE  u[i].id < u[j].id
  <2>1. CASE i \in 1 .. l /\ j \in 1 .. l
    BY <1>1, <1>10, <2>1 DEF Ascending
  <2>2. CASE i \in 1 .. l /\ j \notin 1 .. l
    <3>1. PICK h \in 1 .. n : j = l + h
      BY <1>9, <2>2
    <3>2. h \in 1 .. n + k /\ u[j] = w[h] /\ u[i] = q[i]
      BY <1>1, <2>2, <3>1
    <3> QED
      BY <1>5, <1>10, <2>2, <3>2
  <2>3. CASE i \notin 1 .. l
    <3>1. PICK h \in 1 .. n : i = l + h
      BY <1>9, <2>3
    <3>2. j \notin 1 .. l
      BY <1>10, <2>3
    <3>3. PICK g \in 1 .. n : j = l + g
      BY <1>9, <3>2
    <3>4. h < g /\ h \in 1 .. n + k /\ g \in 1 .. n + k /\ u[i] = w[h] /\ u[j] = w[g]
      BY <1>1, <1>10, <3>1, <3>3
    <3> QED
      BY <1>4, <1>10, <3>4
  <2> QED
    BY <2>1, <2>2, <2>3
<1>11. ASSUME NEW i \in 1 .. l + n, NEW j \in 1 .. k, IsOrder(u[i], c), IsOrder(r[j], c)
       PROVE  u[i].id < r[j].id
  <2>1. n + j \in 1 .. n + k /\ r[j] = w[n + j]
    BY <1>1
  <2>2. CASE i \in 1 .. l
    BY <1>1, <1>5, <1>11, <2>1, <2>2
  <2>3. CASE i \notin 1 .. l
    <3>1. PICK h \in 1 .. n : i = l + h
      BY <1>9, <2>3
    <3>2. h < n + j /\ h \in 1 .. n + k /\ u[i] = w[h]
      BY <1>1, <3>1
    <3> QED
      BY <1>4, <1>11, <2>1, <3>2
  <2> QED
    BY <2>2, <2>3
<1> QED
  BY <1>1, <1>8, <1>10, <1>11 DEF Ascending, Precedes

LEMMA PublishKeeps ==
    ASSUME SessionInv, SequenceAndPublish
    PROVE  SessionInv'
<1>1. Types /\ Bounds /\ AcceptInv /\ \A t \in Sockets : TimeInv(t)
  BY DEF SessionInv
<1>2. UNCHANGED <<gw, up, down, clock, inbound, rx, open, owner, epoch, unknown, accepted, expected, outSeq,
                 anonSeq, responseQ, exPhase, halted, matched, issued, peerSent>>
  BY DEF SequenceAndPublish, wireVars, serverVars, sessionVars, engineVars
<1>3. Types' /\ Bounds'
  BY <1>1, TypesPublish
<1>4. PICK w, n : PublishResult(w, n)
  BY <1>1, PublishEffect
<1>5. PICK p : p = SubSeq(w, 1, n)
  OBVIOUS
<1>6. /\ Publishes(requestQ, pending, w, n, p, pending', requestQ')
      /\ pending \in Seq(Requests) /\ requestQ \in Seq(Requests)
      /\ pending' \in Seq(Requests) /\ requestQ' \in Seq(Requests)
  BY <1>1, <1>3, <1>4, <1>5 DEF PublishResult, Publishes, Types
<1>7. PICK q, v, u, r : q = requestQ /\ v = pending /\ u = requestQ' /\ r = pending'
  OBVIOUS
<1>8. /\ Publishes(q, v, w, n, p, r, u) /\ q \in Seq(Requests) /\ v \in Seq(Requests)
      /\ u \in Seq(Requests) /\ r \in Seq(Requests)
  BY <1>6, <1>7
<1>9. /\ \A S : Total(u, S) + Total(r, S) = Total(q, S) + Total(v, S)
      /\ Gathered(q, v, r, u)
  BY <1>8, PublishedSame
<1>9a. /\ \A i \in 1 .. Len(u) : \/ \E j \in 1 .. Len(q) : u[i] = q[j]
                                 \/ \E j \in 1 .. Len(v) : u[i] = v[j]
       /\ \A i \in 1 .. Len(r) : \E j \in 1 .. Len(v) : r[i] = v[j]
       /\ \A j \in 1 .. Len(q) : \E i \in 1 .. Len(u) : u[i] = q[j]
       /\ \A j \in 1 .. Len(v) : \/ \E i \in 1 .. Len(u) : u[i] = v[j]
                                 \/ \E i \in 1 .. Len(r) : r[i] = v[j]
  BY <1>9 DEF Gathered
<1>10. \A t \in Sockets : TimeInv(t)'
  BY <1>1, <1>2 DEF TimeInv
<1>11. AcceptInv'
  <2>1. ASSUME NEW c \in Clients
        PROVE  Len(matched'[c]) + Total(u, RequestsOf(c)) + Total(r, RequestsOf(c)) = accepted'[c]
    <3>1. PICK i \in Nat, j \in Nat, k \in Nat, l \in Nat :
             /\ i = Total(u, RequestsOf(c)) /\ j = Total(r, RequestsOf(c))
             /\ k = Total(q, RequestsOf(c)) /\ l = Total(v, RequestsOf(c))
      BY <1>8, TotalNat
    <3>2. PICK m \in Nat : m = Len(matched[c])
      BY <1>1 DEF Types
    <3>3. i + j = k + l
      BY <1>9, <3>1
    <3>4. m + k + l = accepted[c]
      BY <1>1, <1>7, <3>1, <3>2 DEF AcceptInv
    <3>5. m + i + j = accepted[c]
      BY <3>3, <3>4
    <3> QED
      BY <1>2, <3>1, <3>2, <3>5
  <2>2. exPhase \notin {"engine", "server", "stopped"}
    BY <1>1 DEF AcceptInv, SequenceAndPublish
  <2> QED
    BY <1>2, <1>7, <2>1, <2>2 DEF AcceptInv
<1>12. ASSUME NEW c \in Clients PROVE ClientInv(c)'
  <2>1. /\ GatewayInv(c) /\ SocketInv(c) /\ NumberInv(c) /\ SettleInv(c) /\ AbsentInv(c)
        /\ ReplyInv(c) /\ OrderInv(c) /\ WholeInv(c) /\ SteadyInv(c)
    BY InvOf
  <2>2. SocketsKept(c) /\ SessionKept(c) /\ GatewayState(c)
    BY <1>2 DEF SocketsKept, SessionKept, GatewayState
  <2>3. GatewayInv(c)'
    BY <1>2, <2>1, GatewayKept
  <2>4. SocketInv(c)'
    BY <1>2, <2>1, <2>2, SocketKept
  <2>5. NumberInv(c)'
    BY <1>2, <2>1, NumberKept
  <2>6. ReplyInv(c)'
    BY <1>2, <2>1 DEF ReplyInv, Current
  <2>7. SteadyInv(c)'
    BY <1>2, <2>1 DEF SteadyInv, Steady
  <2>8. SettleInv(c)'
    <3>1. PICK i \in Nat, j \in Nat, k \in Nat, l \in Nat :
             /\ i = Total(u, RequestsOf(c)) /\ j = Total(r, RequestsOf(c))
             /\ k = Total(q, RequestsOf(c)) /\ l = Total(v, RequestsOf(c))
      BY <1>8, TotalNat
    <3>2. i + j = k + l
      BY <1>9, <3>1
    <3>3. j + i = l + k
      BY <3>2
    <3>4. Total(pending', RequestsOf(c)) + Total(requestQ', RequestsOf(c))
            = Total(pending, RequestsOf(c)) + Total(requestQ, RequestsOf(c))
      BY <1>7, <3>1, <3>3
    <3>5. AtExchange(c)' = AtExchange(c)
      BY <1>2, <3>4 DEF AtExchange
    <3> QED
      BY <1>2, <2>1, <3>5 DEF SettleInv, Current
  <2>9. AbsentInv(c)'
    <3>1. SUFFICES ASSUME owner'[c] = 0 PROVE AbsentInv(c)'
      BY DEF AbsentInv
    <3>2. /\ \A i \in 1 .. Len(v) : v[i].client # c
          /\ \A i \in 1 .. Len(q) : q[i].client # c
      BY <1>2, <1>7, <2>1, <3>1 DEF AbsentInv
    <3>3. ASSUME NEW i \in 1 .. Len(r) PROVE r[i].client # c
      <4>1. PICK j \in 1 .. Len(v) : r[i] = v[j]
        BY <1>9a
      <4> QED
        BY <3>2, <4>1
    <3>4. ASSUME NEW i \in 1 .. Len(u) PROVE u[i].client # c
      <4>1. CASE \E j \in 1 .. Len(q) : u[i] = q[j]
        BY <3>2, <4>1
      <4>2. CASE \E j \in 1 .. Len(v) : u[i] = v[j]
        BY <3>2, <4>2
      <4> QED
        BY <1>9a, <4>1, <4>2
    <3> QED
      BY <1>2, <1>7, <2>1, <3>1, <3>3, <3>4 DEF AbsentInv
  <2>10. OrderInv(c)'
    <3>1. /\ \A i \in 1 .. Len(matched[c]) : matched[c][i].client = c
          /\ InSession(matched[c], c) /\ InSession(q, c) /\ InSession(v, c)
          /\ Ascending(matched[c], c) /\ Ascending(q, c) /\ Ascending(v, c)
          /\ Precedes(matched[c], q, c) /\ Precedes(matched[c], v, c)
          /\ Precedes(q, v, c) /\ Timely(v, c)
          /\ ~unknown[c] => \A i \in 1 .. Len(v) : IsOrder(v[i], c) => v[i].time <= rx[<<c, owner[c]>>]
      BY <1>7, <2>1 DEF OrderInv, Timely
    <3>2. Ascending(u, c) /\ Ascending(r, c) /\ Timely(r, c) /\ Precedes(u, r, c)
      BY <1>8, <3>1, PublishedOrders
    <3>3. Precedes(matched[c], u, c)
      BY <1>9a, <3>1 DEF Precedes
    <3>4. Precedes(matched[c], r, c)
      BY <1>9a, <3>1 DEF Precedes
    <3>5. InSession(u, c)
      BY <1>9a, <3>1 DEF InSession
    <3>6. InSession(r, c)
      BY <1>9a, <3>1 DEF InSession
    <3>7. ~unknown[c] => \A i \in 1 .. Len(r) : IsOrder(r[i], c) => r[i].time <= rx[<<c, owner[c]>>]
      BY <1>9a, <3>1
    <3>8. InSession(matched[c], c)' /\ InSession(requestQ, c)' /\ InSession(pending, c)'
      BY <1>2, <1>7, <3>1, <3>5, <3>6 DEF InSession
    <3>9. /\ \A i \in 1 .. Len(matched'[c]) : matched'[c][i].client = c
          /\ Ascending(matched[c], c)' /\ Ascending(requestQ, c)' /\ Ascending(pending, c)'
          /\ Timely(pending, c)'
      BY <1>2, <1>7, <3>1, <3>2 DEF Ascending, Timely, IsOrder
    <3>10. /\ Precedes(matched[c], requestQ, c)' /\ Precedes(matched[c], pending, c)'
           /\ Precedes(requestQ, pending, c)'
      BY <1>2, <1>7, <3>2, <3>3, <3>4 DEF Precedes, IsOrder
    <3>11. ~unknown'[c] => \A i \in 1 .. Len(pending') :
                             IsOrder(pending'[i], c) => pending'[i].time <= rx'[<<c, owner'[c]>>]
      BY <1>2, <1>7, <3>7
    <3> QED
      BY <3>8, <3>9, <3>10, <3>11 DEF OrderInv, Timely
  <2>11. WholeInv(c)'
    <3>1. SUFFICES ASSUME peerSent'[c] = 0 PROVE WholeInv(c)'
      BY DEF WholeInv
    <3>2. /\ expected[c] = accepted[c] + 1
          /\ \A i \in 1 .. Len(matched[c]) : matched[c][i].type = "NEW" /\ matched[c][i].id = i
          /\ \A i \in 1 .. Len(q) : q[i].client = c => q[i].type = "NEW"
          /\ \A i \in 1 .. Len(v) : v[i].client = c => v[i].type = "NEW"
          /\ \A k \in 1 .. accepted[c] : k <= Len(matched[c]) \/ Holds(q, c, k) \/ Holds(v, c, k)
      BY <1>2, <1>7, <2>1, <3>1 DEF WholeInv
    <3>3. ASSUME NEW i \in 1 .. Len(u) PROVE u[i].client = c => u[i].type = "NEW"
      <4>1. CASE \E j \in 1 .. Len(q) : u[i] = q[j]
        BY <3>2, <4>1
      <4>2. CASE \E j \in 1 .. Len(v) : u[i] = v[j]
        BY <3>2, <4>2
      <4> QED
        BY <1>9a, <4>1, <4>2
    <3>3a. ASSUME NEW i \in 1 .. Len(r) PROVE r[i].client = c => r[i].type = "NEW"
      <4>1. PICK j \in 1 .. Len(v) : r[i] = v[j]
        BY <1>9a
      <4> QED
        BY <3>2, <4>1
    <3>4. \A k : Holds(q, c, k) => Holds(u, c, k)
      BY <1>9a DEF Holds
    <3>5. \A k : Holds(v, c, k) => Holds(u, c, k) \/ Holds(r, c, k)
      BY <1>9a DEF Holds
    <3>6. \A k \in 1 .. accepted[c] : k <= Len(matched[c]) \/ Holds(u, c, k) \/ Holds(r, c, k)
      BY <3>2, <3>4, <3>5
    <3>7. \A k \in 1 .. accepted'[c] :
             k <= Len(matched'[c]) \/ Holds(requestQ, c, k)' \/ Holds(pending, c, k)'
      BY <1>2, <1>7, <3>6 DEF Holds
    <3> QED
      BY <1>2, <1>7, <3>2, <3>3, <3>3a, <3>7 DEF WholeInv
  <2> QED
    BY <2>3, <2>4, <2>5, <2>6, <2>7, <2>8, <2>9, <2>10, <2>11 DEF ClientInv
<1> QED
  BY <1>3, <1>10, <1>11, <1>12 DEF SessionInv

-------------------------------------------------------------------------------
(* A response is sent.                                                        *)

\* The requests at the exchange are as they were.
LEMMA OrdersUntouched ==
    ASSUME NEW c, OrderInv(c), WholeInv(c),
           UNCHANGED <<pending, requestQ, matched, unknown, epoch, expected, accepted, rx, owner, peerSent>>
    PROVE  OrderInv(c)' /\ WholeInv(c)'
<1>1. OrderInv(c)'
  <2>1. /\ InSession(matched[c], c)' /\ InSession(requestQ, c)' /\ InSession(pending, c)'
        /\ Ascending(matched[c], c)' /\ Ascending(requestQ, c)' /\ Ascending(pending, c)'
    BY DEF OrderInv, InSession, Ascending, IsOrder
  <2>2. /\ Precedes(matched[c], requestQ, c)' /\ Precedes(matched[c], pending, c)'
        /\ Precedes(requestQ, pending, c)'
    BY DEF OrderInv, Precedes, IsOrder
  <2> QED
    BY <2>1, <2>2 DEF OrderInv, IsOrder
<1>2. WholeInv(c)'
  BY DEF WholeInv, Holds
<1> QED
  BY <1>1, <1>2

LEMMA RespondKeeps ==
    ASSUME SessionInv, ServerRespond
    PROVE  SessionInv'
<1>1. Types /\ Bounds /\ AcceptInv /\ (\A t \in Sockets : TimeInv(t)) /\ \A y \in Clients : ClientInv(y)
  BY DEF SessionInv
<1>2. UNCHANGED <<gw, up, clock, inbound, rx, open, owner, epoch, unknown, accepted, expected, anonSeq,
                 pending, requestQ, exPhase, matched, issued, peerSent>>
  BY DEF ServerRespond, sessionVars, engineVars
<1>3. \A y \in Clients : AbsentInv(y)
  BY <1>1 DEF ClientInv
<1>4. Types' /\ Bounds'
  BY <1>1, <1>3, TypesRespond
<1>5. AcceptInv'
  BY <1>1, <1>2, AcceptKept
<1>6. \A t \in Sockets : TimeInv(t)'
  BY <1>1, <1>2 DEF TimeInv
<1>7. ASSUME halted' = TRUE, UNCHANGED <<down, outSeq, responseQ>>
      PROVE  SessionInv'
  <2>1. ASSUME NEW y \in Clients PROVE ClientInv(y)'
    <3>1. QueuesKept(y)
      BY <1>1, <1>2, <1>7, QueuesSame
    <3>2. Apart(y)
      BY <1>2, <1>7, <3>1 DEF Apart, SocketsKept, SessionKept, EngineKept, LifeKept
    <3> QED
      BY <1>1, <1>4, <3>2, ApartKeeps
  <2> QED
    BY <1>4, <1>5, <1>6, <2>1 DEF SessionInv
<1>8. ASSUME NEW r \in Replies, NEW d \in DownFrames, RespondResult(r, d)
      PROVE  SessionInv'
  <2>1. PICK c \in Clients, o \in 1 .. Peer, s \in Sockets : c = r.client /\ o = owner[c] /\ s = <<c, o>>
    BY <1>8 DEF RespondResult
  <2>2. /\ responseQ # <<>> /\ r = Head(responseQ) /\ d.seq = outSeq[c] /\ d.epoch = epoch[c]
        /\ d.resp = r.resp /\ down' = [down EXCEPT ![s] = Append(@, d)] /\ open[s]
        /\ outSeq' = [outSeq EXCEPT ![c] = @ + 1] /\ responseQ' = Tail(responseQ) /\ halted' = halted
    BY <1>8, <2>1 DEF RespondResult
  <2>3. PICK q \in Seq(Replies) : q = responseQ
    BY <1>1 DEF Types
  <2>4. PICK v : v = Tail(q)
    OBVIOUS
  <2>5. PICK k \in Nat : Len(q) = k + 1 /\ Len(v) = k /\ \A i \in 1 .. k : v[i] = q[i + 1]
    BY <2>2, <2>3, <2>4, TailParts
  <2>6. responseQ' = v /\ r = q[1] /\ 1 \in 1 .. Len(q) /\ \A i \in 1 .. k : i + 1 \in 1 .. Len(q)
    BY <2>2, <2>3, <2>4, <2>5
  <2>7. PICK a \in Seq(DownFrames) : a = down[s]
    BY <1>1, BufferLengths
  <2>8. PICK m \in Nat : m = Len(a)
    OBVIOUS
  <2>9. PICK w : w = Append(a, d)
    OBVIOUS
  <2>10. w \in Seq(DownFrames) /\ Len(w) = m + 1 /\ w[m + 1] = d /\ \A i \in 1 .. m : w[i] = a[i]
    BY <2>8, <2>9, AppendType
  <2>11. /\ down'[<<c, o>>] = w
         /\ \A y \in 1 .. Peer : y # o => down'[<<c, y>>] = down[<<c, y>>]
         /\ \A y \in Clients \ {c} : \A i \in 1 .. Peer : down'[<<y, i>>] = down[<<y, i>>]
    <3>1. down \in [Sockets -> Seq(DownFrames)] /\ down' = [down EXCEPT ![<<c, o>>] = w]
      BY <1>1, <2>1, <2>2, <2>7, <2>9 DEF Types
    <3> QED
      BY <3>1, SocketFacts
  <2>12. PICK n \in Nat : n = outSeq[c]
    BY <1>1 DEF Types
  <2>13. outSeq'[c] = n + 1 /\ \A y \in Clients \ {c} : outSeq'[y] = outSeq[y]
    <3>1. outSeq \in [Clients -> Nat \ {0}] /\ outSeq' = [outSeq EXCEPT ![c] = n + 1]
      BY <1>1, <2>2, <2>12 DEF Types
    <3> QED
      BY <3>1
  <2>14. ASSUME NEW y \in Clients, y # c PROVE ClientInv(y)'
    <3>1. Head(q).client # y
      BY <2>1, <2>2, <2>3, <2>14
    <3>2. SameFor(q, v, y, 1)
      BY <2>2, <2>3, <2>4, <3>1, SameTail
    <3>3. SameFor(pending, pending, y, 0) /\ SameFor(requestQ, requestQ, y, 0)
      <4>1. pending \in Seq(Requests) /\ requestQ \in Seq(Requests)
        BY <1>1 DEF Types
      <4> QED
        BY <4>1, SameSelf
    <3>4. QueuesKept(y)
      BY <1>2, <2>3, <2>6, <3>2, <3>3 DEF QueuesKept
    <3>5. SocketsKept(y) /\ SessionKept(y) /\ EngineKept(y) /\ gw'[y] = gw[y] /\ LifeKept
      BY <1>2, <2>2, <2>11, <2>13, <2>14 DEF SocketsKept, SessionKept, EngineKept, LifeKept
    <3>6. Apart(y)
      BY <3>4, <3>5 DEF Apart
    <3> QED
      BY <1>1, <1>4, <3>6, ApartKeeps
  <2>15. /\ GatewayInv(c) /\ SocketInv(c) /\ NumberInv(c) /\ SettleInv(c) /\ AbsentInv(c)
         /\ ReplyInv(c) /\ OrderInv(c) /\ WholeInv(c) /\ SteadyInv(c)
    BY InvOf
  <2>16. GatewayInv(c)'
    BY <1>2, <2>15, GatewayKept
  <2>17. OrderInv(c)' /\ WholeInv(c)'
    BY <1>2, <2>15, OrdersUntouched
  <2>18. o # 0 /\ AbsentInv(c)'
    BY <1>2, <2>1, SocketFacts DEF AbsentInv
  <2>19. PICK z \in 1 .. Peer : z = gw[c].epoch /\ z # Peer /\ Current(c) = <<c, z>>
    BY <1>1, CurrentIs
  <2>20. Current(c)' = Current(c)
    BY <1>2 DEF Current
  <2>21. ~MustBeUnused(c, o) /\ (o # Peer => epoch[c] = o)
    <3>1. /\ owner[c] = Peer \/ owner[c] <= gw[c].epoch
          /\ owner[c] \notin {0, Peer} => epoch[c] = owner[c]
          /\ peerSent[c] = 0 => owner[c] # Peer
      BY <2>15 DEF SocketInv
    <3>2. o \in Nat /\ z \in Nat
      BY SocketFacts
    <3> QED
      BY <2>1, <2>18, <2>19, <3>1, <3>2 DEF MustBeUnused
  <2>22. SocketInv(c)'
    <3>1. ASSUME NEW y \in 1 .. Peer
          PROVE  /\ FrameShape(up'[<<c, y>>], y) /\ FrameShape(inbound'[<<c, y>>], y)
                 /\ MustBeUnused(c, y) => /\ up'[<<c, y>>] = up[<<c, y>>]
                                          /\ down'[<<c, y>>] = down[<<c, y>>]
                                          /\ inbound'[<<c, y>>] = inbound[<<c, y>>]
                                          /\ anonSeq'[<<c, y>>] = anonSeq[<<c, y>>]
      <4>1. MustBeUnused(c, y) => y # o
        BY <2>21
      <4>2. FrameShape(up[<<c, y>>], y) /\ FrameShape(inbound[<<c, y>>], y)
        BY <2>15 DEF SocketInv
      <4> QED
        BY <1>2, <2>11, <4>1, <4>2
    <3> QED
      BY <1>2, <2>15, <3>1, SocketStep
  <2>23. q[1].client = c /\ q[1].resp.epoch = epoch[c] /\ q[1].resp.rid # 0
    BY <2>1, <2>3, <2>6, <2>15 DEF ReplyInv
  <2>24. ASSUME NEW i \in 1 .. k, v[i].client = c
         PROVE  v[i].resp.epoch = epoch[c] /\ v[i].resp.rid # 0
    <3>1. i + 1 \in 1 .. Len(q) /\ v[i] = q[i + 1]
      BY <2>5, <2>6
    <3> QED
      BY <2>3, <2>15, <2>24, <3>1 DEF ReplyInv
  <2>25. ASSUME o # z PROVE NumberInv(c)' /\ SettleInv(c)' /\ ReplyInv(c)'
    <3>1. down'[Current(c)] = down[Current(c)] /\ owner[c] # z
      BY <2>1, <2>11, <2>19, <2>25
    <3>2. NextNumber(c)' = NextNumber(c)
      BY <1>2, <2>19, <2>20, <3>1 DEF NextNumber
    <3>3. NumberInv(c)'
      BY <1>2, <2>15, <2>20, <3>1, <3>2 DEF NumberInv
    <3>4. AtExchange(c)' = 0 /\ AtExchange(c) = 0
      BY <1>2, <2>19, <3>1 DEF AtExchange
    <3>5. SettleInv(c)'
      BY <1>2, <2>15, <2>20, <3>1, <3>4 DEF SettleInv
    <3>6. /\ owner'[c] # gw'[c].epoch
          /\ \A i \in 1 .. Len(responseQ') :
                responseQ'[i].client = c => responseQ'[i].resp.epoch = epoch'[c] /\ responseQ'[i].resp.rid # 0
      BY <1>2, <2>5, <2>6, <2>19, <2>24, <3>1
    <3>7. ReplyInv(c)'
      BY <1>2, <2>15, <2>20, <3>1, <3>6 DEF ReplyInv
    <3> QED
      BY <3>3, <3>5, <3>7
  <2>26. ASSUME o = z PROVE NumberInv(c)' /\ SettleInv(c)' /\ ReplyInv(c)'
    <3>1. Current(c) = s /\ down[Current(c)] = a /\ down'[Current(c)'] = w /\ owner[c] = z /\ owner'[c] = z
      BY <1>2, <2>1, <2>7, <2>11, <2>19, <2>20, <2>26
    <3>2. PICK h \in Nat : h = gw[c].expected
      <4>1. gw[c] \in Gateways
        BY <1>1, CurrentSocket
      <4> QED
        BY <4>1 DEF Gateways
    <3>3. NumberInv(c)'
      <4>1. /\ \A i \in 1 .. m : a[i].seq = h + i - 1 /\ a[i].epoch = z
            /\ NextNumber(c) = h + m
        BY <2>2, <2>8, <2>15, <2>19, <3>1, <3>2 DEF NumberInv
      <4>2. NextNumber(c) = n /\ NextNumber(c)' = n + 1
        BY <1>2, <2>12, <2>13, <2>19, <3>1 DEF NextNumber
      <4>3. d.seq = h + m /\ d.epoch = z
        BY <2>2, <2>12, <2>19, <2>21, <2>26, <4>1, <4>2
      <4>4. ASSUME NEW i \in 1 .. m + 1 PROVE w[i].seq = h + i - 1 /\ w[i].epoch = z
        <5>1. CASE i \in 1 .. m
          BY <2>10, <4>1, <5>1
        <5>2. CASE i = m + 1
          <6>1. h + (m + 1) - 1 = h + m
            OBVIOUS
          <6> QED
            BY <2>10, <4>3, <5>2, <6>1
        <5> QED
          BY <5>1, <5>2
      <4>5. n + 1 = h + (m + 1)
        BY <4>1, <4>2
      <4> QED
        BY <1>2, <2>10, <2>19, <2>20, <3>1, <3>2, <4>2, <4>4, <4>5 DEF NumberInv
    <3>4. SettleInv(c)'
      <4>1. PICK g \in Nat, j \in Nat, x \in Nat, y \in Nat, b \in Nat :
               /\ g = Total(gw[c].got, Settling) /\ j = Total(a, SettlingFrames)
               /\ x = Len(up[Current(c)]) /\ b = Len(inbound[Current(c)]) /\ y = gw[c].next
        BY <1>1, <3>1, SettleNat
      <4>2. PICK l \in Nat, t \in Nat, f \in Nat :
               /\ l = Total(pending, RequestsOf(c)) /\ t = Total(requestQ, RequestsOf(c))
               /\ f = Total(v, SettlingReplies(c))
        <5>1. pending \in Seq(Requests) /\ requestQ \in Seq(Requests) /\ v \in Seq(Replies)
          BY <1>1, <1>4, <2>6 DEF Types
        <5> QED
          BY <5>1, TotalNat
      <4>3. PICK e \in {0, 1} : /\ Total(q, SettlingReplies(c)) = f + e
                               /\ Total(w, SettlingFrames) = j + e
        <5>1. d \in SettlingFrames <=> Head(q) \in SettlingReplies(c)
          <6>1. Head(q) = r /\ r.client = c
            BY <2>1, <2>2, <2>3
          <6> QED
            BY <2>2, <6>1 DEF SettlingFrames, SettlingReplies
        <5>2. Total(q, SettlingReplies(c)) = f + IF Head(q) \in SettlingReplies(c) THEN 1 ELSE 0
          BY <2>2, <2>3, <2>4, <4>2, TotalTail
        <5>3. Total(w, SettlingFrames) = j + IF d \in SettlingFrames THEN 1 ELSE 0
          BY <2>9, <4>1, TotalAppend
        <5>4. PICK e \in {0, 1} : e = IF d \in SettlingFrames THEN 1 ELSE 0
          OBVIOUS
        <5>5. e = IF Head(q) \in SettlingReplies(c) THEN 1 ELSE 0
          BY <5>1, <5>4
        <5> QED
          BY <5>2, <5>3, <5>4, <5>5
      <4>4. g + j + x + b + (l + t + (f + e)) <= y - 1
        BY <2>3, <2>15, <2>19, <3>1, <4>1, <4>2, <4>3 DEF SettleInv, AtExchange
      <4>5. g + (j + e) + x + b + (l + t + f) <= y - 1
        BY <4>4
      <4>6. AtExchange(c)' = l + t + f
        BY <1>2, <2>6, <2>19, <3>1, <4>2 DEF AtExchange
      <4> QED
        BY <1>2, <2>20, <3>1, <4>1, <4>3, <4>5, <4>6 DEF SettleInv
    <3>5. ReplyInv(c)'
      <4>1. PICK g \in Nat, b \in Nat, f \in Nat :
               /\ g = Total(gw[c].got, Genuine) /\ b = Total(a, GenuineFrames)
               /\ f = Total(v, RepliesTo(c))
        <5>1. gw[c] \in Gateways
          BY <1>1, CurrentSocket
        <5>2. gw[c].got \in Seq(Responses) /\ v \in Seq(Replies)
          BY <1>4, <2>6, <5>1 DEF Gateways, Types
        <5> QED
          BY <5>2, TotalNat
      <4>2. Head(q) \in RepliesTo(c) /\ d \in GenuineFrames
        <5>1. Head(q) = r /\ r = q[1]
          BY <2>2, <2>3, <2>6
        <5> QED
          BY <2>1, <2>2, <2>23, <5>1 DEF RepliesTo, GenuineFrames
      <4>3. /\ Total(q, RepliesTo(c)) = f + 1
            /\ \A i \in 1 .. k : Count(q, RepliesTo(c), i + 1) = Count(v, RepliesTo(c), i) + 1
        <5>1. (k + 1) - 1 = k
          OBVIOUS
        <5> QED
          BY <2>2, <2>3, <2>4, <2>5, <4>1, <4>2, <5>1, TotalTail
      <4>4. /\ Total(w, GenuineFrames) = b + 1 /\ Count(w, GenuineFrames, m + 1) = b + 1
            /\ \A i \in 1 .. m : Count(w, GenuineFrames, i) = Count(a, GenuineFrames, i)
        BY <2>8, <2>9, <4>1, <4>2, TotalAppend
      <4>5. Count(q, RepliesTo(c), 1) = 1
        <5>1. Count(q, RepliesTo(c), 0) = 0
          BY CountZero
        <5>2. Count(q, RepliesTo(c), 0 + 1) = Count(q, RepliesTo(c), 0) + IF q[0 + 1] \in RepliesTo(c) THEN 1 ELSE 0
          BY CountNext
        <5>3. q[1] \in RepliesTo(c)
          BY <2>2, <2>3, <2>6, <4>2
        <5> QED
          BY <5>1, <5>2, <5>3
      <4>6. /\ \A i \in 1 .. Len(q) : q[i].client = c =>
                  q[i].resp.rid = g + b + Count(q, RepliesTo(c), i)
            /\ issued[c] = g + b + (f + 1)
        BY <2>3, <2>15, <2>19, <3>1, <4>1, <4>3 DEF ReplyInv
      <4>7. ASSUME NEW i \in 1 .. m + 1, w[i].resp.rid # 0
            PROVE  w[i].resp.rid = g + Count(w, GenuineFrames, i) /\ w[i].resp.epoch = z
        <5>1. CASE i \in 1 .. m
          <6>1. a[i].resp.rid # 0 => a[i].resp.rid = g + Count(a, GenuineFrames, i) /\ a[i].resp.epoch = z
            BY <2>8, <2>15, <2>19, <3>1, <4>1, <5>1 DEF ReplyInv
          <6> QED
            BY <2>10, <4>4, <4>7, <5>1, <6>1
        <5>2. CASE i = m + 1
          <6>1. q[1].resp.rid = g + b + 1
            BY <2>6, <2>23, <4>5, <4>6
          <6>2. w[i].resp = q[1].resp
            BY <2>2, <2>6, <2>10, <5>2
          <6>3. epoch[c] = z
            BY <2>19, <2>21, <2>26
          <6> QED
            BY <2>23, <4>4, <5>2, <6>1, <6>2, <6>3
        <5> QED
          BY <5>1, <5>2
      <4>8. ASSUME NEW i \in 1 .. k, v[i].client = c
            PROVE  v[i].resp.rid = g + (b + 1) + Count(v, RepliesTo(c), i)
        <5>1. i + 1 \in 1 .. Len(q) /\ v[i] = q[i + 1]
          BY <2>5, <2>6
        <5>2. i \in Nat
          OBVIOUS
        <5>3. PICK x \in Nat : x = Count(v, RepliesTo(c), i)
          BY <5>2, CountType
        <5>4. Count(q, RepliesTo(c), i + 1) = x + 1
          BY <4>3, <5>3
        <5>5. v[i].resp.rid = g + b + (x + 1)
          BY <4>6, <4>8, <5>1, <5>4
        <5>6. g + b + (x + 1) = g + (b + 1) + x
          OBVIOUS
        <5> QED
          BY <5>3, <5>5, <5>6
      <4>9. issued[c] = g + (b + 1) + f
        BY <4>6
      <4>10. g = Total(gw'[c].got, Genuine) /\ b + 1 = Total(down'[Current(c)'], GenuineFrames)
        BY <1>2, <3>1, <4>1, <4>4
      <4>11. \A i \in 1 .. Len(down'[Current(c)']) :
               down'[Current(c)'][i].resp.rid # 0 =>
                  /\ down'[Current(c)'][i].resp.rid = g + Count(down'[Current(c)'], GenuineFrames, i)
                  /\ down'[Current(c)'][i].resp.epoch = gw'[c].epoch
        BY <1>2, <2>10, <2>19, <3>1, <4>7
      <4>12. \A i \in 1 .. Len(gw'[c].got) :
               gw'[c].got[i].rid # 0 => /\ gw'[c].got[i].rid = Count(gw'[c].got, Genuine, i)
                                        /\ gw'[c].got[i].epoch = gw'[c].epoch
        BY <1>2, <2>15 DEF ReplyInv
      <4>13. \A i \in 1 .. Len(responseQ') :
                responseQ'[i].client = c =>
                   /\ responseQ'[i].resp.epoch = epoch'[c] /\ responseQ'[i].resp.rid # 0
                   /\ responseQ'[i].resp.rid = g + (b + 1) + Count(responseQ', RepliesTo(c), i)
        BY <1>2, <2>5, <2>6, <2>24, <4>8
      <4>14. issued'[c] = g + (b + 1) + Total(responseQ', RepliesTo(c))
        BY <1>2, <2>6, <4>1, <4>9
      <4> QED
        BY <4>10, <4>11, <4>12, <4>13, <4>14 DEF ReplyInv
    <3> QED
      BY <3>3, <3>4, <3>5
  <2>27. SteadyInv(c)'
    <3>1. SUFFICES ASSUME Steady(c) PROVE SteadyInv(c)'
      BY <1>2 DEF SteadyInv, Steady
    <3>2. gw[c].epoch = 1 /\ o = 1
      <4>1. gw[c].epoch = 1 /\ owner[c] # Peer
        BY <2>15, <3>1 DEF SteadyInv, Steady
      <4>2. owner[c] # Peer /\ owner[c] <= 1
        BY <2>15, <4>1 DEF SocketInv
      <4> QED
        BY <2>1, <2>18, <4>1, <4>2, SocketFacts
    <3>3. PICK t : t = <<c, 1>>
      OBVIOUS
    <3>4. down[t] = a /\ down'[t] = w
      BY <2>1, <2>7, <2>11, <3>2, <3>3
    <3>5. /\ owner[c] # Peer /\ gw[c].healthy /\ open[t]
          /\ \A i \in 1 .. Len(inbound[t]) : inbound[t][i].seq = expected[c] + i - 1
          /\ \A i \in 1 .. Len(up[t]) : up[t][i].seq = expected[c] + Len(inbound[t]) + i - 1
          /\ gw[c].next = expected[c] + Len(inbound[t]) + Len(up[t])
      BY <2>15, <3>1, <3>3 DEF SteadyInv
    <3>6. /\ owner'[c] # Peer /\ gw'[c].healthy /\ open'[t]
          /\ \A i \in 1 .. Len(inbound'[t]) : inbound'[t][i].seq = expected'[c] + i - 1
          /\ \A i \in 1 .. Len(up'[t]) : up'[t][i].seq = expected'[c] + Len(inbound'[t]) + i - 1
          /\ gw'[c].next = expected'[c] + Len(inbound'[t]) + Len(up'[t])
      BY <1>2, <3>5
    <3>7. /\ \A i \in 1 .. m : a[i].resp.type \in {"ANSWER", "FILLED"}
          /\ \A i \in 1 .. Len(q) : q[i].client = c => q[i].resp.type \in {"ANSWER", "FILLED"}
      BY <2>3, <2>8, <2>15, <3>1, <3>3, <3>4 DEF SteadyInv
    <3>8. ASSUME NEW i \in 1 .. m + 1 PROVE w[i].resp.type \in {"ANSWER", "FILLED"}
      <4>1. CASE i \in 1 .. m
        BY <2>10, <3>7, <4>1
      <4>2. CASE i = m + 1
        BY <2>2, <2>6, <2>10, <2>23, <3>7, <4>2
      <4> QED
        BY <4>1, <4>2
    <3>9. ASSUME NEW i \in 1 .. k, v[i].client = c PROVE v[i].resp.type \in {"ANSWER", "FILLED"}
      BY <2>5, <2>6, <3>7, <3>9
    <3>10. /\ \A i \in 1 .. Len(down'[t]) : down'[t][i].resp.type \in {"ANSWER", "FILLED"}
           /\ \A i \in 1 .. Len(responseQ') :
                 responseQ'[i].client = c => responseQ'[i].resp.type \in {"ANSWER", "FILLED"}
      BY <2>5, <2>6, <2>10, <3>4, <3>8, <3>9
    <3> QED
      BY <3>3, <3>6, <3>10 DEF SteadyInv
  <2>28. ClientInv(c)'
    BY <2>16, <2>17, <2>18, <2>22, <2>25, <2>26, <2>27 DEF ClientInv
  <2> QED
    BY <1>4, <1>5, <1>6, <2>14, <2>28 DEF SessionInv
<1> QED
  BY <1>1, <1>3, <1>7, <1>8, RespondEffect

-------------------------------------------------------------------------------
(* The matching engine takes a request.                                       *)

\* r leaves the queue q, of which v is left, and joins the requests of client c
\* that have been taken, if it is one of them: they were m and are n.
Takes(q, r, v, m, n, c) ==
    /\ q \in Seq(Requests) /\ q # <<>> /\ r = Head(q) /\ v = Tail(q) /\ m \in Seq(Requests)
    /\ n = IF r.client = c THEN Append(m, r) ELSE m

\* The places of the requests, and their number.
Shifted(q, r, v, m, n, c, k, l) ==
    /\ Len(q) = k + 1 /\ Len(v) = k /\ Len(m) = l /\ q[1] = r /\ r \in Requests
    /\ v \in Seq(Requests) /\ n \in Seq(Requests)
    /\ \A i \in 1 .. k : v[i] = q[i + 1] /\ i + 1 \in 1 .. k + 1
    /\ \A i \in 2 .. k + 1 : i - 1 \in 1 .. k /\ v[i - 1] = q[i]
    /\ Len(n) = IF r.client = c THEN l + 1 ELSE l
    /\ \A i \in 1 .. l : n[i] = m[i]
    /\ r.client = c => n[l + 1] = r

LEMMA TakenPlaces ==
    ASSUME NEW q, NEW r, NEW v, NEW m, NEW n, NEW c, Takes(q, r, v, m, n, c)
    PROVE  \E k \in Nat, l \in Nat : Shifted(q, r, v, m, n, c, k, l)
<1>1. /\ q \in Seq(Requests) /\ q # <<>> /\ r = Head(q) /\ v = Tail(q) /\ m \in Seq(Requests)
      /\ n = IF r.client = c THEN Append(m, r) ELSE m
  BY DEF Takes
<1>2. /\ v \in Seq(Requests) /\ r = q[1] /\ r \in Requests
      /\ \E k \in Nat : /\ Len(q) = k + 1 /\ Len(v) = k /\ 1 \in 1 .. k + 1
                        /\ \A i \in 1 .. k : v[i] = q[i + 1]
  BY <1>1, TailParts
<1>3. PICK k \in Nat : Len(q) = k + 1 /\ Len(v) = k /\ \A i \in 1 .. k : v[i] = q[i + 1]
  BY <1>2
<1>4. \A i \in 1 .. k : i + 1 \in 1 .. k + 1
  OBVIOUS
<1>5. ASSUME NEW i \in 2 .. k + 1 PROVE i - 1 \in 1 .. k /\ v[i - 1] = q[i]
  <2>1. i - 1 \in 1 .. k /\ (i - 1) + 1 = i
    OBVIOUS
  <2> QED
    BY <1>3, <2>1
<1>6. PICK l \in Nat : l = Len(m)
  BY <1>1
<1>7. /\ Append(m, r) \in Seq(Requests) /\ Len(Append(m, r)) = l + 1 /\ Append(m, r)[l + 1] = r
      /\ \A i \in 1 .. l : Append(m, r)[i] = m[i]
  BY <1>1, <1>2, <1>6, AppendType
<1>8. /\ n \in Seq(Requests) /\ Len(n) = IF r.client = c THEN l + 1 ELSE l
      /\ \A i \in 1 .. l : n[i] = m[i]
      /\ r.client = c => n[l + 1] = r
  <2>1. CASE r.client = c
    <3>1. n = Append(m, r)
      BY <1>1, <2>1
    <3> QED
      BY <1>7, <2>1, <3>1
  <2>2. CASE r.client # c
    <3>1. n = m
      BY <1>1, <2>2
    <3> QED
      BY <1>1, <1>6, <2>2, <3>1
  <2> QED
    BY <2>1, <2>2
<1>9. Shifted(q, r, v, m, n, c, k, l)
  BY <1>2, <1>3, <1>4, <1>5, <1>6, <1>8 DEF Shifted
<1> QED
  BY <1>9

\* The places of n: one of m, or the new one.
LEMMA TakenLast ==
    ASSUME NEW q, NEW r, NEW v, NEW m, NEW n, NEW c, NEW k \in Nat, NEW l \in Nat,
           Shifted(q, r, v, m, n, c, k, l)
    PROVE  \A i \in 1 .. Len(n) : \/ i \in 1 .. l /\ n[i] = m[i]
                                  \/ i = l + 1 /\ n[i] = r /\ r.client = c
<1>0. SUFFICES ASSUME NEW i \in 1 .. Len(n)
               PROVE  \/ i \in 1 .. l /\ n[i] = m[i]
                      \/ i = l + 1 /\ n[i] = r /\ r.client = c
  OBVIOUS
<1>1. CASE r.client = c
  <2>1. i \in 1 .. l + 1
    BY <1>1 DEF Shifted
  <2>2. i \in 1 .. l \/ i = l + 1
    BY <2>1
  <2> QED
    BY <1>1, <2>2 DEF Shifted
<1>2. CASE r.client # c
  <2>1. i \in 1 .. l
    BY <1>2 DEF Shifted
  <2> QED
    BY <2>1 DEF Shifted
<1> QED
  BY <1>1, <1>2

\* The order of a client's orders is kept.
LEMMA TakenOrders ==
    ASSUME NEW q, NEW r, NEW v, NEW m, NEW n, NEW c, Takes(q, r, v, m, n, c), NEW p,
           Ascending(q, c), Ascending(m, c), Precedes(m, q, c), Precedes(m, p, c), Precedes(q, p, c),
           InSession(q, c), InSession(m, c), \A i \in 1 .. Len(m) : m[i].client = c
    PROVE  /\ Ascending(v, c) /\ Ascending(n, c) /\ Precedes(n, v, c) /\ Precedes(n, p, c) /\ Precedes(v, p, c)
           /\ InSession(v, c) /\ InSession(n, c) /\ \A i \in 1 .. Len(n) : n[i].client = c
<1>1. PICK k \in Nat, l \in Nat : Shifted(q, r, v, m, n, c, k, l)
  BY TakenPlaces
<1>2. /\ Len(q) = k + 1 /\ Len(v) = k /\ Len(m) = l /\ q[1] = r /\ 1 \in 1 .. k + 1
      /\ \A i \in 1 .. k : v[i] = q[i + 1] /\ i + 1 \in 1 .. k + 1
  BY <1>1 DEF Shifted
<1>3. \A i \in 1 .. Len(n) : \/ i \in 1 .. l /\ n[i] = m[i]
                             \/ i = l + 1 /\ n[i] = q[1] /\ q[1].client = c
  <2>1. \A i \in 1 .. Len(n) : \/ i \in 1 .. l /\ n[i] = m[i]
                               \/ i = l + 1 /\ n[i] = r /\ r.client = c
    BY <1>1, TakenLast
  <2> QED
    BY <1>2, <2>1
<1>4. \A i, j \in 1 .. k : i < j => i + 1 < j + 1
  OBVIOUS
<1>5. \A i \in 1 .. k : 1 < i + 1
  OBVIOUS
<1>6. Ascending(v, c)
  BY <1>2, <1>4 DEF Ascending
<1>7. Precedes(v, p, c)
  BY <1>2 DEF Precedes
<1>8. InSession(v, c)
  BY <1>2 DEF InSession
<1>9. ASSUME NEW i \in 1 .. Len(n), NEW j \in 1 .. Len(n), i < j, IsOrder(n[i], c), IsOrder(n[j], c)
      PROVE  n[i].id < n[j].id
  <2>1. i \in 1 .. l /\ n[i] = m[i]
    <3>1. i # l + 1
      <4>1. j \in 1 .. l \/ j = l + 1
        BY <1>3
      <4> QED
        BY <1>9, <4>1
    <3> QED
      BY <1>3, <3>1
  <2>2. CASE j \in 1 .. l /\ n[j] = m[j]
    BY <1>2, <1>9, <2>1, <2>2 DEF Ascending
  <2>3. CASE j = l + 1 /\ n[j] = q[1]
    BY <1>2, <1>9, <2>1, <2>3 DEF Precedes
  <2> QED
    BY <1>3, <2>2, <2>3
<1>10. ASSUME NEW i \in 1 .. Len(n), NEW j \in 1 .. k, IsOrder(n[i], c), IsOrder(v[j], c)
       PROVE  n[i].id < v[j].id
  <2>1. v[j] = q[j + 1] /\ j + 1 \in 1 .. Len(q) /\ 1 < j + 1
    BY <1>2, <1>5
  <2>2. CASE i \in 1 .. l /\ n[i] = m[i]
    BY <1>2, <1>10, <2>1, <2>2 DEF Precedes
  <2>3. CASE n[i] = q[1]
    BY <1>2, <1>10, <2>1, <2>3 DEF Ascending
  <2> QED
    BY <1>3, <2>2, <2>3
<1>11. ASSUME NEW i \in 1 .. Len(n), NEW j \in 1 .. Len(p), IsOrder(n[i], c), IsOrder(p[j], c)
       PROVE  n[i].id < p[j].id
  <2>1. CASE i \in 1 .. l /\ n[i] = m[i]
    BY <1>2, <1>11, <2>1 DEF Precedes
  <2>2. CASE n[i] = q[1]
    BY <1>2, <1>11, <2>2 DEF Precedes
  <2> QED
    BY <1>3, <2>1, <2>2
<1>12. Ascending(n, c) /\ Precedes(n, v, c) /\ Precedes(n, p, c)
  BY <1>2, <1>9, <1>10, <1>11 DEF Ascending, Precedes
<1>13. ASSUME NEW i \in 1 .. Len(n)
       PROVE  /\ n[i].client = c
              /\ n[i].epoch = epoch[c] /\ (n[i].type = "NEW" /\ ~unknown[c] => n[i].id < expected[c])
  <2>1. CASE i \in 1 .. l /\ n[i] = m[i]
    BY <1>2, <2>1 DEF InSession
  <2>2. CASE n[i] = q[1] /\ q[1].client = c
    BY <1>2, <2>2 DEF InSession
  <2> QED
    BY <1>3, <2>1, <2>2
<1>14. InSession(n, c)
  BY <1>13 DEF InSession
<1> QED
  BY <1>6, <1>7, <1>8, <1>12, <1>13, <1>14

\* The requests of a client are as many as before.
LEMMA TakenTotal ==
    ASSUME NEW q, NEW r, NEW v, NEW m, NEW n, NEW c, Takes(q, r, v, m, n, c)
    PROVE  /\ Total(q, RequestsOf(c)) = Total(v, RequestsOf(c)) + IF r.client = c THEN 1 ELSE 0
           /\ Len(n) + Total(v, RequestsOf(c)) = Len(m) + Total(q, RequestsOf(c))
           /\ Total(v, RequestsOf(c)) \in Nat /\ Total(q, RequestsOf(c)) \in Nat
<1>1. PICK k \in Nat, l \in Nat : Shifted(q, r, v, m, n, c, k, l)
  BY TakenPlaces
<1>2. r \in RequestsOf(c) <=> r.client = c
  BY <1>1 DEF Shifted, RequestsOf
<1>3. q \in Seq(Requests) /\ q # <<>> /\ r = Head(q) /\ v = Tail(q)
  BY DEF Takes
<1>4. Total(q, RequestsOf(c)) = Total(v, RequestsOf(c)) + IF r \in RequestsOf(c) THEN 1 ELSE 0
  BY <1>3, TotalTail
<1>5. v \in Seq(Requests)
  BY <1>1 DEF Shifted
<1>6. PICK t \in Nat : t = Total(v, RequestsOf(c))
  BY <1>5, TotalNat
<1>7. Total(q, RequestsOf(c)) = t + IF r.client = c THEN 1 ELSE 0
  BY <1>2, <1>4, <1>6
<1>8. Len(m) = l /\ Len(n) = IF r.client = c THEN l + 1 ELSE l
  BY <1>1 DEF Shifted
<1>9. CASE r.client = c
  <2>1. Total(q, RequestsOf(c)) = t + 1 /\ Len(n) = l + 1
    BY <1>7, <1>8, <1>9
  <2>2. (l + 1) + t = l + (t + 1)
    OBVIOUS
  <2> QED
    BY <1>6, <1>8, <1>9, <2>1, <2>2
<1>10. CASE r.client # c
  <2>1. Total(q, RequestsOf(c)) = t + 0 /\ Len(n) = l
    BY <1>7, <1>8, <1>10
  <2>2. l + t = l + (t + 0)
    OBVIOUS
  <2> QED
    BY <1>6, <1>8, <1>10, <2>1, <2>2
<1> QED
  BY <1>9, <1>10

\* The orders of client c with the numbers up to x have been taken or will be.
Complete(m, q, p, c, x) ==
    /\ \A i \in 1 .. Len(m) : m[i].client = c /\ m[i].type = "NEW" /\ m[i].id = i
    /\ \A i \in 1 .. Len(q) : q[i].client = c => q[i].type = "NEW"
    /\ \A i \in 1 .. Len(p) : p[i].client = c => p[i].type = "NEW"
    /\ \A i \in 1 .. x : i <= Len(m) \/ Holds(q, c, i) \/ Holds(p, c, i)

\* As long as no number is missing, the request that is taken has the next one.
LEMMA TakenWhole ==
    ASSUME NEW q, NEW r, NEW v, NEW m, NEW n, NEW c, Takes(q, r, v, m, n, c), NEW p \in Seq(Requests), NEW x \in Nat,
           Ascending(q, c), Precedes(m, q, c), Precedes(q, p, c),
           Len(m) + Total(q, RequestsOf(c)) + Total(p, RequestsOf(c)) = x, Complete(m, q, p, c, x)
    PROVE  Complete(n, v, p, c, x)
<1>0. /\ \A i \in 1 .. Len(m) : m[i].client = c /\ m[i].type = "NEW" /\ m[i].id = i
      /\ \A i \in 1 .. Len(q) : q[i].client = c => q[i].type = "NEW"
      /\ \A i \in 1 .. Len(p) : p[i].client = c => p[i].type = "NEW"
  BY DEF Complete
<1>0a. \A i \in 1 .. x : i <= Len(m) \/ Holds(q, c, i) \/ Holds(p, c, i)
  BY DEF Complete
<1>1. PICK k \in Nat, l \in Nat : Shifted(q, r, v, m, n, c, k, l)
  BY TakenPlaces
<1>2. /\ Len(q) = k + 1 /\ Len(v) = k /\ Len(m) = l /\ q[1] = r /\ r \in Requests /\ 1 \in 1 .. k + 1
      /\ \A i \in 1 .. k : v[i] = q[i + 1] /\ i + 1 \in 1 .. k + 1
      /\ \A i \in 2 .. k + 1 : i - 1 \in 1 .. k /\ v[i - 1] = q[i]
      /\ Len(n) = IF r.client = c THEN l + 1 ELSE l
  BY <1>1 DEF Shifted
<1>3. \A i \in 1 .. Len(n) : \/ i \in 1 .. l /\ n[i] = m[i]
                             \/ i = l + 1 /\ n[i] = r /\ r.client = c
  BY <1>1, TakenLast
<1>4. ASSUME NEW i \in 1 .. k PROVE v[i].client = c => v[i].type = "NEW"
  <2>1. v[i] = q[i + 1] /\ i + 1 \in 1 .. Len(q)
    BY <1>2
  <2> QED
    BY <1>0, <2>1
<1>5. ASSUME r.client = c PROVE r.type = "NEW" /\ r.id = l + 1
  <2>1. IsOrder(q[1], c)
    BY <1>0, <1>2, <1>5 DEF IsOrder
  <2>2. r.id \in Nat \ {0}
    BY <1>2 DEF Requests
  <2>3. l + 1 \in 1 .. x
    <3>0. /\ Total(q, RequestsOf(c)) = Total(v, RequestsOf(c)) + IF r.client = c THEN 1 ELSE 0
          /\ Total(v, RequestsOf(c)) \in Nat /\ Total(q, RequestsOf(c)) \in Nat
      BY TakenTotal
    <3>0a. Total(p, RequestsOf(c)) \in Nat
      BY TotalNat
    <3>1. PICK s \in Nat, t \in Nat, u \in Nat :
             s = Total(q, RequestsOf(c)) /\ t = Total(p, RequestsOf(c)) /\ u = Total(v, RequestsOf(c))
      BY <3>0, <3>0a
    <3>2. s = u + 1
      BY <1>5, <3>0, <3>1
    <3>3. l + s + t = x
      BY <1>2, <3>1
    <3> QED
      BY <3>2, <3>3
  <2>4. l < r.id
    <3>1. CASE l = 0
      BY <2>2, <3>1
    <3>2. CASE l # 0
      <4>1. l \in 1 .. Len(m)
        BY <1>2, <3>2
      <4>2. IsOrder(m[l], c) /\ m[l].id = l
        BY <1>0, <4>1 DEF IsOrder
      <4> QED
        BY <1>2, <2>1, <4>1, <4>2 DEF Precedes
    <3> QED
      BY <3>1, <3>2
  <2>5. r.id <= l + 1
    <3>1. ~(l + 1 <= Len(m))
      BY <1>2
    <3>2. Holds(q, c, l + 1) \/ Holds(p, c, l + 1)
      BY <1>0a, <2>3, <3>1
    <3>3. CASE Holds(q, c, l + 1)
      <4>1. PICK i \in 1 .. k + 1 : q[i].client = c /\ q[i].id = l + 1
        BY <1>2, <3>3 DEF Holds
      <4>2. CASE i = 1
        BY <1>2, <4>1, <4>2
      <4>3. CASE i # 1
        <5>1. 1 < i
          BY <4>3
        <5>2. IsOrder(q[i], c)
          BY <1>0, <1>2, <4>1 DEF IsOrder
        <5>3. q[1].id < q[i].id
          BY <1>2, <2>1, <5>1, <5>2 DEF Ascending
        <5> QED
          BY <1>2, <2>2, <4>1, <5>3
      <4> QED
        BY <4>2, <4>3
    <3>4. CASE Holds(p, c, l + 1)
      <4>1. PICK i \in 1 .. Len(p) : p[i].client = c /\ p[i].id = l + 1
        BY <3>4 DEF Holds
      <4>2. q[1].id < p[i].id
        BY <1>0, <1>2, <2>1, <4>1 DEF Precedes, IsOrder
      <4> QED
        BY <1>2, <2>2, <4>1, <4>2
    <3> QED
      BY <3>2, <3>3, <3>4
  <2>6. r.type = "NEW"
    BY <1>2, <2>1 DEF IsOrder
  <2> QED
    BY <2>2, <2>4, <2>5, <2>6
<1>6. ASSUME NEW i \in 1 .. Len(n) PROVE n[i].client = c /\ n[i].type = "NEW" /\ n[i].id = i
  <2>1. CASE i \in 1 .. l /\ n[i] = m[i]
    BY <1>0, <1>2, <2>1
  <2>2. CASE i = l + 1 /\ n[i] = r /\ r.client = c
    BY <1>5, <2>2
  <2> QED
    BY <1>3, <2>1, <2>2
<1>7. ASSUME NEW i \in 1 .. x PROVE i <= Len(n) \/ Holds(v, c, i) \/ Holds(p, c, i)
  <2>1. CASE i <= l
    BY <1>2, <2>1
  <2>2. CASE Holds(p, c, i)
    BY <2>2
  <2>3. CASE Holds(q, c, i)
    <3>1. PICK j \in 1 .. k + 1 : q[j].client = c /\ q[j].id = i
      BY <1>2, <2>3 DEF Holds
    <3>2. CASE j = 1
      <4>1. r.client = c /\ i = l + 1
        BY <1>2, <1>5, <3>1, <3>2
      <4> QED
        BY <1>2, <4>1
    <3>3. CASE j # 1
      <4>1. j \in 2 .. k + 1
        BY <3>3
      <4>2. j - 1 \in 1 .. Len(v) /\ v[j - 1] = q[j]
        BY <1>2, <4>1
      <4> QED
        BY <3>1, <4>2 DEF Holds
    <3> QED
      BY <3>2, <3>3
  <2> QED
    BY <1>0a, <1>2, <2>1, <2>2, <2>3
<1> QED
  BY <1>0, <1>2, <1>4, <1>6, <1>7 DEF Complete

\* The responses to a request join the queue.
LEMMA RepliesJoin ==
    ASSUME Types, NEW c \in Clients, NEW req, NEW rs, AnswersResult(req, rs),
           req.client = c => req.epoch = epoch[c], ReplyInv(c), responseQ' = responseQ \o rs,
           issued'[c] = issued[c] + Total(rs, RepliesTo(c)), UNCHANGED <<gw, down, owner, epoch>>
    PROVE  ReplyInv(c)'
<1>1. PICK q \in Seq(Replies) : q = responseQ
  BY DEF Types
<1>1a. PICK w : w = q \o rs
  OBVIOUS
<1>2. rs \in Seq(Replies) /\ Len(rs) \in Nat /\ Len(q) \in Nat
  BY <1>1 DEF AnswersResult
<1>3. PICK k \in Nat, l \in Nat : k = Len(q) /\ l = Len(rs)
  BY <1>2
<1>4. /\ Len(w) = k + l
      /\ \A i \in 1 .. k + l : w[i] = IF i <= k THEN q[i] ELSE rs[i - k]
  BY <1>1a, <1>2, <1>3, ConcatProperties
<1>5. PICK S : S = RepliesTo(c)
  OBVIOUS
<1>6. /\ Total(w, S) = Total(q, S) + Total(rs, S)
      /\ \A i \in 1 .. k : Count(w, S, i) = Count(q, S, i)
      /\ \A i \in 1 .. l : Count(w, S, k + i) = Total(q, S) + Count(rs, S, i)
  <2>1. q \in Seq(Replies) /\ rs \in Seq(Replies)
    BY <1>1, <1>2
  <2>2. Total(w, S) = Total(q, S) + Total(rs, S)
    BY <1>1a, <2>1, TotalConcat
  <2>3. ASSUME NEW i \in 1 .. k PROVE Count(w, S, i) = Count(q, S, i)
    <3>1. ASSUME NEW j \in 1 .. i PROVE w[j] = q[j]
      <4>1. j \in 1 .. k + l /\ j <= k
        OBVIOUS
      <4> QED
        BY <1>4, <4>1
    <3>2. \A j \in 1 .. i : w[j] \in S <=> q[j] \in S
      BY <3>1
    <3>3. i \in Nat
      OBVIOUS
    <3> QED
      BY <3>2, <3>3, CountAgree
  <2>4. \A i \in 1 .. l : Count(w, S, k + i) = Total(q, S) + Count(rs, S, i)
    BY <1>1a, <1>3, <2>1, TotalConcat
  <2> QED
    BY <2>2, <2>3, <2>4
<1>7. PICK a \in Nat, b \in Nat, t \in Nat, u \in Nat, n \in Nat :
         /\ a = Total(gw[c].got, Genuine) /\ b = Total(down[Current(c)], GenuineFrames)
         /\ t = Total(q, S) /\ u = Total(rs, S) /\ n = issued[c]
  <2>1. gw[c] \in Gateways /\ Current(c) \in Sockets
    BY CurrentSocket
  <2>2. gw[c].got \in Seq(Responses) /\ down[Current(c)] \in Seq(DownFrames) /\ issued[c] \in Nat
    BY <2>1 DEF Gateways, Types
  <2> QED
    BY <1>2, <2>2, TotalNat
<1>8. PICK owned : owned = (owner[c] = gw[c].epoch)
  OBVIOUS
<1>9. /\ \A i \in 1 .. k : q[i].client = c => /\ q[i].resp.epoch = epoch[c] /\ q[i].resp.rid # 0
                                              /\ owned => q[i].resp.rid = a + b + Count(q, S, i)
      /\ owned => n = a + b + t
  BY <1>1, <1>3, <1>5, <1>7, <1>8 DEF ReplyInv
<1>10. ASSUME NEW i \in 1 .. l, rs[i].client = c
       PROVE  /\ rs[i].resp.epoch = epoch[c] /\ rs[i].resp.rid # 0
              /\ owned => rs[i].resp.rid = a + b + (t + Count(rs, S, i))
  <2>1. rs[i].resp.rid = n + Count(rs, S, i)
    BY <1>3, <1>5, <1>7, <1>10 DEF AnswersResult
  <2>2. i \in Nat /\ i \in 1 .. i
    OBVIOUS
  <2>3. rs[i] \in S
    <3>1. rs[i] \in Replies
      BY <1>2, <1>3
    <3> QED
      BY <1>5, <1>10, <3>1 DEF RepliesTo
  <2>4. PICK x \in Nat : x = Count(rs, S, i) /\ x > 0
    BY <2>2, <2>3, CountType, CountSome
  <2>5. rs[i].resp.epoch = epoch[c]
    <3>1. CASE i = 1
      BY <1>10, <3>1 DEF AnswersResult
    <3>2. CASE i # 1
      <4>1. i > 1
        BY <3>2
      <4> QED
        BY <1>3, <1>10, <4>1 DEF AnswersResult
    <3> QED
      BY <3>1, <3>2
  <2>6. n + x # 0
    BY <2>4
  <2>7. owned => n + x = a + b + (t + x)
    BY <1>9
  <2> QED
    BY <2>1, <2>4, <2>5, <2>6, <2>7
<1>11. ASSUME NEW i \in 1 .. k + l, w[i].client = c
       PROVE  /\ w[i].resp.epoch = epoch[c] /\ w[i].resp.rid # 0
              /\ owned => w[i].resp.rid = a + b + Count(w, S, i)
  <2>1. CASE i <= k
    <3>1. i \in 1 .. k /\ w[i] = q[i]
      BY <1>4, <2>1
    <3> QED
      BY <1>6, <1>9, <1>11, <3>1
  <2>2. CASE ~(i <= k)
    <3>1. PICK j \in 1 .. l : j = i - k
      <4>1. i - k \in 1 .. l
        BY <2>2
      <4> QED
        BY <4>1
    <3>2. w[i] = rs[j] /\ i = k + j
      <4>1. w[i] = rs[i - k]
        BY <1>4, <2>2
      <4> QED
        BY <3>1, <4>1
    <3>3. Count(w, S, i) = t + Count(rs, S, j)
      BY <1>6, <1>7, <3>2
    <3> QED
      BY <1>10, <1>11, <3>2, <3>3
  <2> QED
    BY <2>1, <2>2
<1>12. owned => issued'[c] = a + b + Total(w, S)
  <2>1. issued'[c] = n + u /\ Total(w, S) = t + u
    BY <1>5, <1>6, <1>7
  <2>2. owned => n + u = a + b + (t + u)
    BY <1>9
  <2> QED
    BY <2>1, <2>2
<1>13. Current(c)' = Current(c)
  BY DEF Current
<1>14. a = Total(gw'[c].got, Genuine) /\ b = Total(down'[Current(c)'], GenuineFrames)
  BY <1>7, <1>13
<1>15. /\ \A i \in 1 .. Len(gw'[c].got) :
             gw'[c].got[i].rid # 0 => /\ gw'[c].got[i].rid = Count(gw'[c].got, Genuine, i)
                                      /\ gw'[c].got[i].epoch = gw'[c].epoch
       /\ \A i \in 1 .. Len(down'[Current(c)']) :
             down'[Current(c)'][i].resp.rid # 0 =>
                /\ down'[Current(c)'][i].resp.rid = a + Count(down'[Current(c)'], GenuineFrames, i)
                /\ down'[Current(c)'][i].resp.epoch = gw'[c].epoch
  BY <1>7, <1>13 DEF ReplyInv
<1>16. /\ \A i \in 1 .. Len(responseQ') :
             responseQ'[i].client = c =>
                /\ responseQ'[i].resp.epoch = epoch'[c] /\ responseQ'[i].resp.rid # 0
                /\ owner'[c] = gw'[c].epoch =>
                      responseQ'[i].resp.rid = a + b + Count(responseQ', RepliesTo(c), i)
       /\ owner'[c] = gw'[c].epoch => issued'[c] = a + b + Total(responseQ', RepliesTo(c))
  BY <1>1, <1>1a, <1>4, <1>5, <1>8, <1>11, <1>12
<1> QED
  BY <1>14, <1>15, <1>16 DEF ReplyInv

LEMMA EngineKeeps ==
    ASSUME SessionInv, EngineProcess
    PROVE  SessionInv'
<1>1. Types /\ Bounds /\ AcceptInv /\ \A t \in Sockets : TimeInv(t)
  BY DEF SessionInv
<1>2. UNCHANGED <<gw, up, down, clock, inbound, rx, open, owner, epoch, unknown, accepted, expected, outSeq,
                 anonSeq, pending, exPhase, peerSent>>
  BY DEF EngineProcess, wireVars, serverVars, sessionVars
<1>3. Types' /\ Bounds'
  BY <1>1, TypesEngine
<1>4. PICK req \in Requests : \E rs : EngineResult(req, rs)
  BY <1>1, EngineEffect
<1>5. PICK rs : EngineResult(req, rs)
  BY <1>4
<1>6. PICK a \in Clients : a = req.client
  BY <1>4 DEF Requests
<1>7. PICK q \in Seq(Requests), v \in Seq(Requests), p \in Seq(Requests) :
         q = requestQ /\ v = requestQ' /\ p = pending
  BY <1>1, <1>3 DEF Types
<1>8. q # <<>> /\ req = Head(q) /\ v = Tail(q) /\ AnswersResult(req, rs)
  BY <1>5, <1>7 DEF EngineResult
<1>9. ASSUME NEW c \in Clients PROVE Takes(q, req, v, matched[c], matched'[c], c)
  <2>1. matched \in [Clients -> Seq(Requests)]
    BY <1>1 DEF Types
  <2>2. matched' = [matched EXCEPT ![a] = Append(matched[a], req)]
    BY <1>5, <1>6 DEF EngineResult
  <2>3. matched'[c] = IF c = a THEN Append(matched[c], req) ELSE matched[c]
    BY <2>1, <2>2
  <2> QED
    BY <1>6, <1>7, <1>8, <2>1, <2>3 DEF Takes
<1>10. PICK joins : joins = (/\ responseQ' = responseQ \o rs /\ halted' = halted
                             /\ issued' = [c \in Clients |-> issued[c] + Total(rs, RepliesTo(c))])
  OBVIOUS
<1>11. joins \/ (halted' = TRUE /\ responseQ' = responseQ /\ issued' = issued)
  BY <1>5, <1>10 DEF EngineResult
<1>12. \A t \in Sockets : TimeInv(t)'
  BY <1>1, <1>2 DEF TimeInv
<1>13. ASSUME NEW c \in Clients
       PROVE  Len(matched[c]) + Total(q, RequestsOf(c)) + Total(p, RequestsOf(c)) = accepted[c]
  BY <1>1, <1>7 DEF AcceptInv
<1>14. AcceptInv'
  <2>1. ASSUME NEW c \in Clients
        PROVE  Len(matched'[c]) + Total(v, RequestsOf(c)) + Total(p, RequestsOf(c)) = accepted[c]
    <3>1. Takes(q, req, v, matched[c], matched'[c], c)
      BY <1>9
    <3>2. /\ Len(matched'[c]) + Total(v, RequestsOf(c)) = Len(matched[c]) + Total(q, RequestsOf(c))
      BY <3>1, TakenTotal
    <3> QED
      BY <1>13, <3>2
  <2>2. exPhase \notin {"server", "stopped"}
    BY <1>1, <1>7, <1>8 DEF AcceptInv
  <2> QED
    BY <1>1, <1>2, <1>7, <2>1, <2>2 DEF AcceptInv
<1>15. ASSUME NEW c \in Clients PROVE ClientInv(c)'
  <2>1. /\ GatewayInv(c) /\ SocketInv(c) /\ NumberInv(c) /\ SettleInv(c) /\ AbsentInv(c)
        /\ ReplyInv(c) /\ OrderInv(c) /\ WholeInv(c) /\ SteadyInv(c)
    BY InvOf
  <2>2. SocketsKept(c) /\ SessionKept(c) /\ GatewayState(c)
    BY <1>2 DEF SocketsKept, SessionKept, GatewayState
  <2>3. GatewayInv(c)'
    BY <1>2, <2>1, GatewayKept
  <2>4. SocketInv(c)'
    BY <1>2, <2>1, <2>2, SocketKept
  <2>5. NumberInv(c)'
    BY <1>2, <2>1, NumberKept
  <2>6. PICK m, n : m = matched[c] /\ n = matched'[c]
    OBVIOUS
  <2>7. Takes(q, req, v, m, n, c)
    BY <1>9, <2>6
  <2>8. PICK k \in Nat, l \in Nat : Shifted(q, req, v, m, n, c, k, l)
    BY <2>7, TakenPlaces
  <2>9. /\ Len(q) = k + 1 /\ Len(v) = k /\ q[1] = req /\ 1 \in 1 .. Len(q)
        /\ \A i \in 1 .. k : v[i] = q[i + 1] /\ i + 1 \in 1 .. Len(q)
    BY <2>8 DEF Shifted
  <2>10. /\ \A i \in 1 .. Len(m) : m[i].client = c
         /\ InSession(m, c) /\ InSession(q, c) /\ InSession(p, c)
         /\ Ascending(m, c) /\ Ascending(q, c) /\ Ascending(p, c)
         /\ Precedes(m, q, c) /\ Precedes(m, p, c) /\ Precedes(q, p, c) /\ Timely(p, c)
         /\ ~unknown[c] => \A i \in 1 .. Len(p) : IsOrder(p[i], c) => p[i].time <= rx[<<c, owner[c]>>]
    BY <1>7, <2>1, <2>6 DEF OrderInv, Timely
  <2>11. OrderInv(c)'
    <3>1. /\ Ascending(v, c) /\ Ascending(n, c) /\ Precedes(n, v, c) /\ Precedes(n, p, c) /\ Precedes(v, p, c)
          /\ InSession(v, c) /\ InSession(n, c) /\ \A i \in 1 .. Len(n) : n[i].client = c
      BY <2>7, <2>10, TakenOrders
    <3>2. InSession(matched[c], c)' /\ InSession(requestQ, c)' /\ InSession(pending, c)'
      BY <1>2, <1>7, <2>6, <2>10, <3>1 DEF InSession
    <3>3. /\ \A i \in 1 .. Len(matched'[c]) : matched'[c][i].client = c
          /\ Ascending(matched[c], c)' /\ Ascending(requestQ, c)' /\ Ascending(pending, c)'
          /\ Timely(pending, c)'
      BY <1>2, <1>7, <2>6, <2>10, <3>1 DEF Ascending, Timely, IsOrder
    <3>4. /\ Precedes(matched[c], requestQ, c)' /\ Precedes(matched[c], pending, c)'
          /\ Precedes(requestQ, pending, c)'
      BY <1>2, <1>7, <2>6, <3>1 DEF Precedes, IsOrder
    <3>5. ~unknown'[c] => \A i \in 1 .. Len(pending') :
                            IsOrder(pending'[i], c) => pending'[i].time <= rx'[<<c, owner'[c]>>]
      BY <1>2, <1>7, <2>10
    <3> QED
      BY <3>2, <3>3, <3>4, <3>5 DEF OrderInv, Timely
  <2>12. WholeInv(c)'
    <3>1. SUFFICES ASSUME peerSent'[c] = 0 PROVE WholeInv(c)'
      BY DEF WholeInv
    <3>2. PICK x \in Nat : x = accepted[c]
      BY <1>1 DEF Types
    <3>3. /\ expected[c] = x + 1
          /\ \A i \in 1 .. Len(m) : m[i].type = "NEW" /\ m[i].id = i
          /\ \A i \in 1 .. Len(q) : q[i].client = c => q[i].type = "NEW"
          /\ \A i \in 1 .. Len(p) : p[i].client = c => p[i].type = "NEW"
          /\ \A i \in 1 .. x : i <= Len(m) \/ Holds(q, c, i) \/ Holds(p, c, i)
      BY <1>2, <1>7, <2>1, <2>6, <3>1, <3>2 DEF WholeInv
    <3>4. Complete(m, q, p, c, x)
      BY <2>10, <3>3 DEF Complete
    <3>5. Len(m) + Total(q, RequestsOf(c)) + Total(p, RequestsOf(c)) = x
      BY <1>13, <2>6, <3>2
    <3>6. Complete(n, v, p, c, x)
      BY <1>7, <2>7, <2>10, <3>2, <3>4, <3>5, TakenWhole
    <3>7. /\ \A i \in 1 .. Len(n) : n[i].type = "NEW" /\ n[i].id = i
          /\ \A i \in 1 .. Len(v) : v[i].client = c => v[i].type = "NEW"
          /\ \A i \in 1 .. Len(p) : p[i].client = c => p[i].type = "NEW"
          /\ \A i \in 1 .. x : i <= Len(n) \/ Holds(v, c, i) \/ Holds(p, c, i)
      BY <3>6 DEF Complete
    <3>8. \A i \in 1 .. accepted'[c] :
             i <= Len(matched'[c]) \/ Holds(requestQ, c, i)' \/ Holds(pending, c, i)'
      BY <1>2, <1>7, <2>6, <3>2, <3>7 DEF Holds
    <3> QED
      BY <1>2, <1>7, <2>6, <3>2, <3>3, <3>7, <3>8 DEF WholeInv
  <2>13. ReplyInv(c)'
    <3>1. req.client = c => req.epoch = epoch[c]
      BY <2>9, <2>10 DEF InSession
    <3>2. CASE joins
      <4>1. responseQ' = responseQ \o rs /\ issued'[c] = issued[c] + Total(rs, RepliesTo(c))
        BY <1>10, <3>2
      <4> QED
        BY <1>1, <1>2, <1>8, <2>1, <3>1, <4>1, RepliesJoin
    <3>3. CASE responseQ' = responseQ /\ issued' = issued
      BY <1>2, <2>1, <3>3 DEF ReplyInv, Current
    <3> QED
      BY <1>11, <3>2, <3>3
  <2>14. SettleInv(c)'
    <3>1. Current(c)' = Current(c)
      BY <1>2 DEF Current
    <3>2. PICK g \in Nat, d \in Nat, x \in Nat, b \in Nat, y \in Nat :
             /\ g = Total(gw[c].got, Settling) /\ d = Total(down[Current(c)], SettlingFrames)
             /\ x = Len(up[Current(c)]) /\ b = Len(inbound[Current(c)]) /\ y = gw[c].next
      BY <1>1, SettleNat
    <3>3. PICK i \in Nat, j \in Nat, h \in Nat, t \in Nat :
             /\ i = Total(p, RequestsOf(c)) /\ j = Total(v, RequestsOf(c))
             /\ h = Total(responseQ, SettlingReplies(c)) /\ t = Total(responseQ', SettlingReplies(c))
      <4>1. responseQ \in Seq(Replies) /\ responseQ' \in Seq(Replies)
        BY <1>1, <1>3 DEF Types
      <4> QED
        BY <1>7, <4>1, TotalNat
    <3>4. PICK e \in {0, 1} : e = IF req.client = c THEN 1 ELSE 0
      OBVIOUS
    <3>5. Total(q, RequestsOf(c)) = j + e
      BY <2>7, <3>3, <3>4, TakenTotal
    <3>6. t <= h + e
      <4>1. CASE joins
        <5>1. responseQ \in Seq(Replies) /\ rs \in Seq(Replies) /\ responseQ' = responseQ \o rs
          BY <1>1, <1>8, <1>10, <4>1 DEF Types, AnswersResult
        <5>2. Total(responseQ \o rs, SettlingReplies(c))
                = Total(responseQ, SettlingReplies(c)) + Total(rs, SettlingReplies(c))
          BY <5>1, TotalConcat
        <5>3. Total(rs, SettlingReplies(c)) = e
          BY <1>6, <1>8, <3>4 DEF AnswersResult
        <5> QED
          BY <3>3, <5>1, <5>2, <5>3
      <4>2. CASE responseQ' = responseQ
        BY <3>3, <3>4, <4>2
      <4> QED
        BY <1>11, <4>1, <4>2
    <3>7. CASE owner[c] = gw[c].epoch
      <4>1. AtExchange(c) = i + (j + e) + h /\ AtExchange(c)' = i + j + t
        BY <1>2, <1>7, <3>3, <3>5, <3>7 DEF AtExchange
      <4>2. g + d + x + b + (i + (j + e) + h) <= y - 1
        BY <2>1, <3>2, <4>1 DEF SettleInv
      <4>3. g + d + x + b + (i + j + t) <= y - 1
        BY <3>4, <3>6, <4>2
      <4> QED
        BY <1>2, <3>1, <3>2, <4>1, <4>3 DEF SettleInv
    <3>8. CASE owner[c] # gw[c].epoch
      BY <1>1, <1>2, <2>1, <3>8, SettleLess
    <3> QED
      BY <3>7, <3>8
  <2>15. AbsentInv(c)'
    <3>1. SUFFICES ASSUME owner'[c] = 0 PROVE AbsentInv(c)'
      BY DEF AbsentInv
    <3>2. /\ expected[c] = 1 /\ accepted[c] = 0 /\ m = <<>> /\ issued[c] = 0
          /\ \A i \in 1 .. Len(p) : p[i].client # c
          /\ \A i \in 1 .. Len(q) : q[i].client # c
          /\ \A i \in 1 .. Len(responseQ) : responseQ[i].client # c
          /\ Total(gw[c].got, Genuine) = 0
          /\ \A e \in 1 .. Peer : Total(down[<<c, e>>], GenuineFrames) = 0
      BY <1>2, <1>7, <2>1, <2>6, <3>1 DEF AbsentInv
    <3>3. req.client # c /\ n = <<>>
      <4>1. req.client # c
        BY <2>9, <3>2
      <4> QED
        BY <2>7, <3>2, <4>1 DEF Takes
    <3>4. ASSUME NEW i \in 1 .. Len(v) PROVE v[i].client # c
      BY <2>9, <3>2
    <3>5. \A i \in 1 .. Len(rs) : rs[i].client # c
      BY <1>8, <2>6, <3>2, <3>3 DEF AnswersResult
    <3>6. issued'[c] = 0 /\ \A i \in 1 .. Len(responseQ') : responseQ'[i].client # c
      <4>1. CASE joins
        <5>1. responseQ \in Seq(Replies) /\ rs \in Seq(Replies) /\ responseQ' = responseQ \o rs
          BY <1>1, <1>8, <1>10, <4>1 DEF Types, AnswersResult
        <5>2. ASSUME NEW i \in 1 .. Len(responseQ') PROVE responseQ'[i].client # c
          <6>1. PICK h \in Nat, t \in Nat : h = Len(responseQ) /\ t = Len(rs)
            BY <5>1
          <6>2. /\ Len(responseQ') = h + t
                /\ \A j \in 1 .. h + t : responseQ'[j] = IF j <= h THEN responseQ[j] ELSE rs[j - h]
            BY <5>1, <6>1, ConcatProperties
          <6>3. CASE i <= h
            BY <3>2, <6>1, <6>2, <6>3
          <6>4. CASE ~(i <= h)
            <7>1. i - h \in 1 .. t
              BY <6>2, <6>4
            <7> QED
              BY <3>5, <6>1, <6>2, <6>4, <7>1
          <6> QED
            BY <6>3, <6>4
        <5>3. Total(rs, RepliesTo(c)) = 0
          <6>1. Len(rs) \in Nat /\ \A i \in 1 .. Len(rs) : rs[i] \notin RepliesTo(c)
            BY <3>5, <5>1 DEF RepliesTo
          <6> QED
            BY <6>1, CountNone DEF Total
        <5>4. issued'[c] = issued[c] + Total(rs, RepliesTo(c))
          BY <1>10, <4>1
        <5> QED
          BY <3>2, <5>2, <5>3, <5>4
      <4>2. CASE responseQ' = responseQ /\ issued' = issued
        BY <3>2, <4>2
      <4> QED
        BY <1>11, <4>1, <4>2
    <3> QED
      BY <1>2, <1>7, <2>6, <3>2, <3>3, <3>4, <3>6 DEF AbsentInv
  <2>16. SteadyInv(c)'
    <3>1. SUFFICES ASSUME Steady(c) PROVE SteadyInv(c)'
      BY <1>2 DEF SteadyInv, Steady
    <3>2. PICK t : t = <<c, 1>>
      OBVIOUS
    <3>3. /\ owner[c] # Peer /\ gw[c].healthy /\ open[t]
          /\ \A i \in 1 .. Len(inbound[t]) : inbound[t][i].seq = expected[c] + i - 1
          /\ \A i \in 1 .. Len(up[t]) : up[t][i].seq = expected[c] + Len(inbound[t]) + i - 1
          /\ gw[c].next = expected[c] + Len(inbound[t]) + Len(up[t])
          /\ \A i \in 1 .. Len(down[t]) : down[t][i].resp.type \in {"ANSWER", "FILLED"}
          /\ \A i \in 1 .. Len(responseQ) :
                responseQ[i].client = c => responseQ[i].resp.type \in {"ANSWER", "FILLED"}
      BY <2>1, <3>1, <3>2 DEF SteadyInv
    <3>4. \A i \in 1 .. Len(responseQ') :
             responseQ'[i].client = c => responseQ'[i].resp.type \in {"ANSWER", "FILLED"}
      <4>1. CASE joins
        <5>1. responseQ \in Seq(Replies) /\ rs \in Seq(Replies) /\ responseQ' = responseQ \o rs
          BY <1>1, <1>8, <1>10, <4>1 DEF Types, AnswersResult
        <5>2. \A i \in 1 .. Len(rs) : rs[i].resp.type \in {"ANSWER", "FILLED"}
          BY <1>8 DEF AnswersResult
        <5>3. ASSUME NEW i \in 1 .. Len(responseQ'), responseQ'[i].client = c
              PROVE  responseQ'[i].resp.type \in {"ANSWER", "FILLED"}
          <6>1. PICK h \in Nat, j \in Nat : h = Len(responseQ) /\ j = Len(rs)
            BY <5>1
          <6>2. /\ Len(responseQ') = h + j
                /\ \A y \in 1 .. h + j : responseQ'[y] = IF y <= h THEN responseQ[y] ELSE rs[y - h]
            BY <5>1, <6>1, ConcatProperties
          <6>3. CASE i <= h
            BY <3>3, <5>3, <6>1, <6>2, <6>3
          <6>4. CASE ~(i <= h)
            <7>1. i - h \in 1 .. j
              BY <6>2, <6>4
            <7> QED
              BY <5>2, <6>1, <6>2, <6>4, <7>1
          <6> QED
            BY <6>3, <6>4
        <5> QED
          BY <5>3
      <4>2. CASE responseQ' = responseQ
        BY <3>3, <4>2
      <4> QED
        BY <1>11, <4>1, <4>2
    <3>5. /\ owner'[c] # Peer /\ gw'[c].healthy /\ open'[t]
          /\ \A i \in 1 .. Len(inbound'[t]) : inbound'[t][i].seq = expected'[c] + i - 1
          /\ \A i \in 1 .. Len(up'[t]) : up'[t][i].seq = expected'[c] + Len(inbound'[t]) + i - 1
          /\ gw'[c].next = expected'[c] + Len(inbound'[t]) + Len(up'[t])
          /\ \A i \in 1 .. Len(down'[t]) : down'[t][i].resp.type \in {"ANSWER", "FILLED"}
      BY <1>2, <3>3
    <3> QED
      BY <3>2, <3>4, <3>5 DEF SteadyInv
  <2> QED
    BY <2>3, <2>4, <2>5, <2>11, <2>12, <2>13, <2>14, <2>15, <2>16 DEF ClientInv
<1> QED
  BY <1>3, <1>12, <1>14, <1>15 DEF SessionInv

-------------------------------------------------------------------------------
(* The shutdown of the exchange.                                              *)

LEMMA ExchangeKeeps ==
    ASSUME SessionInv, Exchange
    PROVE  SessionInv'
<1>1. Types /\ Bounds /\ AcceptInv /\ (\A t \in Sockets : TimeInv(t)) /\ \A y \in Clients : ClientInv(y)
  BY DEF SessionInv
<1>2. UNCHANGED <<gw, up, down, clock, inbound, rx, open, owner, epoch, unknown, accepted, expected, outSeq,
                 anonSeq, pending, requestQ, responseQ, matched, issued, peerSent>>
  BY DEF Exchange, ExchangeQuiesce, ExchangeQuiesced, ExchangeEngineStopped, ExchangeStopped,
         ExchangeDeadline, wireVars, serverVars, sessionVars, engineVars
<1>3. /\ exPhase' \in {"accepting", "quiescing", "engine", "server", "stopped"} /\ halted' \in BOOLEAN
      /\ exPhase' \in {"engine", "server", "stopped"} => pending = <<>>
      /\ exPhase' \in {"server", "stopped"} => requestQ = <<>>
      /\ LifeKept
  <2>0. /\ exPhase \in {"accepting", "quiescing", "engine", "server", "stopped"} /\ halted \in BOOLEAN
        /\ exPhase \in {"engine", "server", "stopped"} => pending = <<>>
        /\ exPhase \in {"server", "stopped"} => requestQ = <<>>
    BY <1>1 DEF Types, AcceptInv
  <2>1. CASE ExchangeQuiesce
    BY <2>0, <2>1 DEF ExchangeQuiesce, Running, LifeKept
  <2>2. CASE ExchangeQuiesced
    BY <2>0, <2>2 DEF ExchangeQuiesced, Running, LifeKept
  <2>3. CASE ExchangeEngineStopped
    BY <2>0, <2>3 DEF ExchangeEngineStopped, Running, LifeKept
  <2>4. CASE ExchangeStopped
    BY <2>0, <2>4 DEF ExchangeStopped, Running, LifeKept
  <2>5. CASE ExchangeDeadline
    BY <2>0, <2>5 DEF ExchangeDeadline, Running, LifeKept
  <2> QED
    BY <2>1, <2>2, <2>3, <2>4, <2>5 DEF Exchange
<1>4. Types' /\ Bounds'
  BY <1>1, <1>2, <1>3 DEF Types, Bounds
<1>5. AcceptInv'
  BY <1>1, <1>2, <1>3 DEF AcceptInv
<1>6. \A t \in Sockets : TimeInv(t)'
  BY <1>1, <1>2 DEF TimeInv
<1>7. ASSUME NEW y \in Clients PROVE ClientInv(y)'
  <2>1. QueuesKept(y)
    BY <1>1, <1>2, QueuesSame
  <2>2. Apart(y)
    BY <1>2, <1>3, <2>1 DEF Apart, SocketsKept, SessionKept, EngineKept
  <2> QED
    BY <1>1, <1>4, <2>2, ApartKeeps
<1> QED
  BY <1>4, <1>5, <1>6, <1>7 DEF SessionInv

-------------------------------------------------------------------------------
(* The theorems.                                                              *)

LEMMA IdleKeeps ==
    ASSUME SessionInv, UNCHANGED vars
    PROVE  SessionInv'
<1>1. Types /\ Bounds /\ AcceptInv /\ (\A t \in Sockets : TimeInv(t)) /\ \A y \in Clients : ClientInv(y)
  BY DEF SessionInv
<1>2. UNCHANGED <<gw, up, down, clock, inbound, rx, open, owner, epoch, unknown, accepted, expected, outSeq,
                 anonSeq, pending, requestQ, responseQ, exPhase, halted, matched, issued, peerSent>>
  BY DEF vars, wireVars, serverVars, sessionVars, engineVars
<1>3. Types' /\ Bounds'
  BY <1>1, <1>2 DEF Types, Bounds
<1>4. AcceptInv' /\ \A t \in Sockets : TimeInv(t)'
  BY <1>1, <1>2 DEF AcceptInv, TimeInv
<1>5. ASSUME NEW y \in Clients PROVE ClientInv(y)'
  <2>1. QueuesKept(y)
    BY <1>1, <1>2, QueuesSame
  <2>2. Apart(y)
    BY <1>2, <2>1 DEF Apart, SocketsKept, SessionKept, EngineKept, LifeKept
  <2> QED
    BY <1>1, <1>3, <2>2, ApartKeeps
<1> QED
  BY <1>3, <1>4, <1>5 DEF SessionInv

LEMMA InitKeeps ==
    ASSUME Init
    PROVE  SessionInv
<1>1. /\ gw = [c \in Clients |-> Session(1)]
      /\ up = [s \in Sockets |-> <<>>] /\ down = [s \in Sockets |-> <<>>] /\ clock = 0
      /\ inbound = [s \in Sockets |-> <<>>] /\ rx = [s \in Sockets |-> 0]
      /\ open = [s \in Sockets |-> TRUE]
  BY DEF Init
<1>2. /\ owner = [c \in Clients |-> 0] /\ epoch = [c \in Clients |-> 0]
      /\ unknown = [c \in Clients |-> FALSE] /\ accepted = [c \in Clients |-> 0]
      /\ expected = [c \in Clients |-> 1] /\ outSeq = [c \in Clients |-> 1]
      /\ anonSeq = [s \in Sockets |-> 1]
      /\ pending = <<>> /\ requestQ = <<>> /\ responseQ = <<>>
      /\ exPhase = "accepting" /\ halted = FALSE
      /\ matched = [c \in Clients |-> <<>>] /\ issued = [c \in Clients |-> 0]
      /\ peerSent = [c \in Clients |-> 0]
  BY DEF Init
<1>3. Len(<<>>) = 0 /\ \A S : Total(<<>>, S) = 0
  BY TotalEmpty
<1>4. PICK g : g = Session(1)
  OBVIOUS
<1>5. /\ g \in Gateways /\ g.epoch = 1 /\ g.queue = <<>> /\ g.submitted = 0 /\ g.next = 1 /\ g.pending = 0
      /\ g.expected = 1 /\ g.healthy /\ g.state = "run" /\ g.unread = 0 /\ g.got = <<>>
  <2>1. <<>> \in Seq(Nat \ {0}) /\ <<>> \in Seq(Responses) /\ 1 \in 1 .. MaxEpoch
    BY SocketFacts
  <2> QED
    BY <1>4, <2>1 DEF Session, Gateways
<1>6. Types
  <2>1. 0 \in 0 .. Peer /\ 0 \in 0 .. MaxEpoch
    BY SocketFacts
  <2>2. gw \in [Clients -> Gateways]
    BY <1>1, <1>4, <1>5
  <2>3. /\ up \in [Sockets -> Seq(UpFrames)] /\ inbound \in [Sockets -> Seq(UpFrames)]
        /\ down \in [Sockets -> Seq(DownFrames)] /\ clock \in Nat /\ rx \in [Sockets -> Nat]
        /\ open \in [Sockets -> BOOLEAN]
    <3>1. <<>> \in Seq(UpFrames) /\ <<>> \in Seq(DownFrames)
      OBVIOUS
    <3> QED
      BY <1>1, <3>1
  <2>4. /\ owner \in [Clients -> 0 .. Peer] /\ epoch \in [Clients -> 0 .. MaxEpoch]
        /\ unknown \in [Clients -> BOOLEAN] /\ accepted \in [Clients -> Nat]
        /\ expected \in [Clients -> Nat \ {0}] /\ outSeq \in [Clients -> Nat \ {0}]
        /\ anonSeq \in [Sockets -> Nat \ {0}]
    BY <1>2, <2>1
  <2>5. /\ pending \in Seq(Requests) /\ requestQ \in Seq(Requests) /\ responseQ \in Seq(Replies)
        /\ exPhase \in {"accepting", "quiescing", "engine", "server", "stopped"}
        /\ halted \in BOOLEAN
        /\ matched \in [Clients -> Seq(Requests)] /\ issued \in [Clients -> Nat]
        /\ peerSent \in [Clients -> Nat]
    <3>1. <<>> \in Seq(Requests) /\ <<>> \in Seq(Replies)
      OBVIOUS
    <3> QED
      BY <1>2, <3>1
  <2> QED
    BY <2>2, <2>3, <2>4, <2>5 DEF Types
<1>7. Bounds
  BY <1>1, <1>2, <1>3, <1>4, <1>5, Capacities DEF Bounds
<1>8. AcceptInv
  BY <1>2, <1>3 DEF AcceptInv
<1>9. \A s \in Sockets : TimeInv(s)
  BY <1>1, <1>3 DEF TimeInv
<1>10. ASSUME NEW c \in Clients PROVE ClientInv(c)
  <2>1. gw[c] = g /\ owner[c] = 0 /\ epoch[c] = 0 /\ ~unknown[c] /\ accepted[c] = 0 /\ expected[c] = 1
        /\ outSeq[c] = 1 /\ matched[c] = <<>> /\ issued[c] = 0 /\ peerSent[c] = 0
    BY <1>1, <1>2, <1>4
  <2>2. ASSUME NEW e \in 1 .. Peer
        PROVE  /\ up[<<c, e>>] = <<>> /\ down[<<c, e>>] = <<>> /\ inbound[<<c, e>>] = <<>>
               /\ rx[<<c, e>>] = 0 /\ open[<<c, e>>] /\ anonSeq[<<c, e>>] = 1
    <3>1. <<c, e>> \in Sockets
      BY SocketFacts
    <3> QED
      BY <1>1, <1>2, <3>1
  <2>3. 1 \in 1 .. Peer /\ Peer \in 1 .. Peer /\ Peer # 0 /\ Peer # 1 /\ Current(c) = <<c, 1>>
    BY <1>5, <2>1, SocketFacts DEF Current
  <2>4. GatewayInv(c)
    BY <1>3, <1>5, <2>1 DEF GatewayInv
  <2>5. SocketInv(c)
    BY <1>3, <1>5, <2>1, <2>2, <2>3 DEF SocketInv, FrameShape, Unused
  <2>6. NumberInv(c)
    BY <1>3, <1>5, <2>1, <2>2, <2>3 DEF NumberInv, NextNumber
  <2>7. SettleInv(c)
    <3>1. AtExchange(c) = 0 /\ Total(gw[c].got, Settling) = 0 /\ Total(down[Current(c)], SettlingFrames) = 0
      BY <1>3, <1>5, <2>1, <2>2, <2>3 DEF AtExchange
    <3>2. Len(up[Current(c)]) = 0 /\ Len(inbound[Current(c)]) = 0 /\ gw[c].next = 1
      BY <1>3, <1>5, <2>1, <2>2, <2>3
    <3> QED
      BY <3>1, <3>2 DEF SettleInv
  <2>8. AbsentInv(c)
    BY <1>2, <1>3, <1>5, <2>1, <2>2 DEF AbsentInv
  <2>9. ReplyInv(c)
    BY <1>2, <1>3, <1>5, <2>1, <2>2, <2>3 DEF ReplyInv
  <2>10. OrderInv(c)
    BY <1>2, <1>3, <2>1 DEF OrderInv, InSession, Ascending, Precedes
  <2>11. WholeInv(c)
    BY <1>2, <1>3, <2>1 DEF WholeInv
  <2>12. SteadyInv(c)
    <3>1. PICK t : t = <<c, 1>>
      OBVIOUS
    <3>2. Len(up[t]) = 0 /\ Len(down[t]) = 0 /\ Len(inbound[t]) = 0 /\ open[t] /\ Len(responseQ) = 0
      BY <1>2, <1>3, <2>2, <2>3, <3>1
    <3>3. owner[c] # Peer /\ gw[c].healthy /\ gw[c].next = 1 /\ expected[c] = 1
      BY <1>5, <2>1, SocketFacts
    <3> QED
      BY <3>1, <3>2, <3>3 DEF SteadyInv
  <2> QED
    BY <2>4, <2>5, <2>6, <2>7, <2>8, <2>9, <2>10, <2>11, <2>12 DEF ClientInv
<1> QED
  BY <1>6, <1>7, <1>8, <1>9, <1>10 DEF SessionInv

LEMMA NextKeeps ==
    ASSUME SessionInv, [Next]_vars
    PROVE  SessionInv'
<1>1. ASSUME NEW c \in Clients,
             \/ Submit(c) \/ Gateway(c) \/ ClientTake(c) \/ Crash(c) \/ PeerSend(c) \/ PeerRecv(c)
      PROVE  SessionInv'
  <2>1. CASE LocalStep(c)
    BY <2>1, LocalKeeps
  <2>2. CASE GatewaySend(c)
    BY <2>2, SendKeeps
  <2>3. CASE GatewayRecv(c)
    BY <2>3, RecvKeeps
  <2>4. CASE Crash(c)
    BY <2>4, CrashKeeps
  <2>5. CASE PeerSend(c)
    BY <2>5, PeerSendKeeps
  <2>6. CASE PeerRecv(c)
    BY <2>6, PeerRecvKeeps
  <2> QED
    BY <1>1, <2>1, <2>2, <2>3, <2>4, <2>5, <2>6 DEF Gateway, LocalStep
<1>2. ASSUME NEW s \in Sockets,
             \/ ServerRead(s) \/ ServerNoticeClose(s) \/ ServerAccept(s) \/ ServerReject(s) \/ ServerBind(s)
      PROVE  SessionInv'
  <2>1. CASE ServerRead(s)
    BY <2>1, ReadKeeps
  <2>2. CASE ServerNoticeClose(s)
    BY <2>2, NoticeKeeps
  <2>3. CASE ServerAccept(s)
    BY <2>3, AcceptKeeps
  <2>4. CASE ServerReject(s)
    BY <2>4, RejectKeeps
  <2>5. CASE ServerBind(s)
    BY <2>5, WaitKeeps
  <2> QED
    BY <1>2, <2>1, <2>2, <2>3, <2>4, <2>5
<1>3. CASE Server
  BY <1>2, <1>3, PublishKeeps, RespondKeeps DEF Server
<1>4. CASE EngineProcess
  BY <1>4, EngineKeeps
<1>5. CASE Exchange
  BY <1>5, ExchangeKeeps
<1>6. CASE UNCHANGED vars
  BY <1>6, IdleKeeps
<1> QED
  BY <1>1, <1>3, <1>4, <1>5, <1>6 DEF Next

\* The invariant that all the others rest on: what the gateways, the two
\* directions of each connection, the order server, the sequencer, the queues and
\* the matching engine know of a client always fits together.
THEOREM SessionInductive == Spec => []SessionInv
<1>1. Init => SessionInv
  BY InitKeeps
<1>2. SessionInv /\ [Next]_vars => SessionInv'
  BY NextKeeps
<1> QED
  BY <1>1, <1>2, PTL DEF Spec

LEMMA InvTypeOK == SessionInv => TypeOK
<1>1. SUFFICES ASSUME SessionInv PROVE TypeOK
  OBVIOUS
<1>2. Types /\ Bounds
  BY <1>1 DEF SessionInv
<1>3. ASSUME NEW c \in Clients
      PROVE  /\ gw[c].epoch \in 1 .. MaxEpoch /\ gw[c].submitted \in 0 .. MaxRequests
             /\ gw[c].pending \in Nat /\ gw[c].unread \in 0 .. ClientCapacity
             /\ gw[c].healthy \in BOOLEAN /\ gw[c].state \in {"run", "stopping", "stopped"}
             /\ owner[c] \in 0 .. Peer /\ epoch[c] \in 0 .. MaxEpoch /\ unknown[c] \in BOOLEAN
             /\ expected[c] \in Nat \ {0} /\ outSeq[c] \in Nat \ {0}
  <2>1. gw[c] \in Gateways /\ gw[c].submitted <= MaxRequests /\ gw[c].unread <= ClientCapacity
    BY <1>2, CurrentSocket DEF Bounds
  <2>2. /\ gw[c].epoch \in 1 .. MaxEpoch /\ gw[c].submitted \in Nat /\ gw[c].pending \in Nat
        /\ gw[c].unread \in Nat /\ gw[c].healthy \in BOOLEAN
        /\ gw[c].state \in {"run", "stopping", "stopped"}
    BY <2>1 DEF Gateways
  <2>3. gw[c].submitted \in 0 .. MaxRequests /\ gw[c].unread \in 0 .. ClientCapacity
    BY <2>1, <2>2, Capacities
  <2> QED
    BY <1>2, <2>2, <2>3 DEF Types
<1>4. \A s \in Sockets : \A buffer \in {up, down, inbound} : Len(buffer[s]) <= WireCapacity
  BY <1>2 DEF Bounds
<1>5. /\ Len(pending) <= SequencerCapacity
      /\ Len(requestQ) <= RequestCapacity /\ Len(responseQ) <= ResponseCapacity
      /\ exPhase \in {"accepting", "quiescing", "engine", "server", "stopped"}
      /\ halted \in BOOLEAN
  BY <1>2 DEF Types, Bounds
<1> QED
  BY <1>3, <1>4, <1>5 DEF TypeOK

LEMMA InvRequests == SessionInv => RequestsExactlyOnce
<1>1. SUFFICES ASSUME SessionInv, NEW c \in Clients, NEW m, m = matched[c],
                      NEW orders, orders = {i \in DOMAIN m : m[i].type = "NEW"}
               PROVE  /\ \A i \in orders : m[i].epoch = epoch[c]
                      /\ \A i, j \in orders : i < j => m[i].id < m[j].id
                      /\ peerSent[c] = 0 => \A i \in DOMAIN m : i \in orders /\ m[i].id = i
  BY DEF RequestsExactlyOnce
<1>2. Types /\ OrderInv(c) /\ WholeInv(c)
  BY <1>1, InvOf
<1>3. m \in Seq(Requests) /\ DOMAIN m = 1 .. Len(m)
  BY <1>1, <1>2 DEF Types
<1>4. /\ \A i \in 1 .. Len(m) : m[i].client = c
      /\ InSession(m, c) /\ Ascending(m, c)
  BY <1>1, <1>2 DEF OrderInv
<1>5. \A i \in orders : i \in 1 .. Len(m) /\ IsOrder(m[i], c)
  BY <1>1, <1>3, <1>4 DEF IsOrder
<1>6. \A i \in orders : m[i].epoch = epoch[c]
  BY <1>4, <1>5 DEF InSession
<1>7. \A i, j \in orders : i < j => m[i].id < m[j].id
  BY <1>4, <1>5 DEF Ascending
<1>8. peerSent[c] = 0 => \A i \in 1 .. Len(m) : m[i].type = "NEW" /\ m[i].id = i
  BY <1>1, <1>2 DEF WholeInv
<1> QED
  BY <1>1, <1>3, <1>6, <1>7, <1>8

LEMMA InvResponses == SessionInv => ResponsesExactlyOnce
<1> DEFINE Mine(c) == {i \in DOMAIN gw[c].got : gw[c].got[i].rid # 0}
           Upto(c, i) == {j \in Mine(c) : j <= i}
<1>0. SUFFICES ASSUME SessionInv
               PROVE  \A c \in Clients : \A i \in Mine(c) : /\ gw[c].got[i].rid = Cardinality(Upto(c, i))
                                                            /\ gw[c].got[i].epoch = gw[c].epoch
  BY DEF ResponsesExactlyOnce
<1>0a. SUFFICES ASSUME NEW c \in Clients, NEW i \in Mine(c)
                PROVE  gw[c].got[i].rid = Cardinality(Upto(c, i)) /\ gw[c].got[i].epoch = gw[c].epoch
  OBVIOUS
<1>1. PICK got, mine, upto : got = gw[c].got /\ mine = Mine(c) /\ upto = Upto(c, i)
  OBVIOUS
<1>2. Types /\ ReplyInv(c)
  BY <1>0, InvOf
<1>3. got \in Seq(Responses)
  <2>1. gw[c] \in Gateways
    BY <1>2, CurrentSocket
  <2> QED
    BY <1>1, <2>1 DEF Gateways
<1>4. PICK n \in Nat : n = Len(got) /\ DOMAIN got = 1 .. n
  BY <1>3
<1>5. i \in 1 .. n /\ got[i].rid # 0
  BY <1>1, <1>4
<1>6. got[i].rid = Count(got, Genuine, i) /\ got[i].epoch = gw[c].epoch
  BY <1>1, <1>2, <1>4, <1>5 DEF ReplyInv
<1>7. \A j \in 1 .. n : got[j] \in Genuine <=> got[j].rid # 0
  <2>1. \A j \in 1 .. n : got[j] \in Responses
    BY <1>3, <1>4
  <2> QED
    BY <2>1 DEF Genuine
<1>8. upto = {j \in 1 .. i : got[j] \in Genuine}
  <2>1. \A j : j \in 1 .. i <=> j \in 1 .. n /\ j <= i
    BY <1>5
  <2>2. \A j : j \in mine <=> j \in 1 .. n /\ got[j].rid # 0
    BY <1>1, <1>4
  <2>3. \A j : j \in upto <=> j \in mine /\ j <= i
    BY <1>1
  <2> QED
    BY <1>7, <2>1, <2>2, <2>3
<1>9. got[i].rid = Cardinality(upto)
  BY <1>6, <1>8 DEF Count
<1> QED
  BY <1>1, <1>6, <1>9

LEMMA AnsweredTotal ==
    ASSUME Types, NEW c \in Clients
    PROVE  Answered(c) = Total(gw[c].got, Settling) /\ Answered(c) \in Nat
<1>1. PICK got \in Seq(Responses) : got = gw[c].got
  <2>1. gw[c] \in Gateways
    BY CurrentSocket
  <2> QED
    BY <2>1 DEF Gateways
<1>2. PICK n \in Nat : n = Len(got) /\ DOMAIN got = 1 .. n
  BY <1>1
<1>3. \A i \in 1 .. n : got[i] \in Responses
  BY <1>1, <1>2
<1>4. {i \in DOMAIN got : got[i].type # "FILLED"} = {i \in 1 .. n : got[i] \in Settling}
  BY <1>2, <1>3 DEF Settling
<1>5. Answered(c) = Count(got, Settling, n)
  BY <1>1, <1>4 DEF Answered, Count
<1> QED
  BY <1>1, <1>2, <1>5, CountType DEF Total

LEMMA InvPending == SessionInv => PendingExact /\ CleanStop
<1>1. SUFFICES ASSUME SessionInv, NEW c \in Clients
               PROVE  /\ gw[c].pending = gw[c].next - 1 - Answered(c)
                      /\ gw[c].state = "stopped" /\ gw[c].healthy => Answered(c) = gw[c].submitted
  BY DEF PendingExact, CleanStop
<1>2. Types /\ GatewayInv(c)
  BY <1>1, InvOf
<1>3. PICK x \in Nat : x = Answered(c) /\ x = Total(gw[c].got, Settling)
  BY <1>2, AnsweredTotal
<1>4. PICK n \in Nat, s \in Nat, p \in Nat : n = gw[c].next /\ s = gw[c].submitted /\ p = gw[c].pending
  <2>1. gw[c] \in Gateways
    BY <1>2, CurrentSocket
  <2> QED
    BY <2>1 DEF Gateways
<1>5. p = n - 1 - x
  BY <1>2, <1>3, <1>4 DEF GatewayInv
<1>6. ASSUME gw[c].state = "stopped", gw[c].healthy PROVE x = s
  <2>1. gw[c].queue = <<>> /\ p = 0
    BY <1>2, <1>4, <1>6 DEF GatewayInv
  <2>2. n - 1 + Len(gw[c].queue) = s
    BY <1>2, <1>4 DEF GatewayInv
  <2>3. Len(gw[c].queue) = 0
    BY <2>1
  <2> QED
    BY <1>5, <2>1, <2>2, <2>3
<1> QED
  BY <1>3, <1>4, <1>5, <1>6

\* Only a gateway that receives changes both itself and what is on its way down.
LEMMA OnlyReceives ==
    ASSUME [Next]_vars, gw' # gw, down' # down
    PROVE  \E c \in Clients : GatewayRecv(c)
<1>1. ASSUME NEW c \in Clients,
             Submit(c) \/ GatewaySend(c) \/ GatewayStop(c) \/ GatewayDone(c) \/ GatewayLost(c)
               \/ ClientTake(c) \/ Crash(c) \/ PeerSend(c)
      PROVE  down' = down
  BY <1>1 DEF Submit, GatewaySend, GatewayStop, GatewayDone, GatewayLost, ClientTake, Crash, PeerSend,
              wireVars
<1>2. ASSUME NEW c \in Clients, PeerRecv(c) PROVE gw' = gw
  BY <1>2 DEF PeerRecv
<1>3. ASSUME NEW s \in Sockets,
             \/ ServerRead(s) \/ ServerNoticeClose(s) \/ ServerAccept(s) \/ ServerReject(s) \/ ServerBind(s)
      PROVE  gw' = gw
  BY <1>3 DEF ServerRead, ServerNoticeClose, ServerAccept, ServerReject, ServerBind
<1>4. SequenceAndPublish \/ ServerRespond \/ EngineProcess => gw' = gw
  BY DEF SequenceAndPublish, ServerRespond, EngineProcess
<1>5. Exchange => gw' = gw
  BY DEF Exchange, ExchangeQuiesce, ExchangeQuiesced, ExchangeEngineStopped, ExchangeStopped,
         ExchangeDeadline
<1>6. UNCHANGED vars => gw' = gw
  BY DEF vars
<1> QED
  BY <1>1, <1>2, <1>3, <1>4, <1>5, <1>6 DEF Next, Gateway, Server

LEMMA StepSurvives ==
    ASSUME SessionInv, [Next]_vars, NEW c \in Clients, gw[c].healthy, ~gw'[c].healthy,
           down'[Current(c)] # down[Current(c)]
    PROVE  gw[c].epoch > 1 \/ (owner[c] = Peer /\ ~unknown[c])
<1>1. Types /\ Bounds /\ GatewayInv(c) /\ NumberInv(c) /\ SettleInv(c) /\ SteadyInv(c)
  BY InvOf
<1>2. PICK h \in Clients : GatewayRecv(h)
  BY OnlyReceives
<1>3. h = c
  <2>1. gw \in [Clients -> Gateways]
    BY <1>1 DEF Types
  <2>2. h # c => gw'[c] = gw[c]
    BY <1>2, <2>1 DEF GatewayRecv
  <2> QED
    BY <2>2
<1>4. PICK f : f = Head(down[Current(c)])
  OBVIOUS
<1>5. down[Current(c)] # <<>> /\ gw[c].state # "stopped" /\ f.resp.type \in Fatal
  <2>1. PICK g \in Gateways : /\ gw' = [gw EXCEPT ![c] = g]
                              /\ g.healthy = (gw[c].healthy /\ f.resp.type \notin Fatal)
    BY <1>1, <1>2, <1>3, <1>4, RecvEffect
  <2>2. gw'[c] = g
    BY <1>1, <2>1 DEF Types
  <2>3. down[Current(c)] # <<>> /\ gw[c].state # "stopped"
    BY <1>2, <1>3 DEF GatewayRecv
  <2> QED
    BY <2>1, <2>2, <2>3
<1>6. f.resp.type \notin {"ANSWER", "FILLED"}
  BY <1>5 DEF Fatal
<1>7. ~(gw[c].epoch = 1 /\ Steady(c))
  <2>1. SUFFICES ASSUME gw[c].epoch = 1, Steady(c) PROVE FALSE
    OBVIOUS
  <2>2. PICK q \in Seq(DownFrames) : q = down[Current(c)] /\ q = down[<<c, 1>>]
    <3>1. Current(c) \in Sockets /\ Current(c) = <<c, 1>>
      BY <1>1, <2>1, CurrentSocket DEF Current
    <3> QED
      BY <1>1, <3>1, BufferLengths
  <2>3. 1 \in 1 .. Len(q) /\ f = q[1]
    <3>1. q # <<>> /\ Len(q) \in Nat /\ Len(q) # 0
      BY <1>5, <2>2
    <3> QED
      BY <1>4, <2>2, <3>1
  <2>4. \A i \in 1 .. Len(q) : q[i].resp.type \in {"ANSWER", "FILLED"}
    BY <1>1, <2>1, <2>2 DEF SteadyInv
  <2> QED
    BY <1>6, <2>3, <2>4
<1>8. gw[c].epoch \in 1 .. MaxEpoch /\ MaxEpoch \in Nat
  BY <1>1, CurrentSocket, SocketFacts
<1>9. gw[c].epoch # 1 => gw[c].epoch > 1
  BY <1>8
<1> QED
  BY <1>5, <1>7, <1>9 DEF Steady

LEMMA InvShutdown == SessionInv => ShutdownAnswers
<1>1. SUFFICES ASSUME SessionInv, exPhase = "stopped", NEW c \in Clients
               PROVE  Len(matched[c]) = accepted[c]
  BY DEF ShutdownAnswers
<1>2. Types /\ AcceptInv
  BY <1>1 DEF SessionInv
<1>3. pending = <<>> /\ requestQ = <<>>
  BY <1>1, <1>2 DEF AcceptInv
<1>4. Total(requestQ, RequestsOf(c)) = 0 /\ Total(pending, RequestsOf(c)) = 0
  BY <1>3, TotalEmpty
<1>5. Len(matched[c]) \in Nat /\ Len(matched[c]) + 0 + 0 = accepted[c]
  BY <1>2, <1>4 DEF AcceptInv, Types
<1> QED
  BY <1>5

\* Every variable has its type and no queue or buffer runs over.
THEOREM SessionTypeCorrect == Spec => []TypeOK
BY SessionInductive, InvTypeOK, PTL

\* The matching engine takes each client's orders exactly once, in the order
\* submitted and of one session: FIFOSequencer's stable sort, its partial
\* publication, frames that wait in OrderServer's buffer, a reconnect, and a second
\* connection in the client's name (Reason() in recvCallback) lose, repeat and
\* exchange none, as long as the times of arrival do not step back.
THEOREM RequestsOnceAndInOrder == Spec => []RequestsExactlyOnce
BY SessionInductive, InvRequests, PTL

\* A gateway hands the trading engine only responses to its own session, each
\* once and none skipped (cid_next_outgoing_seq_num_ against next_exp_seq_num_).
THEOREM ResponsesOnceAndInOrder == Spec => []ResponsesExactlyOnce
BY SessionInductive, InvResponses, PTL

\* pending_requests_ of OrderGateway counts exactly the requests sent and not yet
\* answered: it is never clamped at zero, and fills do not settle.
THEOREM PendingIsExact == Spec => []PendingExact
BY SessionInductive, InvPending, PTL

\* A gateway that stops with a healthy session has an answer to every request.
THEOREM StopsClean == Spec => []CleanStop
BY SessionInductive, InvPending, PTL

\* A gateway's first session is never ended by a response, whatever frames a
\* second connection sends in the client's name and whenever it does, unless it has
\* bound the client's id while it was free (recvCallback in order_server.h).
THEOREM SessionsSurvive == Spec => SessionSurvives
<1> DEFINE A == \A c \in Clients :
                   gw[c].healthy /\ ~gw'[c].healthy /\ down'[Current(c)] # down[Current(c)] =>
                      gw[c].epoch > 1 \/ (owner[c] = Peer /\ ~unknown[c])
<1>1. SessionInv /\ [Next]_vars => [A]_vars
  BY StepSurvives
<1> QED
  BY <1>1, SessionInductive, PTL DEF Spec, SessionSurvives

\* quiesce(), the engine's and then the server's stop() leave no accepted request
\* that the matching engine has not taken.
THEOREM ShutdownIsComplete == Spec => []ShutdownAnswers
BY SessionInductive, InvShutdown, PTL
===============================================================================
