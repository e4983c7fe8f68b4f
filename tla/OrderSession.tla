----------------------------- MODULE OrderSession -----------------------------
(***************************************************************************)
(* The order session between trading clients and the exchange: the         *)
(* OrderGateway of each client, the two directions of its TCP connection,  *)
(* OrderServer with its per-client sequence numbers and session epochs,    *)
(* FIFOSequencer, the queues to and from the matching engine, a client     *)
(* that crashes and reconnects, a second connection in a client's name,    *)
(* and the shutdown of both ends.                                          *)
(*                                                                         *)
(* The unit is a whole frame.  A request is the number the client gave it; *)
(* the matching engine answers each with one acknowledgement and may fill  *)
(* orders.  A gateway's requests have passed Wire::validate; those of the  *)
(* second connection (the peer), which may come at any time, are           *)
(* arbitrary: orders before or after the client's own, queries, ill-formed *)
(* and undecodable frames.  A connection always speaks for the same        *)
(* client.                                                                 *)
(***************************************************************************)
EXTENDS Integers, Sequences, FiniteSets, SequencesExt

CONSTANTS Clients,
          Crashing,          \* clients that may crash and reconnect
          MaxEpoch,          \* bound on the sessions of a client
          MaxRequests,       \* bound on the requests of a first session
          LaterRequests,     \* bound on the requests of a later one
          ClientCapacity,    \* capacity of the client's two queues
          WireCapacity,      \* frames that fit the buffers of one direction
          SequencerCapacity, \* ME_MAX_PENDING_REQUESTS
          RequestCapacity,   \* capacity of the matching engine's input queue
          ResponseCapacity,  \* capacity of its output queue
          Fills,             \* does the matching engine report fills
          MaxTime,           \* bound on the receive times
          MayStop,           \* which ends may shut down: "client", "exchange"
          PeerFrames,        \* the frames a second connection may send
          MaxPeerFrames      \* bound on their number

ASSUME OrderSessionAssumption ==
    /\ Crashing \subseteq Clients
    /\ \A n \in {MaxEpoch, MaxRequests, ClientCapacity, WireCapacity, SequencerCapacity,
                 RequestCapacity, ResponseCapacity} : n \in Nat \ {0}
    /\ LaterRequests \in 0 .. MaxRequests
    /\ Fills \in BOOLEAN
    /\ PeerFrames \subseteq [type : {"NEW", "QUERY", "BAD", "BADQUERY", "GARBLED"},
                             epoch : 0 .. MaxEpoch, seq : 1 .. MaxRequests]
    /\ MaxPeerFrames \in Nat /\ MaxTime \in Nat

VARIABLES gw,        \* the gateway of each client, with its queues
          up, down,  \* frames in the two directions of each connection
          clock,     \* time of the latest arrival at the exchange
          inbound,   \* frames in the server's receive buffer of each connection
          rx,        \* last_receive_time_ of each connection
          open,      \* is the connection healthy() for the server
          owner,     \* cid_tcp_socket_, 0 for none
          epoch,     \* cid_session_epoch_
          unknown,   \* cid_session_unknown_
          accepted,  \* accepted_frames_, by client
          expected,  \* cid_next_exp_seq_num_
          outSeq,    \* cid_next_outgoing_seq_num_
          anonSeq,   \* anonymous_sequences_
          pending,   \* pending_client_requests_ of the sequencer
          requestQ, responseQ, \* the queues to and from the matching engine
          exPhase,   \* progress of the exchange's shutdown
          halted,    \* an ASSERT has ended the exchange
          matched,   \* the requests the matching engine has taken, by client
          issued,    \* responses it has issued, by client
          peerSent   \* frames the second connection has sent

wireVars == <<up, down, clock>>
sessionVars == <<owner, epoch, unknown, accepted, expected>>
serverVars == <<inbound, rx, open, sessionVars, outSeq, anonSeq>>
engineVars == <<matched, issued, peerSent>>
vars == <<gw, wireVars, serverVars, pending, requestQ, responseQ, exPhase, halted, engineVars>>

\* The connection of a client's session e is <<c, e>>, the second one <<c, Peer>>.
Peer == MaxEpoch + 1
Sockets == Clients \X (1 .. Peer)
Current(c) == <<c, gw[c].epoch>>
Closed(s) == s[2] < gw[s[1]].epoch \/ (s = Current(s[1]) /\ gw[s[1]].state = "stopped")
Session(e) == [epoch |-> e, queue |-> <<>>, submitted |-> 0, next |-> 1, pending |-> 0,
               expected |-> 1, healthy |-> TRUE, state |-> "run", unread |-> 0, got |-> <<>>]
-------------------------------------------------------------------------------
(* OrderGateway                                                              *)

\* The trading engine queues a request.
Submit(c) ==
    /\ gw[c].state = "run" /\ gw[c].healthy
    /\ gw[c].submitted < IF gw[c].epoch = 1 THEN MaxRequests ELSE LaterRequests
    /\ Len(gw[c].queue) < ClientCapacity
    /\ gw' = [gw EXCEPT ![c].queue = Append(@, gw[c].submitted + 1), ![c].submitted = @ + 1]
    /\ UNCHANGED <<wireVars, serverVars, pending, requestQ, responseQ, exPhase, halted, engineVars>>

\* run(): send the next queued request, unless the send buffer is full.
GatewaySend(c) ==
    LET s == Current(c) IN
    /\ gw[c].state # "stopped" /\ gw[c].healthy
    /\ gw[c].queue # <<>> /\ Len(up[s]) < WireCapacity
    /\ clock' \in clock .. MaxTime
    /\ up' = [up EXCEPT ![s] = Append(@, [type |-> "NEW", epoch |-> gw[c].epoch,
                                          seq |-> gw[c].next, id |-> Head(gw[c].queue),
                                          time |-> clock'])]
    /\ gw' = [gw EXCEPT ![c].queue = Tail(@), ![c].next = @ + 1, ![c].pending = @ + 1]
    /\ UNCHANGED <<down, serverVars, pending, requestQ, responseQ, exPhase, halted, engineVars>>

\* The reasons that close the gate for further orders.
Fatal == {"IDENTITY", "SEQUENCE", "SESSION", "VERSION"}

CountEveryResponse(g, r) ==
    [g EXCEPT !.expected = @ + 1, !.unread = @ + 1, !.got = Append(@, r),
              !.pending = IF @ > 0 THEN @ - 1 ELSE @, !.healthy = @ /\ r.type \notin Fatal]

\* A response in sequence is handed to the trading engine; only an answer, not
\* a fill, settles a pending request.
Deliver(g, r) ==
    [g EXCEPT !.expected = @ + 1, !.unread = @ + 1, !.got = Append(@, r),
              !.pending = IF r.type # "FILLED" /\ @ > 0 THEN @ - 1 ELSE @,
              !.healthy = @ /\ r.type \notin Fatal]

\* A foreign or missing frame breaks the connection, an old one is skipped.
Receive(g, f) ==
    IF f.epoch # g.epoch \/ f.seq > g.expected
    THEN [g EXCEPT !.healthy = FALSE, !.state = "stopped"]
    ELSE IF f.seq < g.expected THEN g
    ELSE Deliver(g, f.resp)

\* recvCallback(): one response frame, unless the trading engine's queue is full.
\* A fatal reason does not keep it from the frames behind.
GatewayRecv(c) ==
    LET s == Current(c)
        f == Head(down[s])
    IN  /\ gw[c].state # "stopped"
        /\ down[s] # <<>>
        /\ f.seq = gw[c].expected => gw[c].unread < ClientCapacity
        /\ gw' = [gw EXCEPT ![c] = Receive(gw[c], f)]
        /\ down' = [down EXCEPT ![s] = Tail(@)]
    /\ UNCHANGED <<up, clock, serverVars, pending, requestQ, responseQ, exPhase, halted,
                   engineVars>>

\* The trading engine takes a response from its queue.
ClientTake(c) ==
    /\ gw[c].unread > 0
    /\ gw' = [gw EXCEPT ![c].unread = @ - 1]
    /\ UNCHANGED <<wireVars, serverVars, pending, requestQ, responseQ, exPhase, halted, engineVars>>

GatewayStop(c) ==
    /\ "client" \in MayStop /\ gw[c].state = "run"
    /\ gw' = [gw EXCEPT ![c].state = "stopping"]
    /\ UNCHANGED <<wireVars, serverVars, pending, requestQ, responseQ, exPhase, halted, engineVars>>

DoneWhenSent(c) ==
    /\ gw[c].state = "stopping" /\ gw[c].queue = <<>> /\ gw[c].healthy
    /\ gw' = [gw EXCEPT ![c].state = "stopped"]
    /\ UNCHANGED <<wireVars, serverVars, pending, requestQ, responseQ, exPhase, halted, engineVars>>

\* run() ends: everything sent and answered, or the deadline has passed, which
\* is reported as an unhealthy session.
GatewayDone(c) ==
    /\ gw[c].state = "stopping"
    /\ \/ /\ gw[c].queue = <<>> /\ gw[c].pending = 0
          /\ gw[c].healthy
          /\ gw' = [gw EXCEPT ![c].state = "stopped"]
       \/ gw' = [gw EXCEPT ![c].state = "stopped", ![c].healthy = FALSE]
    /\ UNCHANGED <<wireVars, serverVars, pending, requestQ, responseQ, exPhase, halted, engineVars>>

\* run() finds the session unhealthy or the connection closed by the exchange.
GatewayLost(c) ==
    /\ gw[c].state # "stopped"
    /\ ~gw[c].healthy \/ halted \/ exPhase = "stopped"
    /\ gw' = [gw EXCEPT ![c].state = "stopped", ![c].healthy = FALSE]
    /\ UNCHANGED <<wireVars, serverVars, pending, requestQ, responseQ, exPhase, halted, engineVars>>

\* The client process dies; the next one connects with a new epoch.
Crash(c) ==
    /\ c \in Crashing /\ gw[c].epoch < MaxEpoch
    /\ gw' = [gw EXCEPT ![c] = Session(gw[c].epoch + 1)]
    /\ UNCHANGED <<wireVars, serverVars, pending, requestQ, responseQ, exPhase, halted, engineVars>>
-------------------------------------------------------------------------------
(* A second connection in the client's name: a stranger, or a process that   *)
(* retries what the session has already sent or asks for its state.          *)

PeerSend(c) ==
    LET s == <<c, Peer>> IN
    /\ peerSent[c] < MaxPeerFrames /\ Len(up[s]) < WireCapacity
    /\ clock' \in clock .. MaxTime
    /\ \E f \in PeerFrames :
          up' = [up EXCEPT ![s] = Append(@, [type |-> f.type, epoch |-> f.epoch, seq |-> f.seq,
                                             id |-> f.seq, time |-> clock'])]
    /\ peerSent' = [peerSent EXCEPT ![c] = @ + 1]
    /\ UNCHANGED <<gw, down, serverVars, pending, requestQ, responseQ, exPhase, halted, matched,
                   issued>>

PeerRecv(c) ==
    LET s == <<c, Peer>> IN
    /\ down[s] # <<>>
    /\ down' = [down EXCEPT ![s] = Tail(@)]
    /\ UNCHANGED <<gw, up, clock, serverVars, pending, requestQ, responseQ, exPhase, halted,
                   engineVars>>
-------------------------------------------------------------------------------
(* OrderServer                                                               *)

Running == ~halted /\ exPhase # "stopped"

\* TCPSocket::sendAndRecv reads what has arrived and fits the receive buffer;
\* one time stamps all of it.
ServerRead(s) ==
    LET n == Min({Len(up[s]), WireCapacity - Len(inbound[s])})
    IN  /\ Running /\ open[s] /\ n > 0
        /\ inbound' = [inbound EXCEPT ![s] = @ \o SubSeq(up[s], 1, n)]
        /\ rx' = [rx EXCEPT ![s] = up[s][n].time]
        /\ up' = [up EXCEPT ![s] = SubSeq(@, n + 1, Len(@))]
    /\ UNCHANGED <<gw, down, clock, open, sessionVars, outSeq, anonSeq, pending, requestQ,
                   responseQ, exPhase, halted, engineVars>>

\* The peer is gone.
ServerNoticeClose(s) ==
    /\ Running /\ open[s] /\ Closed(s)
    /\ open' = [open EXCEPT ![s] = FALSE]
    /\ UNCHANGED <<gw, wireVars, inbound, rx, sessionVars, outSeq, anonSeq, pending,
                   requestQ, responseQ, exPhase, halted, engineVars>>

\* Wire::validate refuses the content of some frames, queries among them.
Illformed == {"BAD", "BADQUERY"}
Queries == {"QUERY", "BADQUERY"}

TakesOverTheLiving(s, f) ==
    LET c == s[1] IN
    owner[c] \notin {0, s[2]} /\ f.type \in Queries /\ f.epoch = epoch[c]

\* A QUERY on a new connection takes a session over from a dead one, before its
\* content is looked at.
TakesOver(s, f) ==
    LET c == s[1] IN
    /\ owner[c] \notin {0, s[2]} /\ ~open[<<c, owner[c]>>]
    /\ f.type \in Queries /\ f.epoch = epoch[c]

ReasonOfKnownSession(s, f) ==
    LET c == s[1]
        content == IF f.type \in Illformed THEN "INVALID" ELSE "NONE"
    IN
    IF f.type = "GARBLED" THEN "VERSION"
    ELSE IF TakesOver(s, f) THEN content
    ELSE IF owner[c] \notin {0, s[2]} THEN "IDENTITY"
    ELSE IF f.epoch = 0 \/ (owner[c] # 0 /\ f.epoch # epoch[c]) THEN "SESSION"
    ELSE IF f.seq # expected[c] THEN "SEQUENCE"
    ELSE content

\* The reason recvCallback finds to refuse a frame.  A session that has been
\* taken over is answered queries only.
Reason(s, f) ==
    LET c == s[1]
        content == IF f.type \in Illformed THEN "INVALID" ELSE "NONE"
    IN
    IF f.type = "GARBLED" THEN "VERSION"
    ELSE IF TakesOver(s, f) THEN content
    ELSE IF owner[c] \notin {0, s[2]} THEN "IDENTITY"
    ELSE IF f.epoch = 0 \/ (owner[c] # 0 /\ f.epoch # epoch[c]) THEN "SESSION"
    ELSE IF f.seq # expected[c] THEN "SEQUENCE"
    ELSE IF unknown[c] /\ f.type \notin Queries THEN "SESSION"
    ELSE content

\* The number of the next response on s, if f binds s to the client.
Renumber(s, f) ==
    CASE owner[s[1]] = 0 -> anonSeq[s]
      [] TakesOver(s, f) -> 1
      [] OTHER -> outSeq[s[1]]

\* The frame f binds its connection to the client's session.
Bind(s, f) ==
    LET c == s[1] IN
    /\ owner' = [owner EXCEPT ![c] = s[2]]
    /\ epoch' = [epoch EXCEPT ![c] = f.epoch]
    /\ unknown' = [unknown EXCEPT ![c] = @ \/ TakesOver(s, f)]

AlwaysRoom == TRUE

CanAccept == Len(pending) < SequencerCapacity

Parsing(s) == Running /\ exPhase = "accepting" /\ open[s] /\ inbound[s] # <<>>

\* recvCallback(): a good frame binds the client to its connection and is
\* stored, if the sequencer has room.
ServerAccept(s) ==
    LET c == s[1]
        f == Head(inbound[s])
    IN  /\ Parsing(s)
        /\ Reason(s, f) = "NONE"
        /\ CanAccept
        /\ pending' = Append(pending, [client |-> c, type |-> f.type, epoch |-> f.epoch,
                                       id |-> f.id, time |-> rx[s]])
        /\ Bind(s, f)
        /\ outSeq' = [outSeq EXCEPT ![c] = Renumber(s, f)]
        /\ expected' = [expected EXCEPT ![c] = f.seq + 1]
        /\ accepted' = [accepted EXCEPT ![c] = @ + 1]
        /\ inbound' = [inbound EXCEPT ![s] = Tail(@)]
    /\ UNCHANGED <<gw, wireVars, rx, open, anonSeq, requestQ, responseQ, exPhase, halted,
                   engineVars>>

\* reject(): a refused frame is answered on its own connection, numbered with
\* the owner's sequence or, for a stranger, the connection's own.  A frame that
\* is refused for its content only binds the client and uses up its number.
ServerReject(s) ==
    LET c == s[1]
        f == Head(inbound[s])
        counts == Reason(s, f) = "INVALID"
        mine == owner[c] = s[2] \/ counts
        seq == IF mine THEN Renumber(s, f) ELSE anonSeq[s]
        r == [type |-> Reason(s, f), epoch |-> f.epoch, id |-> f.id, rid |-> 0]
    IN  /\ Parsing(s)
        /\ Reason(s, f) # "NONE"
        /\ Len(down[s]) < WireCapacity
        /\ down' = [down EXCEPT ![s] = Append(@, [seq |-> seq, epoch |-> f.epoch, resp |-> r])]
        /\ outSeq' = [outSeq EXCEPT ![c] = IF mine THEN seq + 1 ELSE @]
        /\ anonSeq' = [anonSeq EXCEPT ![s] = IF mine THEN @ ELSE @ + 1]
        /\ IF counts THEN Bind(s, f) /\ expected' = [expected EXCEPT ![c] = f.seq + 1]
                     ELSE UNCHANGED <<owner, epoch, unknown, expected>>
        /\ inbound' = [inbound EXCEPT ![s] = Tail(@)]
    /\ UNCHANGED <<gw, up, clock, rx, open, accepted, pending, requestQ, responseQ, exPhase,
                   halted, engineVars>>

\* Even when the frame has to wait, for the sequencer or for room to answer, it
\* has bound its connection.
ServerBind(s) ==
    LET c == s[1]
        f == Head(inbound[s])
    IN  /\ Parsing(s)
        /\ \/ TakesOver(s, f) /\ Reason(s, f) = "NONE" /\ ~CanAccept
           \/ /\ TakesOver(s, f) \/ owner[c] = 0
              /\ Reason(s, f) = "INVALID" /\ Len(down[s]) = WireCapacity
        /\ Bind(s, f)
        /\ outSeq' = [outSeq EXCEPT ![c] = Renumber(s, f)]
        /\ expected' = [expected EXCEPT ![c] = f.seq]
    /\ UNCHANGED <<gw, wireVars, inbound, rx, open, accepted, anonSeq, pending, requestQ,
                   responseQ, exPhase, halted, engineVars>>

SortUnstable(q) == SortSeq(q, LAMBDA a, b : a.time < b.time \/ (a.time = b.time /\ a.id > b.id))

\* std::stable_sort by receive time.
StableSort(q) ==
    LET before(i) == {j \in DOMAIN q : q[j].time < q[i].time \/ (q[j].time = q[i].time /\ j < i)}
        nth(k) == CHOOSE i \in DOMAIN q : Cardinality(before(i)) = k - 1
    IN  [k \in DOMAIN q |-> q[nth(k)]]

PublishAllOrNothing ==
    LET sorted == StableSort(pending)
    IN  /\ Running /\ pending # <<>>
        /\ Len(pending) <= RequestCapacity - Len(requestQ)
        /\ requestQ' = requestQ \o sorted
        /\ pending' = <<>>
    /\ UNCHANGED <<gw, wireVars, serverVars, responseQ, exPhase, halted, engineVars>>

\* sequenceAndPublish(): as many as the queue takes; the rest is kept.
SequenceAndPublish ==
    LET sorted == StableSort(pending)
        room == RequestCapacity - Len(requestQ)
        n == Min({Len(pending), room})
    IN  /\ Running /\ pending # <<>>
        /\ requestQ' = requestQ \o SubSeq(sorted, 1, n)
        /\ pending' = SubSeq(sorted, n + 1, Len(sorted))
    /\ UNCHANGED <<gw, wireVars, serverVars, responseQ, exPhase, halted, engineVars>>

RespondDropsWhenFull ==
    LET r == Head(responseQ)
        c == r.client
        s == <<c, owner[c]>>
        room == Len(down[s]) < WireCapacity
    IN  /\ Running /\ responseQ # <<>> /\ open[s]
        /\ down' = IF room THEN [down EXCEPT ![s] = Append(@, [seq |-> outSeq[c],
                                                   epoch |-> epoch[c], resp |-> r.resp])]
                   ELSE down
        /\ outSeq' = [outSeq EXCEPT ![c] = IF room THEN @ + 1 ELSE @]
        /\ responseQ' = Tail(responseQ)
    /\ UNCHANGED <<gw, up, clock, inbound, rx, open, sessionVars, anonSeq, pending, requestQ,
                   exPhase, halted, engineVars>>

\* run(): the response at the head goes to its client's connection; a full
\* buffer blocks it and those behind it, a dead connection ends the exchange.
ServerRespond ==
    LET r == Head(responseQ)
        c == r.client
        s == <<c, owner[c]>>
    IN  /\ Running /\ responseQ # <<>>
        /\ \/ /\ open[s] /\ Len(down[s]) < WireCapacity
              /\ down' = [down EXCEPT ![s] = Append(@, [seq |-> outSeq[c], epoch |-> epoch[c],
                                                        resp |-> r.resp])]
              /\ outSeq' = [outSeq EXCEPT ![c] = @ + 1]
              /\ responseQ' = Tail(responseQ)
              /\ UNCHANGED halted
           \/ /\ ~open[s]
              /\ halted' = TRUE
              /\ UNCHANGED <<down, outSeq, responseQ>>
    /\ UNCHANGED <<gw, up, clock, inbound, rx, open, sessionVars, anonSeq, pending, requestQ,
                   exPhase, engineVars>>
-------------------------------------------------------------------------------
(* The matching engine takes a request, answers it, and may fill orders.     *)

\* The responses to a request: the answer and, for each side of a trade, the
\* taker's fill before the maker's.
Answers(req, fills) ==
    LET to == <<req.client>> \o fills
        nth(i) == Cardinality({j \in 1 .. i : to[j] = to[i]})
    IN  [i \in DOMAIN to |->
           [client |-> to[i],
            resp |-> [type |-> IF i = 1 THEN "ANSWER" ELSE "FILLED",
                      epoch |-> IF i = 1 THEN req.epoch ELSE epoch[to[i]],
                      id |-> IF i = 1 THEN req.id ELSE 0,
                      rid |-> issued[to[i]] + nth(i)]]]

\* processClientRequest(): at most one trade, with a client that has been heard;
\* a full response queue ends the exchange.
EngineProcess ==
    /\ Running /\ requestQ # <<>>
    /\ LET req == Head(requestQ)
           ordered(c) == \E i \in DOMAIN matched[c] : matched[c][i].type = "NEW"
           makers == IF Fills /\ req.type = "NEW" THEN {c \in Clients : ordered(c)} ELSE {}
       IN  \E fills \in {<<>>} \cup {<<req.client, c>> : c \in makers} :
              /\ requestQ' = Tail(requestQ)
              /\ matched' = [matched EXCEPT ![req.client] = Append(@, req)]
              /\ LET rs == Answers(req, fills) IN
                 \/ /\ Len(responseQ) + Len(rs) <= ResponseCapacity
                    /\ responseQ' = responseQ \o rs
                    /\ issued' = [c \in Clients |->
                                     issued[c] + Cardinality({i \in DOMAIN rs : rs[i].client = c})]
                    /\ UNCHANGED halted
                 \/ /\ Len(responseQ) + Len(rs) > ResponseCapacity
                    /\ halted' = TRUE
                    /\ UNCHANGED <<responseQ, issued>>
    /\ UNCHANGED <<gw, wireVars, serverVars, pending, exPhase, peerSent>>
-------------------------------------------------------------------------------
(* exchange_main: quiesce the server, stop the engine, stop the server.      *)

ExchangeQuiesce ==
    /\ "exchange" \in MayStop /\ Running /\ exPhase = "accepting"
    /\ exPhase' = "quiescing"
    /\ UNCHANGED <<gw, wireVars, serverVars, pending, requestQ, responseQ, halted, engineVars>>

QuiescedWithoutLooking ==
    /\ Running /\ exPhase = "quiescing"
    /\ exPhase' = "engine"
    /\ UNCHANGED <<gw, wireVars, serverVars, pending, requestQ, responseQ, halted, engineVars>>

\* The worker reports quiesced_ and the main thread goes on.
ExchangeQuiesced ==
    /\ Running /\ exPhase = "quiescing" /\ pending = <<>>
    /\ exPhase' = "engine"
    /\ UNCHANGED <<gw, wireVars, serverVars, pending, requestQ, responseQ, halted, engineVars>>

\* The engine thread ends when its queue is empty; then the server may end when
\* there is nothing left to send.
ExchangeEngineStopped ==
    /\ Running /\ exPhase = "engine" /\ requestQ = <<>>
    /\ exPhase' = "server"
    /\ UNCHANGED <<gw, wireVars, serverVars, pending, requestQ, responseQ, halted, engineVars>>

ExchangeStopped ==
    /\ Running /\ exPhase = "server" /\ responseQ = <<>>
    /\ exPhase' = "stopped"
    /\ UNCHANGED <<gw, wireVars, serverVars, pending, requestQ, responseQ, halted, engineVars>>

\* The deadline of quiesce() or of stop() passes with something still to do: the
\* process ends instead of dropping it.
ExchangeDeadline ==
    /\ Running
    /\ \/ exPhase = "quiescing" /\ pending # <<>>
       \/ exPhase = "server" /\ (responseQ # <<>> \/ \E s \in Sockets : down[s] # <<>>)
    /\ halted' = TRUE
    /\ UNCHANGED <<gw, wireVars, serverVars, pending, requestQ, responseQ, exPhase, engineVars>>
-------------------------------------------------------------------------------
Init ==
    /\ gw = [c \in Clients |-> Session(1)]
    /\ up = [s \in Sockets |-> <<>>] /\ down = [s \in Sockets |-> <<>>] /\ clock = 0
    /\ inbound = [s \in Sockets |-> <<>>] /\ rx = [s \in Sockets |-> 0]
    /\ open = [s \in Sockets |-> TRUE]
    /\ owner = [c \in Clients |-> 0] /\ epoch = [c \in Clients |-> 0]
    /\ unknown = [c \in Clients |-> FALSE] /\ accepted = [c \in Clients |-> 0]
    /\ expected = [c \in Clients |-> 1] /\ outSeq = [c \in Clients |-> 1]
    /\ anonSeq = [s \in Sockets |-> 1]
    /\ pending = <<>> /\ requestQ = <<>> /\ responseQ = <<>>
    /\ exPhase = "accepting" /\ halted = FALSE
    /\ matched = [c \in Clients |-> <<>>] /\ issued = [c \in Clients |-> 0]
    /\ peerSent = [c \in Clients |-> 0]

Gateway(c) == \/ GatewaySend(c) \/ GatewayRecv(c) \/ GatewayStop(c) \/ GatewayDone(c)
              \/ GatewayLost(c)
Server == \/ \E s \in Sockets : \/ ServerRead(s) \/ ServerNoticeClose(s)
                                \/ ServerAccept(s) \/ ServerReject(s) \/ ServerBind(s)
          \/ SequenceAndPublish \/ ServerRespond
Exchange == \/ ExchangeQuiesce \/ ExchangeQuiesced \/ ExchangeEngineStopped \/ ExchangeStopped
            \/ ExchangeDeadline

Next == \/ \E c \in Clients : \/ Submit(c) \/ Gateway(c) \/ ClientTake(c) \/ Crash(c)
                             \/ PeerSend(c) \/ PeerRecv(c)
        \/ Server \/ EngineProcess \/ Exchange

Spec == Init /\ [][Next]_vars

\* Every thread keeps polling; a client need not submit, stop or crash.
FairSpec ==
    /\ Spec
    /\ \A c \in Clients : WF_vars(GatewaySend(c)) /\ WF_vars(GatewayRecv(c))
                            /\ WF_vars(ClientTake(c))
    /\ \A s \in Sockets : WF_vars(ServerRead(s)) /\ WF_vars(ServerAccept(s))
    /\ WF_vars(SequenceAndPublish) /\ WF_vars(ServerRespond) /\ WF_vars(EngineProcess)
-------------------------------------------------------------------------------
Answered(c) == Cardinality({i \in DOMAIN gw[c].got : gw[c].got[i].type # "FILLED"})

\* Every variable has its type.
TypeOK ==
    /\ \A c \in Clients :
          /\ gw[c].epoch \in 1 .. MaxEpoch /\ gw[c].submitted \in 0 .. MaxRequests
          /\ gw[c].pending \in Nat /\ gw[c].unread \in 0 .. ClientCapacity
          /\ gw[c].healthy \in BOOLEAN /\ gw[c].state \in {"run", "stopping", "stopped"}
          /\ owner[c] \in 0 .. Peer /\ epoch[c] \in 0 .. MaxEpoch /\ unknown[c] \in BOOLEAN
          /\ expected[c] \in Nat \ {0} /\ outSeq[c] \in Nat \ {0}
    /\ \A s \in Sockets : \A buffer \in {up, down, inbound} : Len(buffer[s]) <= WireCapacity
    /\ Len(pending) <= SequencerCapacity
    /\ Len(requestQ) <= RequestCapacity /\ Len(responseQ) <= ResponseCapacity
    /\ exPhase \in {"accepting", "quiescing", "engine", "server", "stopped"}
    /\ halted \in BOOLEAN

\* The matching engine takes each client's orders exactly once, in the order
\* submitted and of one session only, through sorting, partial publication,
\* retained frames, a reconnect, and a peer that repeats them on another
\* connection or takes the session over, as long as the receive times that the
\* sequencer sorts by do not step back.
RequestsExactlyOnce ==
    \A c \in Clients :
        LET orders == {i \in DOMAIN matched[c] : matched[c][i].type = "NEW"}
        IN  /\ \A i \in orders : matched[c][i].epoch = epoch[c]
            /\ \A i, j \in orders : i < j => matched[c][i].id < matched[c][j].id
            /\ peerSent[c] = 0 => \A i \in DOMAIN matched[c] : i \in orders /\ matched[c][i].id = i

\* A session sees only responses to its own requests, none skipped or repeated.
ResponsesExactlyOnce ==
    \A c \in Clients :
        LET got == gw[c].got
            mine == {i \in DOMAIN got : got[i].rid # 0}
        IN  \A i \in mine : /\ got[i].rid = Cardinality({j \in mine : j <= i})
                           /\ got[i].epoch = gw[c].epoch

\* pending_requests_ counts exactly the requests sent and not yet answered:
\* fills in between never settle one.
PendingExact ==
    \A c \in Clients : gw[c].pending = gw[c].next - 1 - Answered(c)

\* A gateway that stops with a healthy session has an answer to every request.
CleanStop ==
    \A c \in Clients : gw[c].state = "stopped" /\ gw[c].healthy => Answered(c) = gw[c].submitted

\* No response ever ends a client's first session, neither by a fatal reason nor
\* by a number or an epoch out of place, whatever a second connection sends in
\* its name; unless that one has bound the client's id while it was free, after
\* which recvCallback() answers the client IDENTITY.
SessionSurvives ==
    [][\A c \in Clients :
          gw[c].healthy /\ ~gw'[c].healthy /\ down'[Current(c)] # down[Current(c)] =>
             gw[c].epoch > 1 \/ (owner[c] = Peer /\ ~unknown[c])]_vars

\* An exchange that stops in order has matched every request it accepted.  (That
\* the answers have left its queue is ExchangeStopped's condition.)
ShutdownAnswers ==
    exPhase = "stopped" => \A c \in Clients : Len(matched[c]) = accepted[c]

\* Where no second connection speaks, every request is answered, unless the
\* exchange stops fail-closed because its response queue is full.
EventuallyAnswered ==
    []<>(halted \/ \A c \in Clients : Answered(c) = gw[c].submitted)
===============================================================================
