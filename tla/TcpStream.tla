------------------------------ MODULE TcpStream ------------------------------
(***************************************************************************)
(* One TCP connection between a client's gateway and the order server, at  *)
(* the level of bytes: TCPSocket's fixed send and receive buffers, short   *)
(* writes and partial reads, the callbacks that cut frames out of the byte *)
(* stream, and back-pressure through every buffer on the way; and how      *)
(* TCPServer accepts it, among others, into its limited list.              *)
(*                                                                         *)
(* Each end is a thread that loops through sendAndRecv() (flush, retry of  *)
(* the buffered bytes, receive) and then its own sends, the server after   *)
(* poll(); a step is one system call with what the thread does before the  *)
(* next one, and the accept loop of poll() is one step.  The server        *)
(* answers each request with one response of the same number.  A loop may  *)
(* end after any call, which covers its budget of eight; a call that EINTR *)
(* interrupts is repeated and leaves no trace.  The network and the kernel *)
(* buffers are external.                                                   *)
(***************************************************************************)
EXTENDS Integers, Sequences, FiniteSetsExt, SequencesExt

CONSTANTS Capacity,       \* bytes of a TCPSocket's send and of its receive buffer
          KernelCapacity, \* bytes of one direction that the kernels hold
          FrameSize,      \* RequestSize, ResponseSize
          QueueCapacity,  \* frames the queue behind each callback takes
          MaxFrames,      \* bound on the requests
          MaxClients,     \* ME_MAX_NUM_CLIENTS: the connections the server keeps
          MaxOthers,      \* bound on the other connections
          Stale           \* content of a buffer cell never written

ASSUME TcpStreamAssumption ==
    /\ \A n \in {Capacity, KernelCapacity, FrameSize, QueueCapacity, MaxFrames, MaxClients} :
          n \in Nat \ {0}
    /\ MaxOthers \in Nat
    /\ FrameSize <= Capacity

VARIABLES backlog, \* connections the listener has not accepted yet
          edge,    \* the EPOLLET event of the listener, not yet reported
          taken,   \* receive_sockets_: the connections accepted so far, dead ones too
          others,  \* other connections made so far
          sock,    \* the TCPSocket of each end
          net,     \* bytes each end has written and the other not yet read
          pc,      \* where the thread of each end is in its loop
          queue,   \* frames handed on by the callback and not yet treated
          sent,    \* frames each end's send() has accepted
          got,     \* all frames each end's callback has handed on
          gone     \* the client process has ended, which closes its socket

serverVars == <<backlog, edge, taken, others>>
streamVars == <<sock, net, pc, queue, sent, got, gone>>
vars == <<serverVars, streamVars>>

Ends == {"client", "server"}
Other(x) == IF x = "client" THEN "server" ELSE "client"

\* The bytes of frame f, and of the frames f, f + 1, ..., g.
Frame(f) == [i \in 1 .. FrameSize |-> <<f, i>>]
Frames(f, g) == [i \in 1 .. (g - f + 1) * FrameSize |->
                   <<f + ((i - 1) \div FrameSize), 1 + ((i - 1) % FrameSize)>>]
-------------------------------------------------------------------------------
(* TCPServer.  This connection is "this", all others are "other".            *)

Connect(c) ==
    /\ backlog' = Append(backlog, c) /\ edge' = TRUE
    /\ UNCHANGED taken

ConnectThis ==
    /\ pc["client"] = "connect"
    /\ Connect("this")
    /\ pc' = [pc EXCEPT !["client"] = "flush"]
    /\ UNCHANGED <<others, sock, net, queue, sent, got, gone>>

ConnectOther ==
    /\ others < MaxOthers
    /\ Connect("other")
    /\ others' = others + 1
    /\ UNCHANGED streamVars

\* poll() on an event of the listener: every waiting connection is accepted, but
\* closed at once when the list is full.
PollAccepts ==
    /\ pc["server"] = "poll" /\ edge
    /\ edge' = FALSE
    /\ taken' = taken \o SubSeq(backlog, 1, Min({Len(backlog), MaxClients - Len(taken)}))
    /\ backlog' = <<>>
    /\ pc' = [pc EXCEPT !["server"] = IF "this" \in ToSet(taken') THEN "flush" ELSE "poll"]
    /\ UNCHANGED <<others, sock, net, queue, sent, got, gone>>

\* poll() without such an event; the I/O of this connection begins once it is in
\* the list.
PollNothing ==
    /\ pc["server"] = "poll" /\ ~edge /\ "this" \in ToSet(taken)
    /\ pc' = [pc EXCEPT !["server"] = "flush"]
    /\ UNCHANGED <<serverVars, sock, net, queue, sent, got, gone>>

\* The other end has closed the connection.
PeerGone(x) ==
    IF x = "server" THEN gone
    ELSE pc["client"] # "connect" /\ "this" \notin ToSet(backlog) \cup ToSet(taken)
-------------------------------------------------------------------------------
(* TCPSocket.  out is outbound_data_, begin send_begin_, unsent              *)
(* next_send_valid_index_; in is the valid part of inbound_data_.            *)

NewSocket == [out |-> [i \in 0 .. Capacity - 1 |-> Stale], begin |-> 0, unsent |-> 0,
              in |-> <<>>, state |-> "Open"]

Healthy(s) == s.state = "Open"

\* The bytes still to be sent, oldest first.
Unsent(s) == [i \in 1 .. s.unsent |-> s.out[s.begin + i - 1]]

CompactKeepsBegin(s) ==
    [s EXCEPT !.out = [i \in DOMAIN @ |-> IF i < s.unsent THEN @[s.begin + i] ELSE @[i]]]

\* The unsent bytes are moved to the front.
Compact(s) ==
    [s EXCEPT !.out = [i \in DOMAIN @ |-> IF i < s.unsent THEN @[s.begin + i] ELSE @[i]],
              !.begin = 0]

\* send(): the whole frame behind the unsent bytes, compacting where it would
\* run over the end, or nothing.
SendStatus(s) ==
    IF ~Healthy(s) THEN "Invalid"
    ELSE IF FrameSize > Capacity - s.unsent THEN "Full"
    ELSE "Accepted"

Send(s, frame) ==
    LET c == IF s.begin + s.unsent + FrameSize > Capacity THEN Compact(s) ELSE s
        tail == c.begin + c.unsent
    IN  [c EXCEPT !.out = [i \in DOMAIN @ |-> IF i \in tail .. tail + FrameSize - 1
                                              THEN frame[i - tail + 1] ELSE @[i]],
                  !.unsent = @ + FrameSize]

\* The kernel has taken n bytes; an empty buffer starts again at the front.
Written(s, n) ==
    [s EXCEPT !.begin = IF n = s.unsent THEN 0 ELSE @ + n, !.unsent = @ - n]

\* The kernel takes 1 .. all of the unsent bytes, as far as it has room.
FlushWrite(x) ==
    /\ pc[x] = "flush" /\ Healthy(sock[x])
    /\ \E n \in 1 .. Min({sock[x].unsent, KernelCapacity - Len(net[x])}) :
          /\ net' = [net EXCEPT ![x] = @ \o SubSeq(Unsent(sock[x]), 1, n)]
          /\ sock' = [sock EXCEPT ![x] = Written(@, n)]
    /\ \E next \in {"flush", "retry"} : pc' = [pc EXCEPT ![x] = next]
    /\ UNCHANGED <<serverVars, queue, sent, got, gone>>

\* Nothing to send, or EAGAIN.
FlushDone(x) ==
    /\ pc[x] = "flush" /\ Healthy(sock[x])
    /\ sock[x].unsent = 0 \/ Len(net[x]) = KernelCapacity
    /\ pc' = [pc EXCEPT ![x] = "retry"]
    /\ UNCHANGED <<serverVars, sock, net, queue, sent, got, gone>>

\* Any other result of ::send ends the connection for this end; a write to an end
\* that is gone may still succeed.
FlushError(x) ==
    /\ pc[x] = "flush" /\ Healthy(sock[x]) /\ sock[x].unsent > 0 /\ PeerGone(x)
    /\ sock' = [sock EXCEPT ![x].state = "Error"]
    /\ pc' = [pc EXCEPT ![x] = "app"]
    /\ UNCHANGED <<serverVars, net, queue, sent, got, gone>>

\* sendAndRecv() on a connection that is not healthy does nothing.
FlushRefused(x) ==
    /\ pc[x] = "flush" /\ ~Healthy(sock[x])
    /\ pc' = [pc EXCEPT ![x] = "app"]
    /\ UNCHANGED <<serverVars, sock, net, queue, sent, got, gone>>
-------------------------------------------------------------------------------
(* The callbacks: OrderServer::recvCallback, OrderGateway::recvCallback.     *)

\* The frame made of the bytes b; Stale if they are not one frame.
Decode(b) == IF b = Frame(b[1][1]) THEN b[1][1] ELSE Stale

\* As many complete frames as are there and the queue behind takes are cut off
\* the front; half a frame, or a frame there is no room for, stays.
Cut(x, in) ==
    LET n == Min({Len(in) \div FrameSize, QueueCapacity - Len(queue[x])})
    IN  [frames |-> [k \in 1 .. n |-> Decode(SubSeq(in, (k - 1) * FrameSize + 1, k * FrameSize))],
         rest |-> SubSeq(in, n * FrameSize + 1, Len(in))]

Callback(x, in) ==
    LET c == Cut(x, in)
    IN  /\ sock' = [sock EXCEPT ![x].in = c.rest]
        /\ queue' = [queue EXCEPT ![x] = @ \o c.frames]
        /\ got' = [got EXCEPT ![x] = @ \o c.frames]

RetryNothing(x) ==
    /\ pc[x] = "retry"
    /\ pc' = [pc EXCEPT ![x] = "recv"]
    /\ UNCHANGED <<serverVars, sock, queue, got, net, sent, gone>>

\* Frames that had to wait are tried again although nothing new has arrived.
Retry(x) ==
    /\ pc[x] = "retry"
    /\ Callback(x, sock[x].in)
    /\ pc' = [pc EXCEPT ![x] = "recv"]
    /\ UNCHANGED <<serverVars, net, sent, gone>>

\* recvmsg: some of what has arrived, as far as the receive buffer has room.
RecvRead(x) ==
    LET arrived == net[Other(x)]
    IN  /\ pc[x] = "recv" /\ Healthy(sock[x])
        /\ \E n \in 1 .. Min({Len(arrived), Capacity - Len(sock[x].in)}) :
              /\ Callback(x, sock[x].in \o SubSeq(arrived, 1, n))
              /\ net' = [net EXCEPT ![Other(x)] = SubSeq(@, n + 1, Len(@))]
        /\ \E next \in {"recv", "app"} : pc' = [pc EXCEPT ![x] = next]
    /\ UNCHANGED <<serverVars, sent, gone>>

\* The receive buffer is full, or EAGAIN.
RecvDone(x) ==
    /\ pc[x] = "recv"
    /\ Len(sock[x].in) = Capacity \/ (net[Other(x)] = <<>> /\ ~PeerGone(x))
    /\ pc' = [pc EXCEPT ![x] = "app"]
    /\ UNCHANGED <<serverVars, sock, net, queue, sent, got, gone>>

\* The other end has closed the connection: recvmsg returns 0 after everything it
\* sent, or an error at any time.  What is buffered is not looked at again.
RecvClosed(x) ==
    /\ pc[x] = "recv" /\ Healthy(sock[x]) /\ PeerGone(x)
    /\ Len(sock[x].in) < Capacity
    /\ \E state \in {"PeerClosed", "Error"} :
          /\ state = "PeerClosed" => net[Other(x)] = <<>>
          /\ sock' = [sock EXCEPT ![x].state = state]
    /\ pc' = [pc EXCEPT ![x] = "app"]
    /\ UNCHANGED <<serverVars, net, queue, sent, got, gone>>
-------------------------------------------------------------------------------
(* The sends of each end.                                                    *)

\* The gateway's run(): the next request, unless the buffer is full.
Request ==
    /\ pc["client"] = "app" /\ ~gone
    /\ sent["client"] < MaxFrames
    /\ SendStatus(sock["client"]) = "Accepted"
    /\ sock' = [sock EXCEPT !["client"] = Send(@, Frame(sent["client"] + 1))]
    /\ sent' = [sent EXCEPT !["client"] = @ + 1]
    /\ UNCHANGED <<serverVars, net, pc, queue, got, gone>>

\* The server's run(): the response to the oldest request is popped only when
\* its frame is in the send buffer.
Respond ==
    /\ pc["server"] = "app" /\ queue["server"] # <<>>
    /\ SendStatus(sock["server"]) = "Accepted"
    /\ sock' = [sock EXCEPT !["server"] = Send(@, Frame(Head(queue["server"])))]
    /\ sent' = [sent EXCEPT !["server"] = @ + 1]
    /\ queue' = [queue EXCEPT !["server"] = Tail(@)]
    /\ UNCHANGED <<serverVars, net, pc, got, gone>>

\* No more to send in this round, or the buffer is full.  A gateway gives up on a
\* connection that is not healthy; a response for one stops the exchange.
NextRound(x) ==
    /\ pc[x] = "app"
    /\ x = "client" => ~gone /\ Healthy(sock[x])
    /\ x = "server" /\ queue[x] # <<>> => SendStatus(sock[x]) = "Full"
    /\ pc' = [pc EXCEPT ![x] = IF x = "client" THEN "flush" ELSE "poll"]
    /\ UNCHANGED <<serverVars, sock, net, queue, sent, got, gone>>

\* The trading engine takes a response.
Take ==
    /\ queue["client"] # <<>>
    /\ queue' = [queue EXCEPT !["client"] = Tail(@)]
    /\ UNCHANGED <<serverVars, sock, net, pc, sent, got, gone>>

\* The client process ends between two calls; what it has written stays in the
\* network.
Die ==
    /\ ~gone /\ pc["client"] = "app"
    /\ gone' = TRUE
    /\ UNCHANGED <<serverVars, sock, net, pc, queue, sent, got>>
-------------------------------------------------------------------------------
Init ==
    /\ backlog = <<>> /\ edge = FALSE /\ taken = <<>> /\ others = 0
    /\ sock = [x \in Ends |-> NewSocket]
    /\ net = [x \in Ends |-> <<>>]
    /\ pc = [x \in Ends |-> IF x = "client" THEN "connect" ELSE "poll"]
    /\ queue = [x \in Ends |-> <<>>]
    /\ sent = [x \in Ends |-> 0]
    /\ got = [x \in Ends |-> <<>>]
    /\ gone = FALSE

SendAndRecv(x) == \/ FlushWrite(x) \/ FlushDone(x) \/ FlushError(x) \/ FlushRefused(x)
                  \/ Retry(x) \/ RecvRead(x) \/ RecvDone(x) \/ RecvClosed(x)
                  \/ NextRound(x)
Gateway == ConnectThis \/ SendAndRecv("client")
Server == PollAccepts \/ PollNothing \/ SendAndRecv("server") \/ Respond

Next == Gateway \/ Server \/ Request \/ Take \/ Die \/ ConnectOther

Spec == Init /\ [][Next]_vars

\* Both threads keep looping and the trading engine keeps taking responses; the
\* client need not send anything, nor die.
FairSpec == Spec /\ WF_vars(Gateway) /\ WF_vars(Server) /\ WF_vars(Take)
-------------------------------------------------------------------------------
\* In each direction, the frames handed on, the received bytes, those in the
\* network and those unsent make up, in this order and without a byte missing,
\* repeated or displaced, the frames that send() accepted, whatever the writes
\* and reads cut the stream into, and none of them runs over its buffer.
StreamIntact ==
    \A x \in Ends :
        LET y == Other(x)
            done == Len(got[y])
        IN  /\ sock[x].begin + sock[x].unsent <= Capacity /\ Len(sock[x].in) <= Capacity
            /\ got[y] = [i \in 1 .. done |-> i]
            /\ sock[y].in \o net[x] \o Unsent(sock[x]) = Frames(done + 1, sent[x])

\* Every request that send() accepted is answered, although each buffer on the
\* way may be full and nothing new may arrive: as long as accept() does not fail no
\* waiting connection is forgotten, and the two directions never wait for each
\* other.  A client that died or found no place in the server's list is the exception.
AllAnswered == []<>(gone \/ PeerGone("client") \/ Len(got["client"]) = sent["client"])
=============================================================================
