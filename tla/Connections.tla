------------------------------ MODULE Connections ------------------------------
(***************************************************************************)
(* The connection manager (realize-network/src/capnp.rs) as the household  *)
(* uses it (realize-core/src/rpc/household.rs): one tracker task per peer  *)
(* keeps a client connection up, operations go to a peer that is connected *)
(* when they are dispatched, and the data of a remote read comes back in   *)
(* calls to a callback.                                                    *)
(*                                                                         *)
(* keep_peer_connected may start a tracker while the cancelled one is      *)
(* still running, so the trackers of a peer are numbered.  A tracker looks *)
(* at its cancellation token only while it connects or waits for the       *)
(* connection to be lost.                                                  *)
(***************************************************************************)
EXTENDS Naturals, FiniteSets

CONSTANTS
  Peer,         \* peers whose address is known
  Op,           \* operations, each used once
  Chunks,       \* chunks in a file
  MaxTrackers,  \* bound on trackers started
  MaxBreaks,    \* bound on connections broken and servers stopped
  MaxErrors     \* bound on files that cannot be read to the end

ASSUME BoundsAssumption ==
  Chunks \in Nat /\ MaxTrackers \in Nat \ {0} /\ MaxBreaks \in Nat /\ MaxErrors \in Nat

\* The peers are those of the configuration.
ASSUME PeerAssumption == IsFiniteSet(Peer)

Gen == 1..MaxTrackers

VARIABLES
  serving,     \* whether each peer listens for connections
  gen,         \* the tracker keep_peer_connected started last, 0 for none
  cancelled,   \* trackers whose token is cancelled
  tracker,     \* where each tracker is
  link,        \* whether the connection of each tracker is alive
  client,      \* tracked_client: the tracker that set it, 0 for none
  status,      \* the last status broadcast for each peer
  op,          \* the operations
  breaks, errors,  \* for the bounds only
  overlapped   \* peers for which a tracker was started while the cancelled
               \* one was still running

conn == <<serving, gen, cancelled, tracker, link, client, status>>
vars == <<conn, op, breaks, errors, overlapped>>

TrackerPC == {"none", "connecting", "checking", "registering", "up", "done"}

\* An operation: the connection it runs on, whether that is still alive, the
\* chunks sent and received, the answer of the server once it is sent, and
\* what the caller has seen.
OpState ==
  [pc : {"none", "queued", "running", "ended"},
   kind : {"read", "rsync"},
   at : (Peer \X Gen) \cup {<<>>},
   alive : BOOLEAN,
   sent : 0..Chunks, got : 0..Chunks,
   answer : {"none", "ok", "err"},
   finished : BOOLEAN,                       \* ReadCallbackServer.finish was called
   closed : BOOLEAN,                         \* the caller dropped the stream
   error : BOOLEAN]                          \* the caller got an error

TypeOK ==
  /\ serving \in [Peer -> BOOLEAN]
  /\ gen \in [Peer -> 0..MaxTrackers]
  /\ cancelled \subseteq Peer \X Gen
  /\ tracker \in [Peer \X Gen -> TrackerPC]
  /\ link \in [Peer \X Gen -> BOOLEAN]
  /\ client \in [Peer -> 0..MaxTrackers]
  /\ status \in [Peer -> {"Disconnected", "Connected", "Registered"}]
  /\ op \in [Op -> OpState]
  /\ breaks \in 0..MaxBreaks /\ errors \in 0..MaxErrors
  /\ overlapped \subseteq Peer

Unused == [pc |-> "none", kind |-> "read", at |-> <<>>, alive |-> FALSE, sent |-> 0, got |-> 0,
           answer |-> "none", finished |-> FALSE, closed |-> FALSE, error |-> FALSE]

Init ==
  /\ serving \in [Peer -> BOOLEAN]
  /\ gen = [p \in Peer |-> 0]
  /\ cancelled = {}
  /\ tracker = [t \in Peer \X Gen |-> "none"]
  /\ link = [t \in Peer \X Gen |-> FALSE]
  /\ client = [p \in Peer |-> 0]
  /\ status = [p \in Peer |-> "Disconnected"]
  /\ op = [o \in Op |-> Unused]
  /\ breaks = 0 /\ errors = 0 /\ overlapped = {}

bounds == <<breaks, errors>>
-----------------------------------------------------------------------------
(* The peers: Server::listen, Server::shutdown and the network. *)

\* The operations in progress on the connections T fail.
Cut(T) == [o \in Op |-> IF op[o].at \in T /\ op[o].pc = "running"
                        THEN [op[o] EXCEPT !.alive = FALSE] ELSE op[o]]

Listen(p) ==
  /\ ~serving[p]
  /\ serving' = [serving EXCEPT ![p] = TRUE]
  /\ UNCHANGED <<gen, cancelled, tracker, link, client, status, op, bounds, overlapped>>

\* Server::shutdown, or the end of the process: the listener and every
\* connection end.
Shutdown(p) ==
  /\ serving[p] /\ breaks < MaxBreaks /\ breaks' = breaks + 1
  /\ serving' = [serving EXCEPT ![p] = FALSE]
  /\ link' = [t \in Peer \X Gen |-> link[t] /\ t[1] # p]
  /\ op' = Cut({p} \X Gen)
  /\ UNCHANGED <<gen, cancelled, tracker, client, status, errors, overlapped>>

Break(t) ==
  /\ link[t] /\ breaks < MaxBreaks /\ breaks' = breaks + 1
  /\ link' = [link EXCEPT ![t] = FALSE]
  /\ op' = Cut({t})
  /\ UNCHANGED <<serving, gen, cancelled, tracker, client, status, errors, overlapped>>
-----------------------------------------------------------------------------
(* ConnectionMessages. *)

HasUsableTracker(p) == gen[p] > 0 /\ tracker[<<p, gen[p]>>] # "done"
IsCancelled(p) == <<p, gen[p]>> \in cancelled

\* The token of a peer that was disconnected is replaced.
NeedsTracker(p) == IsCancelled(p) \/ ~HasUsableTracker(p)

Started == Cardinality({t \in Peer \X Gen : tracker[t] # "none"})

KeepPeerConnected(p) ==
  /\ NeedsTracker(p) /\ Started < MaxTrackers
  /\ gen' = [gen EXCEPT ![p] = @ + 1]
  /\ tracker' = [tracker EXCEPT ![<<p, gen[p] + 1>>] = "connecting"]
  /\ overlapped' = overlapped \cup {q \in {p} : HasUsableTracker(p)}
  /\ UNCHANGED <<serving, cancelled, link, client, status, op, bounds>>

KeepAllConnected ==
  LET P == {p \in Peer : NeedsTracker(p)}
  IN /\ P # {} /\ Started + Cardinality(P) <= MaxTrackers
     /\ gen' = [p \in Peer |-> IF p \in P THEN gen[p] + 1 ELSE gen[p]]
     /\ tracker' = [t \in Peer \X Gen |->
                      IF t[1] \in P /\ t[2] = gen'[t[1]] THEN "connecting" ELSE tracker[t]]
     /\ overlapped' = overlapped \cup {p \in P : HasUsableTracker(p)}
     /\ UNCHANGED <<serving, cancelled, link, client, status, op, bounds>>

\* Disconnecting a peer that has no tracker has no effect.
Disconnect(P) ==
  /\ \E p \in P : gen[p] > 0 /\ ~IsCancelled(p)
  /\ cancelled' = cancelled \cup {<<p, gen[p]>> : p \in {q \in P : gen[q] > 0}}
  /\ UNCHANGED <<serving, gen, tracker, link, client, status, op, bounds, overlapped>>
-----------------------------------------------------------------------------
(* track_peer. *)

Connect(t) ==
  /\ tracker[t] = "connecting" /\ serving[t[1]]
  /\ tracker' = [tracker EXCEPT ![t] = "checking"]
  /\ link' = [link EXCEPT ![t] = TRUE]
  /\ UNCHANGED <<serving, gen, cancelled, client, status, op, bounds, overlapped>>

\* check_connection succeeds, and the client is published.
Check(t) ==
  /\ tracker[t] = "checking" /\ link[t]
  /\ tracker' = [tracker EXCEPT ![t] = "registering"]
  /\ client' = [client EXCEPT ![t[1]] = t[2]]
  /\ status' = [status EXCEPT ![t[1]] = "Connected"]
  /\ UNCHANGED <<serving, gen, cancelled, link, op, bounds, overlapped>>

CheckFails(t) ==
  /\ tracker[t] = "checking" /\ ~link[t]
  /\ tracker' = [tracker EXCEPT ![t] = "connecting"]
  /\ UNCHANGED <<serving, gen, cancelled, link, client, status, op, bounds, overlapped>>

\* handler.register: subscribe_self may fail, which is only logged.
Register(t) ==
  /\ tracker[t] = "registering"
  /\ tracker' = [tracker EXCEPT ![t] = "up"]
  /\ \/ link[t] /\ status' = [status EXCEPT ![t[1]] = "Registered"]
     \/ UNCHANGED status
  /\ UNCHANGED <<serving, gen, cancelled, link, client, op, bounds, overlapped>>

\* The two scope guards: the client of the peer is cleared, whoever set it,
\* and the connection ends.
LeaveClient(t) ==                            \* mutant
  /\ UNCHANGED <<client, status>>
  /\ link' = [link EXCEPT ![t] = FALSE]
  /\ op' = Cut({t})
DropClient(t) ==
  /\ client' = [client EXCEPT ![t[1]] = 0]
  /\ status' = [status EXCEPT ![t[1]] = "Disconnected"]
  /\ link' = [link EXCEPT ![t] = FALSE]
  /\ op' = Cut({t})

LostForGood(t) ==    \* mutant
  /\ tracker[t] = "up" /\ ~link[t]
  /\ tracker' = [tracker EXCEPT ![t] = "done"]
  /\ DropClient(t)
  /\ UNCHANGED <<serving, gen, cancelled, bounds, overlapped>>
Lost(t) ==
  /\ tracker[t] = "up" /\ ~link[t]
  /\ tracker' = [tracker EXCEPT ![t] = "connecting"]
  /\ DropClient(t)
  /\ UNCHANGED <<serving, gen, cancelled, bounds, overlapped>>

Cancelled(t) ==
  /\ t \in cancelled
  /\ tracker' = [tracker EXCEPT ![t] = "done"]
  /\ \/ tracker[t] = "connecting" /\ UNCHANGED <<client, status, link, op>>
     \/ tracker[t] = "up" /\ DropClient(t)
  /\ UNCHANGED <<serving, gen, cancelled, bounds, overlapped>>
-----------------------------------------------------------------------------
(* Operations. *)

\* Household::read and Household::rsync.
Call(o, kind) ==
  /\ op[o].pc = "none"
  /\ op' = [op EXCEPT ![o].pc = "queued", ![o].kind = kind]
  /\ UNCHANGED <<conn, bounds, overlapped>>

Set(o, new) ==
  /\ op' = [op EXCEPT ![o] = new]
  /\ UNCHANGED <<conn, errors, breaks, overlapped>>

\* What is left of an operation that ends.
Ended(o, error) == [Unused EXCEPT !.pc = "ended", !.kind = op[o].kind, !.got = op[o].got,
                                  !.closed = op[o].closed, !.error = op[o].error \/ error]

\* with_any_peer_client, and the start of execute: an operation on a tracker
\* whose connection is already gone fails like one that loses it.
Dispatch(o, p) ==
  /\ op[o].pc = "queued" /\ client[p] > 0
  /\ LET t == <<p, client[p]>>
     IN Set(o, [op[o] EXCEPT !.pc = "running", !.at = t, !.alive = link[t]])

\* Without a connected peer among those asked for, the answer is an error.
NoAnswer(o) == FALSE    \* mutant
NoPeer(o) ==
  /\ op[o].pc = "queued"
  /\ \E p \in Peer : client[p] = 0
  /\ Set(o, Ended(o, TRUE))

Running(o) == op[o].pc = "running" /\ op[o].alive

\* send_chunks on the peer: calls go out until the end of the file.
SendChunk(o) ==
  /\ Running(o) /\ op[o].kind = "read" /\ op[o].answer = "none"
  /\ op[o].sent < Chunks
  /\ Set(o, [op[o] EXCEPT !.sent = @ + 1])

\* do_read and do_rsync are done.  A chunk that cannot be delivered ends the
\* read with the error Aborted.
Answer(o) ==
  /\ Running(o) /\ op[o].answer = "none"
  /\ \/ /\ op[o].kind = "read" => op[o].sent = Chunks
        /\ Set(o, [op[o] EXCEPT !.answer = "ok"])
     \/ /\ op[o].closed /\ op[o].got < op[o].sent
        /\ Set(o, [op[o] EXCEPT !.answer = "err"])

\* The file cannot be opened, or not be read to the end.
AnswerError(o) ==
  /\ Running(o) /\ op[o].answer = "none"
  /\ errors < MaxErrors /\ errors' = errors + 1
  /\ op' = [op EXCEPT ![o].answer = "err"]
  /\ UNCHANGED <<conn, breaks, overlapped>>

\* ReadCallbackServer::chunk.
Received(o) == op[o].got < op[o].sent
ReceiveChunk(o) ==
  /\ Running(o) /\ Received(o) /\ ~op[o].finished
  /\ Set(o, [op[o] EXCEPT !.got = @ + 1])

\* ReadCallbackServer::finish: calls arrive in the order they were made.
CanFinish(o) ==
  /\ Running(o) /\ op[o].kind = "read" /\ op[o].answer # "none" /\ ~op[o].finished
  /\ op[o].got = op[o].sent \/ op[o].closed
Finish(o) ==
  /\ CanFinish(o)
  /\ Set(o, [op[o] EXCEPT !.finished = TRUE, !.error = @ \/ op[o].answer = "err"])

\* The call returns: the stream ends once both senders are gone.
Return(o) ==
  /\ Running(o) /\ op[o].answer # "none"
  /\ op[o].kind = "read" => op[o].finished
  /\ Set(o, Ended(o, op[o].kind = "rsync" /\ op[o].answer = "err"))

\* The call fails with the connection; execute sends the error.
FailSilently(o) ==    \* mutant
  /\ op[o].pc = "running" /\ ~op[o].alive
  /\ Set(o, Ended(o, FALSE))
Fail(o) ==
  /\ op[o].pc = "running" /\ ~op[o].alive
  /\ Set(o, Ended(o, TRUE))

\* The caller drops the stream, or stops waiting.
Close(o) ==
  /\ op[o].pc \in {"queued", "running"} /\ ~op[o].closed
  /\ Set(o, [op[o] EXCEPT !.closed = TRUE])
-----------------------------------------------------------------------------
TrackerStep(t) == \/ Connect(t) \/ Check(t) \/ CheckFails(t) \/ Register(t)
                  \/ Lost(t) \/ Cancelled(t)

OpStep(o) ==
  \/ \E p \in Peer : Dispatch(o, p)
  \/ NoPeer(o)
  \/ SendChunk(o) \/ Answer(o) \/ ReceiveChunk(o) \/ Finish(o) \/ Return(o) \/ Fail(o)

Next ==
  \/ \E p \in Peer : Listen(p) \/ Shutdown(p) \/ KeepPeerConnected(p) \/ Disconnect({p})
  \/ KeepAllConnected
  \/ Disconnect(Peer)
  \/ \E t \in Peer \X Gen : Break(t) \/ TrackerStep(t)
  \/ \E o \in Op : OpStep(o) \/ AnswerError(o) \/ Close(o)
                   \/ \E k \in {"read", "rsync"} : Call(o, k)

\* Tasks of a LocalSet are polled, a connection attempt to a peer that keeps
\* listening ends, and delivery between live connections goes on.
Fairness ==
  /\ \A t \in Peer \X Gen : WF_vars(TrackerStep(t))
  /\ \A o \in Op : WF_vars(OpStep(o))

Spec == Init /\ [][Next]_vars /\ Fairness
-----------------------------------------------------------------------------
\* As long as keep_peer_connected never meets a cancelled tracker that still
\* runs, the client of a peer is there exactly while a tracker holds a checked
\* connection, and the last status broadcast says so: an operation never goes
\* to a connection that was given up, whatever order cancellations, losses and
\* restarts come in.
ClientTracked ==
  /\ TypeOK
  /\ \A p \in Peer \ overlapped :
       /\ \A g \in Gen : client[p] = g <=> tracker[<<p, g>>] \in {"registering", "up"}
       /\ client[p] = 0 <=> status[p] = "Disconnected"

\* A read that ends without an error has delivered the whole file: a lost
\* connection, a read error on the peer or a missing peer is never taken for
\* the end of the file (execute_read, ReadCallbackServer).
CompleteOrError ==
  \A o \in Op : op[o].pc = "ended" /\ op[o].kind = "read" /\ ~op[o].error /\ ~op[o].closed
                  => op[o].got = Chunks

\* A peer that is to be kept connected and listens from some time on ends up
\* with a client, whatever was broken, stopped or cancelled before
\* (keep_peer_connected, track_peer).
KeptConnected ==
  \A p \in Peer :
    <>[](serving[p] /\ gen[p] > 0 /\ ~IsCancelled(p) /\ p \notin overlapped)
      => <>[](client[p] # 0)

\* Every operation ends: it is answered with data or with an error, whatever
\* happens to the connection it was given to.
OpsAnswered == \A o \in Op : op[o].pc = "queued" ~> op[o].pc = "ended"
-----------------------------------------------------------------------------
(* The parts of the inductive invariant behind the two safety properties. *)

\* The trackers of a peer are numbered without gaps, and those started before
\* the last one are over unless they overlapped.
TrackersNumbered ==
  /\ \A p \in Peer, g \in Gen : tracker[<<p, g>>] = "none" <=> g > gen[p]
  /\ \A p \in Peer \ overlapped, g \in Gen : g < gen[p] => tracker[<<p, g>>] = "done"

\* What is known of an operation before its answer, between the answer and the
\* end of the stream, and once it has ended.
OpProgress(x) ==
  /\ x.pc \in {"none", "queued"} => x.sent = 0 /\ x.got = 0 /\ x.answer = "none" /\ ~x.finished
  /\ x.pc # "ended" => x.got <= x.sent
  /\ x.kind = "read" /\ x.answer = "ok" => x.sent = Chunks
  /\ x.finished => /\ x.answer # "none"
                   /\ x.answer = "err" => x.error
                   /\ x.got = x.sent \/ x.closed
  /\ x.pc = "ended" /\ x.kind = "read" /\ ~x.error /\ ~x.closed => x.got = Chunks

ConnectionsInv ==
  /\ ClientTracked
  /\ TrackersNumbered
  /\ \A o \in Op : OpProgress(op[o])
=============================================================================
