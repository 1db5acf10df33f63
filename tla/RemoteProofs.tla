----------------------------- MODULE RemoteProofs -----------------------------
(***************************************************************************)
(* Proofs about what a peer asks of another: about Connections, for any    *)
(* finite set of peers, any operations and any bounds, and about           *)
(* Downloader, for any sizes of files, chunks and buffers.                 *)
(***************************************************************************)
EXTENDS Connections, Downloader, FiniteSetTheorems, SequenceTheorems, WellFoundedInduction, TLAPS

-----------------------------------------------------------------------------
(* Connections. *)

USE BoundsAssumption

\* A tracker that can still be started has a number: all MaxTrackers trackers
\* of one peer cannot have been started.
LEMMA RoomForTracker ==
  ASSUME TypeOK, TrackersNumbered, NEW p \in Peer, Started < MaxTrackers
  PROVE  gen[p] + 1 \in Gen
<1> DEFINE S == {t \in Peer \X Gen : tracker[t] # "none"}
           T == {p} \X Gen
<1>1. IsFiniteSet(Gen) /\ Cardinality(Gen) = MaxTrackers
  BY FS_Interval DEF Gen
<1>2. IsFiniteSet(S)
  <2>1. IsFiniteSet(Peer \X Gen)
    BY <1>1, PeerAssumption, FS_Product
  <2>2. QED
    BY <2>1, FS_Subset
<1>3. Cardinality(T) = MaxTrackers
  <2>1. IsFiniteSet({p}) /\ Cardinality({p}) = 1
    BY FS_Singleton
  <2>2. Cardinality(T) = 1 * MaxTrackers
    BY <1>1, <2>1, FS_Product
  <2>3. QED
    BY <2>2
<1>4. gen[p] \in 0..MaxTrackers
  BY DEF TypeOK
<1>5. ASSUME gen[p] = MaxTrackers PROVE FALSE
  <2>1. \A g \in Gen : tracker[<<p, g>>] # "none"
    BY <1>5 DEF TrackersNumbered, Gen
  <2>2. T \subseteq S
    BY <2>1
  <2>3. Cardinality(T) <= Cardinality(S)
    BY <1>2, <2>2, FS_Subset
  <2>4. Cardinality(S) \in Nat
    BY <1>2, FS_CardinalityType
  <2>5. QED
    BY <1>3, <2>3, <2>4 DEF Started
<1>6. QED
  BY <1>4, <1>5 DEF Gen

\* keep_all_connected starts one tracker at least.
LEMMA RoomForAll ==
  ASSUME TypeOK, TrackersNumbered, NEW P \in SUBSET Peer, P # {},
         Started + Cardinality(P) <= MaxTrackers
  PROVE  \A p \in Peer : gen[p] + 1 \in Gen
<1>1. IsFiniteSet(P)
  BY PeerAssumption, FS_Subset
<1>2. Cardinality(P) \in Nat /\ Cardinality(P) # 0
  BY <1>1, FS_CardinalityType, FS_EmptySet
<1>3. Started \in Nat
  <2>1. IsFiniteSet(Peer \X Gen)
    <3>1. IsFiniteSet(Gen)
      BY FS_Interval DEF Gen
    <3>2. QED
      BY <3>1, PeerAssumption, FS_Product
  <2>2. IsFiniteSet({t \in Peer \X Gen : tracker[t] # "none"})
    BY <2>1, FS_Subset
  <2>3. QED
    BY <2>2, FS_CardinalityType DEF Started
<1>4. Started < MaxTrackers
  BY <1>2, <1>3
<1>5. QED
  BY <1>4, RoomForTracker

-----------------------------------------------------------------------------
(* The operations. *)

\* What TypeOK and OpProgress say of all operations.
OpsInv == op \in [Op -> OpState] /\ \A o \in Op : OpProgress(op[o])

\* An operation replaced by one in a good state leaves the operations good.
LEMMA OpsSet ==
  ASSUME OpsInv, NEW o \in Op, NEW new \in OpState, OpProgress(new),
         op' = [op EXCEPT ![o] = new]
  PROVE  OpsInv'
  BY DEF OpsInv

\* The operations on connections that end lose them and nothing else.
LEMMA OpsCut ==
  ASSUME OpsInv, NEW T, op' = Cut(T)
  PROVE  OpsInv'
<1>1. ASSUME NEW o \in Op
      PROVE  /\ [op[o] EXCEPT !.alive = FALSE] \in OpState
             /\ OpProgress([op[o] EXCEPT !.alive = FALSE])
  <2>1. op[o] \in OpState /\ OpProgress(op[o])
    BY DEF OpsInv
  <2>2. QED
    BY <2>1 DEF OpState, OpProgress
<1>2. \A o \in Op : op'[o] = op[o] \/ op'[o] = [op[o] EXCEPT !.alive = FALSE]
  BY DEF Cut
<1>3. op' \in [Op -> OpState]
  BY <1>1 DEF Cut, OpsInv
<1>4. QED
  BY <1>1, <1>2, <1>3 DEF OpsInv

\* What is left of an operation that ends is an operation, and a good one when
\* a read that ends without an error got all chunks.
LEMMA EndedGood ==
  ASSUME OpsInv, NEW o \in Op, NEW error \in BOOLEAN,
         op[o].kind = "read" /\ ~op[o].error /\ ~error /\ ~op[o].closed => op[o].got = Chunks
  PROVE  Ended(o, error) \in OpState /\ OpProgress(Ended(o, error))
<1>1. /\ op[o].kind \in {"read", "rsync"} /\ op[o].got \in 0..Chunks
      /\ op[o].closed \in BOOLEAN /\ op[o].error \in BOOLEAN
  BY DEF OpsInv, OpState
<1> DEFINE Over(kind, got, closed, e) ==
             [Unused EXCEPT !.pc = "ended", !.kind = kind, !.got = got, !.closed = closed,
                            !.error = e]
<1>2. ASSUME NEW kind \in {"read", "rsync"}, NEW got \in 0..Chunks, NEW closed \in BOOLEAN,
             NEW e \in BOOLEAN, kind = "read" /\ ~e /\ ~closed => got = Chunks
      PROVE  Over(kind, got, closed, e) \in OpState /\ OpProgress(Over(kind, got, closed, e))
  <2> DEFINE x == Over(kind, got, closed, e)
  <2>1. Unused \in OpState
    BY DEF Unused, OpState
  <2>2. x \in OpState
    BY <2>1 DEF OpState
  <2>3. /\ x.pc = "ended" /\ x.kind = kind /\ x.got = got /\ x.closed = closed /\ x.error = e
        /\ x.answer = "none" /\ ~x.finished
    BY DEF Unused
  <2> HIDE DEF x
  <2>4. OpProgress(x)
    BY <1>2, <2>3 DEF OpProgress
  <2>5. QED
    BY <2>2, <2>4 DEF x
<1> DEFINE err == op[o].error \/ error
<1>3. err \in BOOLEAN /\ (op[o].kind = "read" /\ ~err /\ ~op[o].closed => op[o].got = Chunks)
  OBVIOUS
<1>4. Ended(o, error) = Over(op[o].kind, op[o].got, op[o].closed, err)
  BY Zenon DEF Ended
<1> HIDE DEF err, Over
<1>5. QED
  BY <1>1, <1>2, <1>3, <1>4

\* Every step of an operation keeps what is known of the operations.
LEMMA OpsStep ==
  ASSUME OpsInv, TypeOK, NEW o \in Op,
         OpStep(o) \/ AnswerError(o) \/ Close(o) \/ \E k \in {"read", "rsync"} : Call(o, k)
  PROVE  OpsInv'
<1> DEFINE x == op[o]
<1>0. x \in OpState /\ OpProgress(x)
  BY DEF OpsInv
<1>1. ASSUME NEW p \in Peer, Dispatch(o, p) PROVE OpsInv'
  <2> DEFINE t == <<p, client[p]>>
             new == [x EXCEPT !.pc = "running", !.at = t, !.alive = link[t]]
  <2>1. t \in Peer \X Gen /\ link[t] \in BOOLEAN
    BY <1>1 DEF TypeOK, Gen, Dispatch
  <2>2. new \in OpState
    BY <1>0, <2>1 DEF OpState
  <2>3. OpProgress(new)
    BY <1>0, <1>1 DEF OpState, OpProgress, Dispatch
  <2>4. op' = [op EXCEPT ![o] = new]
    BY <1>1 DEF Dispatch, Set
  <2>5. QED
    BY <2>2, <2>3, <2>4, OpsSet
<1>2. ASSUME NEW error \in BOOLEAN, op' = [op EXCEPT ![o] = Ended(o, error)],
             x.kind = "read" /\ ~x.error /\ ~error /\ ~x.closed => x.got = Chunks
      PROVE  OpsInv'
  BY <1>2, EndedGood, OpsSet
<1>3. CASE NoPeer(o)
  BY <1>2, <1>3 DEF NoPeer, Set
<1>4. CASE SendChunk(o)
  <2> DEFINE new == [x EXCEPT !.sent = @ + 1]
  <2>1. new \in OpState /\ OpProgress(new)
    BY <1>0, <1>4 DEF OpState, OpProgress, SendChunk, Running
  <2>2. QED
    BY <1>4, <2>1, OpsSet DEF SendChunk, Set
<1>5. CASE Answer(o)
  <2>1. ASSUME x.kind = "read" => x.sent = Chunks, op' = [op EXCEPT ![o] = [x EXCEPT !.answer = "ok"]]
        PROVE  OpsInv'
    <3>1. [x EXCEPT !.answer = "ok"] \in OpState /\ OpProgress([x EXCEPT !.answer = "ok"])
      BY <1>0, <1>5, <2>1 DEF OpState, OpProgress, Answer, Running
    <3>2. QED
      BY <2>1, <3>1, OpsSet
  <2>2. ASSUME op' = [op EXCEPT ![o] = [x EXCEPT !.answer = "err"]]
        PROVE  OpsInv'
    <3>1. [x EXCEPT !.answer = "err"] \in OpState /\ OpProgress([x EXCEPT !.answer = "err"])
      BY <1>0, <1>5 DEF OpState, OpProgress, Answer, Running
    <3>2. QED
      BY <2>2, <3>1, OpsSet
  <2>3. QED
    BY <1>5, <2>1, <2>2 DEF Answer, Set
<1>6. CASE AnswerError(o)
  <2>1. [x EXCEPT !.answer = "err"] \in OpState /\ OpProgress([x EXCEPT !.answer = "err"])
    BY <1>0, <1>6 DEF OpState, OpProgress, AnswerError, Running
  <2>2. op' = [op EXCEPT ![o] = [x EXCEPT !.answer = "err"]]
    BY <1>6 DEF AnswerError
  <2>3. QED
    BY <2>1, <2>2, OpsSet
<1>7. CASE ReceiveChunk(o)
  <2> DEFINE new == [x EXCEPT !.got = @ + 1]
  <2>1. new \in OpState /\ OpProgress(new)
    BY <1>0, <1>7 DEF OpState, OpProgress, ReceiveChunk, Received, Running
  <2>2. QED
    BY <1>7, <2>1, OpsSet DEF ReceiveChunk, Set
<1>8. CASE Finish(o)
  <2> DEFINE new == [x EXCEPT !.finished = TRUE, !.error = @ \/ x.answer = "err"]
  <2>1. new \in OpState
    BY <1>0 DEF OpState
  <2>2. OpProgress(new)
    BY <1>0, <1>8 DEF OpState, OpProgress, Finish, CanFinish, Running
  <2>3. QED
    BY <1>8, <2>1, <2>2, OpsSet DEF Finish, Set
<1>9. CASE Return(o)
  <2> DEFINE error == x.kind = "rsync" /\ x.answer = "err"
  <2>1. x.kind = "read" /\ ~x.error /\ ~error /\ ~x.closed => x.got = Chunks
    BY <1>0, <1>9 DEF Return, OpProgress, OpState, Running
  <2>2. op' = [op EXCEPT ![o] = Ended(o, error)]
    BY <1>9 DEF Return, Set
  <2> HIDE DEF error
  <2>3. error \in BOOLEAN
    BY DEF error
  <2>4. QED
    BY <1>2, <2>1, <2>2, <2>3
<1>10. CASE Fail(o)
  BY <1>2, <1>10 DEF Fail, Set
<1>11. CASE Close(o)
  <2>1. [x EXCEPT !.closed = TRUE] \in OpState /\ OpProgress([x EXCEPT !.closed = TRUE])
    BY <1>0, <1>11 DEF OpState, OpProgress, Close
  <2>2. QED
    BY <1>11, <2>1, OpsSet DEF Close, Set
<1>12. ASSUME NEW k \in {"read", "rsync"}, Call(o, k) PROVE OpsInv'
  <2> DEFINE new == [x EXCEPT !.pc = "queued", !.kind = k]
  <2>1. new \in OpState /\ OpProgress(new)
    BY <1>0, <1>12 DEF OpState, OpProgress, Call
  <2>2. op' = [op EXCEPT ![o] = new]
    BY <1>12 DEF Call, OpsInv, OpState
  <2>3. QED
    BY <2>1, <2>2, OpsSet
<1>13. QED
  BY <1>1, <1>3, <1>4, <1>5, <1>6, <1>7, <1>8, <1>9, <1>10, <1>11, <1>12 DEF OpStep

-----------------------------------------------------------------------------
(* The trackers. *)

\* TypeOK without the operations, what the client table says, and the numbers
\* of the trackers.
ConnType ==
  /\ serving \in [Peer -> BOOLEAN]
  /\ gen \in [Peer -> 0..MaxTrackers]
  /\ cancelled \subseteq Peer \X Gen
  /\ tracker \in [Peer \X Gen -> TrackerPC]
  /\ link \in [Peer \X Gen -> BOOLEAN]
  /\ client \in [Peer -> 0..MaxTrackers]
  /\ status \in [Peer -> {"Disconnected", "Connected", "Registered"}]
  /\ breaks \in 0..MaxBreaks /\ errors \in 0..MaxErrors
  /\ overlapped \subseteq Peer

Published ==
  \A p \in Peer \ overlapped :
    /\ \A g \in Gen : client[p] = g <=> tracker[<<p, g>>] \in {"registering", "up"}
    /\ client[p] = 0 <=> status[p] = "Disconnected"

ConnInv == ConnType /\ TrackersNumbered /\ Published

LEMMA InvParts == ConnectionsInv <=> ConnInv /\ OpsInv
  BY DEF ConnectionsInv, ClientTracked, TypeOK, ConnInv, ConnType, Published, OpsInv

\* Steps that leave the trackers alone.
LEMMA ConnUnchanged ==
  ASSUME ConnInv, UNCHANGED <<gen, tracker, client, status, overlapped>>,
         serving' \in [Peer -> BOOLEAN], cancelled' \subseteq Peer \X Gen,
         link' \in [Peer \X Gen -> BOOLEAN], breaks' \in 0..MaxBreaks, errors' \in 0..MaxErrors
  PROVE  ConnInv'
  BY DEF ConnInv, ConnType, TrackersNumbered, Published

\* A tracker that is started gets the next number of its peer, and its peer
\* counts as overlapped when its last tracker is not over.
LEMMA StartTrackers ==
  ASSUME ConnInv, NEW P \in SUBSET Peer, \A p \in P : gen[p] + 1 \in Gen,
         gen' = [p \in Peer |-> IF p \in P THEN gen[p] + 1 ELSE gen[p]],
         tracker' \in [Peer \X Gen -> TrackerPC],
         \A p \in Peer, g \in Gen :
            tracker'[<<p, g>>] = IF p \in P /\ g = gen[p] + 1 THEN "connecting"
                                 ELSE tracker[<<p, g>>],
         overlapped' = overlapped \cup {p \in P : HasUsableTracker(p)},
         UNCHANGED <<serving, cancelled, link, client, status, bounds>>
  PROVE  ConnInv'
<1>1. ConnType'
  BY DEF ConnInv, ConnType, bounds, Gen
<1>2. ASSUME NEW p \in Peer, NEW g \in Gen
      PROVE  tracker'[<<p, g>>] = "none" <=> g > gen'[p]
  <2>1. /\ gen[p] \in Nat /\ g \in Nat
        /\ gen'[p] = IF p \in P THEN gen[p] + 1 ELSE gen[p]
        /\ tracker[<<p, g>>] = "none" <=> g > gen[p]
    BY DEF ConnInv, ConnType, TrackersNumbered, Gen
  <2>2. tracker'[<<p, g>>] = IF p \in P /\ g = gen[p] + 1 THEN "connecting" ELSE tracker[<<p, g>>]
    OBVIOUS
  <2>3. QED
    BY <2>1, <2>2
<1>3. ASSUME NEW p \in Peer \ overlapped', NEW g \in Gen, g < gen'[p]
      PROVE  tracker'[<<p, g>>] = "done"
  <2>1. CASE p \notin P
    BY <1>3, <2>1 DEF ConnInv, ConnType, TrackersNumbered
  <2>2. CASE p \in P
    <3>1. ~HasUsableTracker(p)
      BY <1>3, <2>2
    <3>2. CASE g = gen[p]
      BY <3>1, <3>2, <2>2 DEF HasUsableTracker, ConnInv, ConnType, Gen
    <3>3. CASE g < gen[p]
      BY <1>3, <3>3, <2>2 DEF ConnInv, ConnType, TrackersNumbered, Gen
    <3>4. QED
      BY <1>3, <2>2, <3>2, <3>3 DEF ConnInv, ConnType, Gen
  <2>3. QED
    BY <2>1, <2>2
<1>4. Published'
  BY DEF ConnInv, ConnType, TrackersNumbered, Published, Gen
<1>5. QED
  BY <1>1, <1>2, <1>3, <1>4 DEF ConnInv, TrackersNumbered

\* A tracker that connects, checks, registers, loses its connection or is over
\* is the last one of its peer, unless trackers overlapped: the client table
\* follows what it does.
LEMMA TrackerMoves ==
  ASSUME ConnInv, NEW p \in Peer, NEW g \in Gen, tracker[<<p, g>>] \notin {"none", "done"},
         NEW pc \in TrackerPC \ {"none"},
         tracker' = [tracker EXCEPT ![<<p, g>>] = pc],
         client' \in [Peer -> 0..MaxTrackers],
         status' \in [Peer -> {"Disconnected", "Connected", "Registered"}],
         link' \in [Peer \X Gen -> BOOLEAN],
         \A q \in Peer \ {p} : client'[q] = client[q] /\ status'[q] = status[q],
         p \notin overlapped => /\ client'[p] = IF pc \in {"registering", "up"} THEN g ELSE 0
                                /\ client'[p] = 0 <=> status'[p] = "Disconnected",
         UNCHANGED <<serving, gen, cancelled, bounds, overlapped>>
  PROVE  ConnInv'
<1>1. ConnType'
  BY DEF ConnInv, ConnType, bounds
<1>2. \A q \in Peer, h \in Gen : <<q, h>> # <<p, g>> => tracker'[<<q, h>>] = tracker[<<q, h>>]
  BY DEF ConnInv, ConnType
<1>3. tracker'[<<p, g>>] = pc
  BY DEF ConnInv, ConnType
<1>4. p \notin overlapped => \A h \in Gen : h # g => tracker[<<p, h>>] \in {"none", "done"}
  <2>1. p \notin overlapped => g = gen[p]
    BY DEF ConnInv, ConnType, TrackersNumbered, Gen
  <2>2. QED
    BY <2>1 DEF ConnInv, ConnType, TrackersNumbered, Gen
<1>5. TrackersNumbered'
  <2>1. ASSUME NEW q \in Peer, NEW h \in Gen
        PROVE  tracker'[<<q, h>>] = "none" <=> h > gen'[q]
    <3>1. tracker'[<<q, h>>] = "none" <=> tracker[<<q, h>>] = "none"
      BY <1>2, <1>3
    <3>2. QED
      BY <3>1 DEF ConnInv, TrackersNumbered
  <2>2. \A q \in Peer \ overlapped', h \in Gen : h < gen'[q] => tracker'[<<q, h>>] = "done"
    BY <1>2, <1>3, <1>4 DEF ConnInv, TrackersNumbered
  <2>3. QED
    BY <2>1, <2>2 DEF TrackersNumbered
<1>6. Published'
  <2>1. ASSUME NEW q \in Peer \ overlapped', q # p
        PROVE  /\ \A h \in Gen : client'[q] = h <=> tracker'[<<q, h>>] \in {"registering", "up"}
               /\ client'[q] = 0 <=> status'[q] = "Disconnected"
    BY <1>2, <2>1 DEF ConnInv, Published
  <2>2. ASSUME p \notin overlapped'
        PROVE  /\ \A h \in Gen : client'[p] = h <=> tracker'[<<p, h>>] \in {"registering", "up"}
               /\ client'[p] = 0 <=> status'[p] = "Disconnected"
    <3>1. \A h \in Gen : h # g => tracker'[<<p, h>>] \notin {"registering", "up"}
      BY <1>2, <1>4, <2>2
    <3>2. /\ client'[p] = IF pc \in {"registering", "up"} THEN g ELSE 0
          /\ client'[p] = 0 <=> status'[p] = "Disconnected"
      BY <2>2
    <3>3. ASSUME NEW h \in Gen
          PROVE  client'[p] = h <=> tracker'[<<p, h>>] \in {"registering", "up"}
      <4>1. CASE h = g
        BY <1>3, <3>2, <4>1 DEF Gen
      <4>2. CASE h # g
        BY <3>1, <3>2, <4>2 DEF Gen
      <4>3. QED
        BY <4>1, <4>2
    <3>4. QED
      BY <3>2, <3>3
  <2>3. QED
    BY <2>1, <2>2 DEF Published
<1>7. QED
  BY <1>1, <1>5, <1>6 DEF ConnInv

\* DropClient clears what the client table holds of the peer.
LEMMA DropClientMoves ==
  ASSUME ConnInv, NEW p \in Peer, NEW g \in Gen, tracker[<<p, g>>] = "up",
         NEW pc \in {"connecting", "done"},
         tracker' = [tracker EXCEPT ![<<p, g>>] = pc],
         DropClient(<<p, g>>),
         UNCHANGED <<serving, gen, cancelled, bounds, overlapped>>
  PROVE  ConnInv'
<1>1. /\ client' = [client EXCEPT ![p] = 0]
      /\ status' = [status EXCEPT ![p] = "Disconnected"]
      /\ link' = [link EXCEPT ![<<p, g>>] = FALSE]
  BY DEF DropClient
<1>2. /\ client' \in [Peer -> 0..MaxTrackers]
      /\ status' \in [Peer -> {"Disconnected", "Connected", "Registered"}]
      /\ link' \in [Peer \X Gen -> BOOLEAN]
      /\ client'[p] = 0 /\ status'[p] = "Disconnected"
      /\ \A q \in Peer \ {p} : client'[q] = client[q] /\ status'[q] = status[q]
  BY <1>1 DEF ConnInv, ConnType
<1>3. pc \in TrackerPC \ {"none"}
  BY DEF TrackerPC
<1>4. QED
  BY <1>2, <1>3, TrackerMoves

\* Every step of a tracker keeps what is known of the trackers.
LEMMA TrackerStepConn ==
  ASSUME ConnInv, NEW t \in Peer \X Gen, TrackerStep(t)
  PROVE  ConnInv'
<1>0. PICK p \in Peer, g \in Gen : t = <<p, g>>
  OBVIOUS
<1>t. t[1] = p /\ t[2] = g
  BY <1>0
<1>c. ConnType /\ TrackersNumbered /\ Published
  BY DEF ConnInv
<1>o. p \notin overlapped => (client[p] = g <=> tracker[t] \in {"registering", "up"})
  BY <1>0, <1>c DEF Published
<1>z. p \notin overlapped /\ tracker[t] \notin {"none", "done", "registering", "up"} => client[p] = 0
  <2>1. SUFFICES ASSUME p \notin overlapped, tracker[t] \notin {"none", "done", "registering", "up"}
                 PROVE  \A h \in Gen : client[p] # h
    BY <1>c DEF ConnType, Gen
  <2>2. g = gen[p]
    <3>1. tracker[<<p, g>>] # "none" /\ tracker[<<p, g>>] # "done"
      BY <1>0, <2>1
    <3>2. ~(g > gen[p]) /\ ~(g < gen[p])
      BY <1>c, <2>1, <3>1 DEF TrackersNumbered
    <3>3. QED
      BY <1>c, <3>2 DEF ConnType, Gen
  <2>3. ASSUME NEW h \in Gen PROVE tracker[<<p, h>>] \notin {"registering", "up"}
    <3>1. CASE h = g
      BY <1>0, <2>1, <3>1
    <3>2. CASE h # g
      <4>1. h > gen[p] \/ h < gen[p]
        BY <1>c, <2>2, <3>2 DEF ConnType, Gen
      <4>2. QED
        BY <1>c, <2>1, <4>1 DEF TrackersNumbered
    <3>3. QED
      BY <3>1, <3>2
  <2>4. QED
    BY <1>c, <2>1, <2>3 DEF Published
<1>1. CASE Connect(t)
  <2>1. "checking" \in TrackerPC \ {"none"} /\ link' \in [Peer \X Gen -> BOOLEAN]
    BY <1>1, <1>c DEF Connect, ConnType, TrackerPC
  <2>2. QED
    BY <1>0, <1>1, <1>c, <1>z, <2>1, TrackerMoves DEF Connect, ConnType, Published
<1>2. CASE CheckFails(t)
  <2>1. "connecting" \in TrackerPC \ {"none"}
    BY DEF TrackerPC
  <2>2. QED
    BY <1>0, <1>2, <1>c, <1>z, <2>1, TrackerMoves DEF CheckFails, ConnType, Published
<1>3. CASE Check(t)
  <2>1. "registering" \in TrackerPC \ {"none"}
    BY DEF TrackerPC
  <2>2. /\ client' = [client EXCEPT ![p] = g]
        /\ status' = [status EXCEPT ![p] = "Connected"]
    BY <1>t, <1>3 DEF Check
  <2>3. /\ client' \in [Peer -> 0..MaxTrackers]
        /\ status' \in [Peer -> {"Disconnected", "Connected", "Registered"}]
        /\ client'[p] = g /\ status'[p] = "Connected"
        /\ \A q \in Peer \ {p} : client'[q] = client[q] /\ status'[q] = status[q]
    BY <1>c, <2>2 DEF ConnType, Gen
  <2>4. g # 0
    BY DEF Gen
  <2>5. QED
    BY <1>0, <1>3, <1>c, <2>1, <2>3, <2>4, TrackerMoves DEF Check, ConnType
<1>4. CASE Register(t)
  <2>1. "up" \in TrackerPC \ {"none"}
    BY DEF TrackerPC
  <2>2. status' = [status EXCEPT ![p] = "Registered"] \/ status' = status
    BY <1>t, <1>4 DEF Register
  <2>3. /\ status' \in [Peer -> {"Disconnected", "Connected", "Registered"}]
        /\ \A q \in Peer \ {p} : status'[q] = status[q]
        /\ status'[p] = "Registered" \/ status'[p] = status[p]
    BY <1>c, <2>2 DEF ConnType
  <2>4. p \notin overlapped => client[p] = g /\ status[p] # "Disconnected" /\ g # 0
    BY <1>4, <1>o, <1>c DEF Register, Published, Gen
  <2>5. QED
    BY <1>0, <1>4, <1>c, <2>1, <2>3, <2>4, TrackerMoves DEF Register, ConnType
<1>5. CASE Lost(t)
  BY <1>0, <1>5, DropClientMoves DEF Lost
<1>6. CASE Cancelled(t)
  <2>1. CASE tracker[t] = "up" /\ DropClient(t)
    BY <1>0, <1>6, <2>1, DropClientMoves DEF Cancelled
  <2>2. CASE tracker[t] = "connecting" /\ UNCHANGED <<client, status, link, op>>
    <3>1. "done" \in TrackerPC \ {"none"}
      BY DEF TrackerPC
    <3>2. QED
      BY <1>0, <1>6, <1>c, <1>z, <2>2, <3>1, TrackerMoves DEF Cancelled, ConnType, Published
  <2>3. QED
    BY <1>6, <2>1, <2>2 DEF Cancelled
<1>7. QED
  BY <1>1, <1>2, <1>3, <1>4, <1>5, <1>6 DEF TrackerStep

-----------------------------------------------------------------------------
LEMMA InvInit == Init => ConnectionsInv
<1>1. SUFFICES ASSUME Init PROVE ConnInv /\ OpsInv
  BY InvParts
<1>2. ConnInv
  BY <1>1 DEF Init, ConnInv, ConnType, TrackersNumbered, Published, Gen, TrackerPC
<1>3. Unused \in OpState /\ OpProgress(Unused)
  BY DEF Unused, OpState, OpProgress
<1>4. OpsInv
  BY <1>1, <1>3 DEF Init, OpsInv
<1>5. QED
  BY <1>2, <1>4

LEMMA InvNext == ConnectionsInv /\ [Next]_vars => ConnectionsInv'
<1>1. SUFFICES ASSUME ConnInv, OpsInv, [Next]_vars PROVE ConnInv' /\ OpsInv'
  <2>1. ConnInv' /\ OpsInv' => ConnectionsInv'
    BY DEF ConnectionsInv, ClientTracked, TypeOK, ConnInv, ConnType, Published, OpsInv
  <2>2. QED
    BY <2>1, InvParts
<1>t. TypeOK
  BY <1>1, InvParts DEF ConnectionsInv, ClientTracked
<1>c. ConnType
  BY <1>1 DEF ConnInv
<1>2. ASSUME NEW p \in Peer, Listen(p) PROVE ConnInv' /\ OpsInv'
  <2>1. ConnInv'
    BY <1>1, <1>2, <1>c, ConnUnchanged DEF Listen, ConnType, bounds
  <2>2. QED
    BY <1>1, <1>2, <2>1 DEF Listen, OpsInv
<1>3. ASSUME NEW p \in Peer, Shutdown(p) PROVE ConnInv' /\ OpsInv'
  <2>1. link' \in [Peer \X Gen -> BOOLEAN] /\ serving' \in [Peer -> BOOLEAN]
        /\ breaks' \in 0..MaxBreaks
    BY <1>3, <1>c DEF Shutdown, ConnType
  <2>2. ConnInv'
    BY <1>1, <1>3, <1>c, <2>1, ConnUnchanged DEF Shutdown, ConnType
  <2>3. QED
    BY <1>1, <1>3, <2>2, OpsCut DEF Shutdown
<1>4. ASSUME NEW t \in Peer \X Gen, Break(t) PROVE ConnInv' /\ OpsInv'
  <2>1. link' \in [Peer \X Gen -> BOOLEAN] /\ breaks' \in 0..MaxBreaks
    BY <1>4, <1>c DEF Break, ConnType
  <2>2. ConnInv'
    BY <1>1, <1>4, <1>c, <2>1, ConnUnchanged DEF Break, ConnType
  <2>3. QED
    BY <1>1, <1>4, <2>2, OpsCut DEF Break
<1>5. ASSUME NEW p \in Peer, KeepPeerConnected(p) PROVE ConnInv' /\ OpsInv'
  <2>1. gen[p] + 1 \in Gen
    BY <1>1, <1>5, <1>t, RoomForTracker DEF KeepPeerConnected, ConnInv
  <2>2. gen' = [q \in Peer |-> IF q \in {p} THEN gen[q] + 1 ELSE gen[q]]
    BY <1>5, <1>c DEF KeepPeerConnected, ConnType
  <2>3. /\ tracker' \in [Peer \X Gen -> TrackerPC]
        /\ \A q \in Peer, g \in Gen :
             tracker'[<<q, g>>] = IF q \in {p} /\ g = gen[q] + 1 THEN "connecting"
                                  ELSE tracker[<<q, g>>]
    BY <1>5, <1>c, <2>1 DEF KeepPeerConnected, ConnType, TrackerPC
  <2>4. overlapped' = overlapped \cup {q \in {p} : HasUsableTracker(q)}
    BY <1>5 DEF KeepPeerConnected
  <2>5. ConnInv'
    <3>1. {p} \in SUBSET Peer /\ \A q \in {p} : gen[q] + 1 \in Gen
      BY <2>1
    <3>2. UNCHANGED <<serving, cancelled, link, client, status, bounds>>
      BY <1>5 DEF KeepPeerConnected
    <3>3. QED
      BY <1>1, <2>2, <2>3, <2>4, <3>1, <3>2, StartTrackers
  <2>6. QED
    BY <1>1, <1>5, <2>5 DEF KeepPeerConnected, OpsInv
<1>6. CASE KeepAllConnected
  <2> DEFINE P == {p \in Peer : NeedsTracker(p)}
  <2>1. /\ P # {} /\ Started + Cardinality(P) <= MaxTrackers
        /\ gen' = [p \in Peer |-> IF p \in P THEN gen[p] + 1 ELSE gen[p]]
        /\ tracker' = [t \in Peer \X Gen |->
                         IF t[1] \in P /\ t[2] = gen'[t[1]] THEN "connecting" ELSE tracker[t]]
        /\ overlapped' = overlapped \cup {p \in P : HasUsableTracker(p)}
        /\ UNCHANGED <<serving, cancelled, link, client, status, op, bounds>>
    BY <1>6 DEF KeepAllConnected
  <2>p. P \in SUBSET Peer
    OBVIOUS
  <2> HIDE DEF P
  <2>2. \A p \in Peer : gen[p] + 1 \in Gen
    BY <1>1, <1>t, <2>1, <2>p, RoomForAll DEF ConnInv
  <2>3. /\ tracker' \in [Peer \X Gen -> TrackerPC]
        /\ \A p \in Peer, g \in Gen :
             tracker'[<<p, g>>] = IF p \in P /\ g = gen[p] + 1 THEN "connecting"
                                  ELSE tracker[<<p, g>>]
    BY <1>c, <2>1 DEF ConnType, TrackerPC
  <2>4. ConnInv'
    BY <1>1, <2>1, <2>p, <2>2, <2>3, StartTrackers
  <2>5. QED
    BY <1>1, <2>1, <2>4 DEF OpsInv
<1>7. ASSUME NEW P \in SUBSET Peer, Disconnect(P) PROVE ConnInv' /\ OpsInv'
  <2>1. cancelled' \subseteq Peer \X Gen
    BY <1>7, <1>c DEF Disconnect, ConnType, Gen
  <2>2. ConnInv'
    BY <1>1, <1>7, <1>c, <2>1, ConnUnchanged DEF Disconnect, ConnType, bounds
  <2>3. QED
    BY <1>1, <1>7, <2>2 DEF Disconnect, OpsInv
<1>8. ASSUME NEW t \in Peer \X Gen, TrackerStep(t) PROVE ConnInv' /\ OpsInv'
  <2>1. op' = op \/ op' = Cut({t})
    BY <1>8 DEF TrackerStep, Connect, Check, CheckFails, Register, Lost, Cancelled, DropClient
  <2>2. OpsInv'
    BY <1>1, <2>1, OpsCut DEF OpsInv
  <2>3. QED
    BY <1>1, <1>8, <2>2, TrackerStepConn
<1>9. ASSUME NEW o \in Op, OpStep(o) \/ AnswerError(o) \/ Close(o)
                          \/ \E k \in {"read", "rsync"} : Call(o, k)
      PROVE  ConnInv' /\ OpsInv'
  <2>1. OpsInv'
    BY <1>1, <1>9, <1>t, OpsStep
  <2>2. UNCHANGED <<conn, breaks, overlapped>> /\ errors' \in 0..MaxErrors
    <3>1. CASE OpStep(o)
      BY <1>c, <3>1 DEF OpStep, Dispatch, NoPeer, SendChunk, Answer, ReceiveChunk, Finish, Return,
                        Fail, Set, ConnType
    <3>2. CASE AnswerError(o)
      BY <1>c, <3>2 DEF AnswerError, ConnType
    <3>3. CASE Close(o)
      BY <1>c, <3>3 DEF Close, Set, ConnType
    <3>4. CASE \E k \in {"read", "rsync"} : Call(o, k)
      BY <1>c, <3>4 DEF Call, ConnType, bounds
    <3>5. QED
      BY <1>9, <3>1, <3>2, <3>3, <3>4
  <2>3. QED
    BY <1>1, <1>c, <2>1, <2>2, ConnUnchanged DEF conn, ConnType
<1>10. CASE UNCHANGED vars
  BY <1>1, <1>10, <1>c, ConnUnchanged DEF vars, conn, ConnType, OpsInv
<1>11. QED
  <2>1. (\A p \in Peer : {p} \in SUBSET Peer) /\ Peer \in SUBSET Peer
    OBVIOUS
  <2>2. QED
    BY <1>1, <1>2, <1>3, <1>4, <1>5, <1>6, <1>7, <1>8, <1>9, <1>10, <2>1 DEF Next

\* The inductive invariant holds of every reachable state.
THEOREM InvCorrect == Spec => []ConnectionsInv
<1>1. Init => ConnectionsInv
  BY InvInit
<1>2. ConnectionsInv /\ [Next]_vars => ConnectionsInv'
  BY InvNext
<1>3. QED
  BY <1>1, <1>2, PTL DEF Spec

\* For any number of peers, trackers and operations: while no trackers overlap,
\* a peer has a client exactly while a tracker holds a checked connection to
\* it, and the status broadcast last agrees (track_peer, keep_peer_connected).
THEOREM ClientTrackedCorrect == Spec => []ClientTracked
<1>1. ConnectionsInv => ClientTracked
  BY DEF ConnectionsInv
<1>2. QED
  BY <1>1, InvCorrect, PTL

\* For files of any size: a read that ends without an error, on a stream the
\* caller kept, delivered all of the file (execute_read, ReadCallbackServer).
THEOREM CompleteOrErrorCorrect == Spec => []CompleteOrError
<1>1. ConnectionsInv => CompleteOrError
  BY DEF ConnectionsInv, OpProgress, CompleteOrError
<1>2. QED
  BY <1>1, InvCorrect, PTL
-----------------------------------------------------------------------------
(* Downloader. *)

\* A range of the file, or of what is left of it.
Piece == [start : Int, end : {e \in Int : e <= Size}]

\* The bytes of a call, in order, from where it started.
InOrder(c) == \A i \in 1..Len(c.data) : c.data[i] = c.from + i - 1

StatePc == {"default", "fill", "request", "seek", "read", "download", "write"}
CallPc == {"idle", "reading", "ok", "err"}
PollState == [pc : StatePc, goal : Int, next : {"read", "write"}, range : Piece, chunks : Seq(Piece)]
PollCall == [pc : CallPc, room : Nat, from : 0..Size, size : Nat, data : Seq(Int)]

\* A reader that met nothing a dropped read had left: ...
ReaderOK ==
  /\ offset \in 0..Size /\ blobOffset \in Int /\ avail \in Seq(Piece)
  /\ state \in PollState /\ call \in PollCall

\* ... the blob is read where the reader stands, ...
StateOK ==
  /\ state.pc = "read" => blobOffset = offset
  /\ state.pc = "seek" /\ state.next = "read" => state.goal = offset
  /\ state.pc = "write" \/ (state.pc = "seek" /\ state.next = "write") => state.chunks # <<>>
  /\ call.pc # "reading" => state.pc \notin {"fill", "request"}

\* ... and what a call has is what the reader went through.
CallOK ==
  /\ call.pc = "reading" =>
       /\ offset = call.from + Len(call.data) /\ call.room = call.size - Len(call.data)
       /\ InOrder(call)
       /\ state.pc # "fill" => call.data = <<>>
  /\ call.pc = "ok" => InOrder(call) /\ (call.data = <<>> => call.from = Size \/ call.size = 0)

Sound == ReaderOK /\ StateOK /\ CallOK

\* The inductive invariant: a reader is sound until it meets what a dropped read
\* left, and again once it is opened anew.
ReaderInv ==
  /\ remote \in 0..Size /\ resumed \in BOOLEAN
  /\ ~resumed => Sound

\* start_seek keeps chunks that are there.
LEMMA DropsPieces ==
  ASSUME NEW s \in Seq(Piece), NEW i
  PROVE  DropUntil(s, i) \in Seq(Piece)
<1> DEFINE holding == {k \in 1..Len(s) : Contains(s[k], i)}
           R == {ss \in Nat \X Nat : ss[1] < ss[2]}
<1>1. CASE holding = {}
  BY <1>1 DEF DropUntil
<1>2. CASE holding # {}
  <2>1. IsWellFoundedOn(R, Nat)
    BY NatLessThanWellFounded DEF OpToRel
  <2>2. holding \subseteq Nat /\ Len(s) \in Nat
    OBVIOUS
  <2>3. PICK k \in holding : \A j \in holding : ~(<<j, k>> \in R)
    <3> HIDE DEF R, holding
    <3>1. QED
      BY <1>2, <2>1, <2>2, WFMin
  <2>4. \A j \in holding : k <= j
    <3>1. ASSUME NEW j \in holding, ~(k <= j) PROVE FALSE
      <4>1. j \in Nat /\ k \in Nat
        BY <2>2
      <4>2. j < k
        BY <3>1, <4>1
      <4>3. <<j, k>> \in R
        BY <4>1, <4>2
      <4>4. QED
        BY <2>3, <4>3
    <3>2. QED
      BY <3>1
  <2>5. PICK m : m = CHOOSE x \in holding : \A j \in holding : x <= j
    OBVIOUS
  <2>6. m \in holding
    BY <2>4, <2>5
  <2>7. DropUntil(s, i) = SubSeq(s, m, Len(s))
    BY <1>2, <2>5 DEF DropUntil
  <2>8. \A j \in m..Len(s) : s[j] \in Piece
    BY <2>2, <2>6
  <2>9. m \in Int /\ Len(s) \in Int
    BY <2>2, <2>6
  <2>10. QED
    BY <2>7, <2>8, <2>9, SubSeqProperties
<1>3. QED
  BY <1>1, <1>2

\* What is asked of a peer is within the file.
LEMMA RequestIsPiece ==
  ASSUME offset \in 0..Size, call.size \in Nat
  PROVE  NextRequest \in Piece
<1> DEFINE align == offset % MinChunk
           size == call.size + align
           rest == size % MinChunk
<1>1. Size \in Nat /\ MinChunk \in Nat /\ MinChunk > 0 /\ MaxChunk \in Nat
  BY SizeAssumption
<1>2. align \in Int
  BY <1>1
<1>3. size \in Int
  BY <1>2
<1> HIDE DEF align
<1>4. rest \in Int
  BY <1>1, <1>3
<1> HIDE DEF size, rest
<1>5. Least(size + MinChunk - rest, MaxChunk) \in Int
  BY <1>1, <1>3, <1>4 DEF Least
<1>6. NextRequest = [start |-> offset - align,
                     end |-> UpToSize((offset - align) + Least(size + MinChunk - rest, MaxChunk))]
  BY DEF NextRequest, RoundUp, align, size, rest
<1>7. PICK e : e = Least(size + MinChunk - rest, MaxChunk)
  OBVIOUS
<1>8. UpToSize((offset - align) + e) \in {x \in Int : x <= Size}
  BY <1>1, <1>2, <1>5, <1>7 DEF UpToSize, Least
<1>9. QED
  BY <1>2, <1>6, <1>7, <1>8 DEF Piece

\* So is what it sends.
LEMMA ChunksArePieces ==
  ASSUME NEW r \in Piece, remote \in 0..Size
  PROVE  ChunksOf(r) \in Seq(Piece)
<1> DEFINE n == ChunkCount(r)
           last == Least(r.end, remote)
<1>1. Size \in Nat /\ MinChunk \in Nat /\ MinChunk > 0
  BY SizeAssumption
<1>2. r.start \in Int /\ r.end \in Int /\ r.end <= Size
  BY DEF Piece
<1>3. last \in Int /\ last <= Size
  BY <1>1, <1>2 DEF Least
<1>4. n \in Nat
  <2>1. n = IF last <= r.start THEN 0 ELSE (last - r.start + MinChunk - 1) \div MinChunk
    BY DEF ChunkCount
  <2> HIDE DEF last, n
  <2>2. CASE last <= r.start
    BY <2>1, <2>2
  <2>3. CASE ~(last <= r.start)
    <3>1. last - r.start + MinChunk - 1 \in Nat
      BY <1>1, <1>2, <1>3, <2>3
    <3>2. PICK x \in Nat : x = last - r.start + MinChunk - 1
      BY <3>1
    <3>3. x \div MinChunk \in Nat
      BY <1>1
    <3>4. QED
      BY <2>1, <2>3, <3>2, <3>3
  <2>4. QED
    BY <2>2, <2>3
<1>5. ASSUME NEW i \in 1..n
      PROVE  [start |-> r.start + (i - 1) * MinChunk, end |-> Least(r.start + i * MinChunk, last)] \in Piece
  <2>1. PICK x \in Int, y \in Int : x = (i - 1) * MinChunk /\ y = i * MinChunk
    BY <1>1, <1>4
  <2> HIDE DEF n, last
  <2>2. r.start + x \in Int /\ Least(r.start + y, last) \in {e \in Int : e <= Size}
    BY <1>1, <1>2, <1>3 DEF Least
  <2>3. QED
    BY <2>1, <2>2 DEF Piece
<1>6. ChunksOf(r) =
        [i \in 1..n |-> [start |-> r.start + (i - 1) * MinChunk,
                         end |-> Least(r.start + i * MinChunk, last)]]
  BY DEF ChunksOf
<1> HIDE DEF n, last
<1>7. QED
  BY <1>4, <1>5, <1>6

\* A state in which the next chunk is written.
Writing(s) ==
  /\ s \in PollState /\ s.pc \in {"default", "seek", "write"}
  /\ s.pc = "seek" => s.next = "write"
  /\ s.pc # "default" => s.chunks # <<>>

\* A state between two calls.
LEMMA DefaultState == Default \in PollState /\ Default.pc = "default"
<1>1. NoRange \in Piece
  BY SizeAssumption DEF NoRange, ByteRange, Piece
<1>2. <<>> \in Seq(Piece)
  OBVIOUS
<1>3. QED
  BY <1>1, <1>2 DEF Default, PollState, StatePc

\* write_chunks_state writes the chunks it is given, or ends.
LEMMA WritesNext ==
  ASSUME NEW chunks \in Seq(Piece), NEW s, s = WriteState(chunks)
  PROVE  Writing(s)
<1>1. CASE chunks = <<>>
  <2>1. s = Default
    BY <1>1 DEF WriteState
  <2>2. QED
    BY <2>1, DefaultState DEF Writing
<1>2. CASE chunks # <<>>
  <2>1. Head(chunks) \in Piece
    BY <1>2, HeadTailProperties
  <2>2. Head(chunks).start \in Int
    BY <2>1 DEF Piece
  <2>3. PICK pc \in {"write", "seek"} : pc = IF Head(chunks).start = blobOffset' THEN "write" ELSE "seek"
    OBVIOUS
  <2>4. s = [Default EXCEPT !.pc = pc, !.goal = Head(chunks).start, !.next = "write", !.chunks = chunks]
    BY <1>2, <2>3 DEF WriteState
  <2>5. s = [pc |-> pc, goal |-> Head(chunks).start, next |-> "write", range |-> NoRange, chunks |-> chunks]
    BY <2>4 DEF Default
  <2>6. NoRange \in Piece
    BY SizeAssumption DEF NoRange, ByteRange, Piece
  <2>7. QED
    BY <1>2, <2>2, <2>5, <2>6 DEF Writing, PollState, StatePc
<1>3. QED
  BY <1>1, <1>2

\* A call that ends keeps what it has.
LEMMA CallFields ==
  ASSUME call \in PollCall, NEW p \in CallPc, NEW c, c = [call EXCEPT !.pc = p]
  PROVE  /\ c \in PollCall /\ c.pc = p
         /\ c.data = call.data /\ c.from = call.from /\ c.size = call.size /\ c.room = call.room
BY DEF PollCall

\* Goto changes where poll_read goes on, and nothing else.
LEMMA StateFields ==
  ASSUME state \in PollState, NEW p \in StatePc, NEW s, s = [state EXCEPT !.pc = p]
  PROVE  /\ s \in PollState /\ s.pc = p
         /\ s.goal = state.goal /\ s.next = state.next /\ s.range = state.range /\ s.chunks = state.chunks
BY DEF PollState

\* No call.
LEMMA NoCallFields ==
  NoCall \in PollCall /\ NoCall.pc = "idle"
<1>1. 0 \in 0..Size /\ <<>> \in Seq(Int)
  BY SizeAssumption
<1>2. QED
  BY <1>1 DEF NoCall, PollCall, CallPc

\* A reader that was just opened is sound.
LEMMA SoundAtFirst == ReaderInit => ReaderInv
<1> SUFFICES ASSUME ReaderInit PROVE ReaderInv
  OBVIOUS
<1>1. 0 \in 0..Size /\ 0 \in Int /\ <<>> \in Seq(Piece)
  BY SizeAssumption
<1>2. ReaderOK
  BY <1>1, DefaultState, NoCallFields DEF ReaderInit, ReaderOK
<1>3. StateOK /\ CallOK
  BY DefaultState, NoCallFields DEF ReaderInit, StateOK, CallOK
<1>4. QED
  BY <1>2, <1>3 DEF ReaderInit, ReaderInv, Sound

\* A call that ends with an error, or whose state is the default one again.
LEMMA SoundIdle ==
  ASSUME ReaderOK', state'.pc = "default", call'.pc \in {"idle", "err"}
  PROVE  Sound'
BY DEF Sound, StateOK, CallOK

\* A seek that keeps nothing of a dropped read.
LEMMA SeekSound ==
  ASSUME Sound, ~resumed', NEW goal \in 0..Size, Seek(goal)
  PROVE  Sound'
<1>1. state'.pc = "default" /\ state' \in PollState
  BY DefaultState DEF Seek, Pending, Sound, ReaderOK
<1>2. avail' \in Seq(Piece)
  BY DropsPieces DEF Seek, Sound, ReaderOK
<1>3. ReaderOK'
  BY <1>1, <1>2 DEF Seek, Sound, ReaderOK
<1>4. StateOK'
  BY <1>1 DEF StateOK
<1>5. CallOK'
  BY DEF Seek, Sound, CallOK, InOrder
<1>6. QED
  BY <1>3, <1>4, <1>5 DEF Sound

\* A call starts where the reader stands, with nothing.
LEMMA ReadSound ==
  ASSUME Sound, NEW n \in BufSize, Read(n)
  PROVE  Sound'
<1>1. n \in Nat
  BY SizeAssumption
<1>2. call' = [pc |-> "reading", room |-> n, from |-> offset, size |-> n, data |-> <<>>]
  BY DEF Read, NoCall
<1>3. UNCHANGED <<blobOffset, offset, avail, state>>
  BY DEF Read, reader
<1>4. offset \in 0..Size /\ <<>> \in Seq(Int) /\ Len(<<>>) = 0
  BY DEF Sound, ReaderOK
<1>5. call' \in PollCall
  BY <1>1, <1>2, <1>4 DEF PollCall, CallPc
<1>6. ReaderOK'
  BY <1>3, <1>5 DEF Sound, ReaderOK
<1>7. StateOK'
  BY <1>2, <1>3 DEF Read, Sound, StateOK
<1>8. InOrder(call')
  BY <1>2, <1>4 DEF InOrder
<1>9. offset' = call'.from + Len(call'.data) /\ call'.room = call'.size - Len(call'.data)
  BY <1>1, <1>2, <1>3, <1>4
<1>10. call'.data = <<>> /\ call'.pc = "reading"
  BY <1>2
<1>11. CallOK'
  BY <1>8, <1>9, <1>10 DEF CallOK, InOrder
<1>12. QED
  BY <1>6, <1>7, <1>11 DEF Sound

\* A dropped read leaves the blob where its state says.
LEMMA DropSound ==
  ASSUME Sound, Drop
  PROVE  Sound'
<1>1. UNCHANGED <<blobOffset, offset, avail, state>> /\ call' = NoCall
  BY DEF Drop, reader
<1>2. ReaderOK'
  BY <1>1, NoCallFields DEF Sound, ReaderOK
<1>3. StateOK'
  BY <1>1, NoCallFields DEF Drop, Sound, StateOK
<1>4. CallOK'
  BY <1>1, NoCallFields DEF CallOK
<1>5. QED
  BY <1>2, <1>3, <1>4 DEF Sound

\* The steps that only change what the ranges and the peer are.
LEMMA SameSound ==
  ASSUME Sound, UNCHANGED <<blobOffset, offset, avail, state, call>>
  PROVE  Sound'
BY DEF Sound, ReaderOK, StateOK, CallOK, InOrder

\* Whatever the reader met, a new one is sound.
LEMMA ReopenSound ==
  ASSUME Reopen
  PROVE  Sound'
<1>1. 0 \in 0..Size /\ 0 \in Int /\ <<>> \in Seq(Piece)
  BY SizeAssumption
<1>2. ReaderOK'
  BY <1>1, DefaultState, NoCallFields DEF Reopen, ReaderOK
<1>3. QED
  BY <1>2, SoundIdle, DefaultState, NoCallFields DEF Reopen

\* A call that fails.
LEMMA FailsSound ==
  ASSUME Sound, EndsCall("err"), blobOffset' = blobOffset, offset' = offset, avail' = avail
  PROVE  Sound'
<1>1. call' \in PollCall /\ call'.pc = "err"
  BY CallFields DEF EndsCall, Sound, ReaderOK, CallPc
<1>2. ReaderOK'
  BY <1>1, DefaultState DEF EndsCall, Sound, ReaderOK
<1>3. QED
  BY <1>1, <1>2, SoundIdle, DefaultState DEF EndsCall

\* A call that ends with what it has.
LEMMA EndsSound ==
  ASSUME Sound, EndsCall("ok"), blobOffset' = blobOffset, offset' = offset, avail' = avail,
         InOrder(call), call.data = <<>> => call.from = Size \/ call.size = 0
  PROVE  Sound'
<1>1. /\ call' \in PollCall /\ call'.pc = "ok"
      /\ call'.data = call.data /\ call'.from = call.from /\ call'.size = call.size
  BY CallFields DEF EndsCall, Sound, ReaderOK, CallPc
<1>2. ReaderOK'
  BY <1>1, DefaultState DEF EndsCall, Sound, ReaderOK
<1>3. StateOK'
  BY DefaultState DEF EndsCall, StateOK
<1>4. CallOK'
  BY <1>1 DEF CallOK, InOrder
<1>5. QED
  BY <1>2, <1>3, <1>4 DEF Sound

\* Nothing is read at the end of the file only.
LEMMA StartSound ==
  ASSUME Sound, Start
  PROVE  Sound'
<1>1. /\ call.pc = "reading" /\ state.pc = "default"
      /\ UNCHANGED <<blobOffset, offset, avail>>
  BY DEF Start, Polled
<1>2. /\ call.data = <<>> /\ InOrder(call) /\ offset = call.from + Len(call.data)
      /\ call.room = call.size - Len(call.data)
  BY <1>1 DEF Sound, CallOK
<1>3. CASE offset >= Size /\ EndsCall("ok")
  <2>1. call.from = Size
    BY <1>2, <1>3, SizeAssumption DEF Sound, ReaderOK, PollCall
  <2>2. QED
    BY <1>1, <1>2, <1>3, <2>1, EndsSound
<1>4. CASE Goto("fill") /\ UNCHANGED call
  <2>1. state' \in PollState /\ state'.pc = "fill"
    BY <1>4, StateFields DEF Goto, Sound, ReaderOK, StatePc
  <2>2. ReaderOK'
    BY <1>1, <1>4, <2>1 DEF Sound, ReaderOK
  <2>3. StateOK'
    BY <1>1, <1>4, <2>1 DEF StateOK
  <2>4. CallOK'
    BY <1>1, <1>2, <1>4, <2>1 DEF CallOK, InOrder
  <2>5. QED
    BY <2>2, <2>3, <2>4 DEF Sound
<1>5. QED
  BY <1>3, <1>4 DEF Start

\* fill ends with the bytes it found, or asks for some.
LEMMA FilledSound ==
  ASSUME Sound, Filled
  PROVE  Sound'
<1>1. /\ call.pc = "reading" /\ state.pc = "fill"
      /\ UNCHANGED <<blobOffset, offset, avail>>
  BY DEF Filled, Polled
<1>2. /\ InOrder(call) /\ offset = call.from + Len(call.data)
      /\ call.room = call.size - Len(call.data)
  BY <1>1 DEF Sound, CallOK
<1>3. CASE call.data # <<>> /\ EndsCall("ok")
  BY <1>1, <1>2, <1>3, EndsSound
<1>4. CASE call.data = <<>> /\ Goto("request") /\ UNCHANGED call
  <2>1. state' \in PollState /\ state'.pc = "request"
    BY <1>4, StateFields DEF Goto, Sound, ReaderOK, StatePc
  <2>2. ReaderOK'
    BY <1>1, <1>4, <2>1 DEF Sound, ReaderOK
  <2>3. StateOK'
    BY <1>1, <1>4, <2>1 DEF StateOK
  <2>4. CallOK'
    BY <1>1, <1>2, <1>4, <2>1 DEF CallOK, InOrder
  <2>5. QED
    BY <2>2, <2>3, <2>4 DEF Sound
<1>5. QED
  BY <1>3, <1>4 DEF Filled

\* A step of a call that has nothing yet.
LEMMA GoesOnSound ==
  ASSUME Sound, call.pc = "reading", state.pc # "fill", UNCHANGED <<offset, call>>,
         ReaderOK', StateOK'
  PROVE  Sound'
BY DEF Sound, CallOK, InOrder

\* The blob is read or asked to seek to where the reader stands.
LEMMA RequestSound ==
  ASSUME Sound, Request
  PROVE  Sound'
<1>1. /\ call.pc = "reading" /\ state.pc = "request"
      /\ UNCHANGED <<blobOffset, offset, avail, call>>
  BY DEF Request, Polled
<1>2. offset \in 0..Size /\ offset \in Int /\ call.size \in Nat
  BY SizeAssumption DEF Sound, ReaderOK, PollCall
<1>3. NextRequest \in Piece
  BY <1>2, RequestIsPiece
<1>4. state' \in PollState /\ StateOK'
  <2>1. CASE ~Readable
    <3>1. PICK r \in Piece : r = NextRequest
      BY <1>3
    <3>2. state' = [Default EXCEPT !.pc = "download", !.range = r]
      BY <2>1, <3>1 DEF Request
    <3>3. state' = [pc |-> "download", goal |-> Default.goal, next |-> Default.next,
                    range |-> r, chunks |-> Default.chunks]
      BY <3>2 DEF Default
    <3>4. QED
      BY <1>1, <3>3, DefaultState DEF StateOK, PollState, StatePc
  <2>2. CASE Readable /\ InPlace
    <3>1. state' = [Default EXCEPT !.pc = "read"]
      BY <2>2 DEF Request
    <3>2. state' \in PollState /\ state'.pc = "read"
      BY <3>1, DefaultState DEF PollState, StatePc
    <3>3. QED
      BY <1>1, <2>2, <3>2 DEF StateOK, InPlace
  <2>3. CASE Readable /\ ~InPlace
    <3>1. state' = [Default EXCEPT !.pc = "seek", !.goal = offset, !.next = "read"]
      BY <2>3 DEF Request
    <3>2. state' = [pc |-> "seek", goal |-> offset, next |-> "read",
                    range |-> Default.range, chunks |-> Default.chunks]
      BY <3>1 DEF Default
    <3>3. QED
      BY <1>1, <1>2, <3>2, DefaultState DEF StateOK, PollState, StatePc
  <2>4. QED
    BY <2>1, <2>2, <2>3
<1>5. ReaderOK'
  BY <1>1, <1>4 DEF Sound, ReaderOK
<1>6. QED
  BY <1>1, <1>4, <1>5, GoesOnSound

\* The blob gets where the reader stands before it is read.
LEMMA SeekBlobSound ==
  ASSUME Sound, SeekBlob
  PROVE  Sound'
<1>1. /\ call.pc = "reading" /\ state.pc = "seek"
      /\ blobOffset' = state.goal /\ UNCHANGED <<offset, avail, call>>
  BY DEF SeekBlob, Polled
<1>2. state.next \in {"read", "write"} /\ state.goal \in Int
  BY DEF Sound, ReaderOK, PollState
<1>3. /\ state' \in PollState /\ state'.pc = state.next
      /\ state'.goal = state.goal /\ state'.chunks = state.chunks
  BY <1>2, StateFields DEF SeekBlob, Goto, Sound, ReaderOK, StatePc
<1>4. ReaderOK'
  BY <1>1, <1>2, <1>3 DEF Sound, ReaderOK
<1>5. StateOK'
  BY <1>1, <1>2, <1>3 DEF Sound, StateOK
<1>6. QED
  BY <1>1, <1>4, <1>5, GoesOnSound

\* Chunks are written while the call has nothing.
LEMMA WritingSound ==
  ASSUME Sound, call.pc = "reading", state.pc # "fill", UNCHANGED <<offset, call>>,
         blobOffset' \in Int, avail' \in Seq(Piece), Writing(state')
  PROVE  Sound'
<1>1. ReaderOK'
  BY DEF Sound, ReaderOK, Writing
<1>2. StateOK'
  BY DEF Writing, StateOK
<1>3. QED
  BY <1>1, <1>2, GoesOnSound

\* What a peer sends is written, however little it is.
LEMMA FinishDownloadSound ==
  ASSUME Sound, remote \in 0..Size, FinishDownload
  PROVE  Sound'
<1>1. /\ call.pc = "reading" /\ state.pc = "download"
      /\ UNCHANGED <<blobOffset, offset, avail, call>>
  BY DEF FinishDownload, Polled
<1>2. state.range \in Piece
  BY DEF Sound, ReaderOK, PollState
<1>3. PICK chunks \in Seq(Piece) : chunks = ChunksOf(state.range)
  BY <1>2, ChunksArePieces
<1>4. state' = WriteState(chunks)
  BY <1>3 DEF FinishDownload
<1>5. Writing(state')
  BY <1>4, WritesNext
<1>6. blobOffset' \in Int /\ avail' \in Seq(Piece)
  BY <1>1 DEF Sound, ReaderOK
<1>7. QED
  BY <1>1, <1>5, <1>6, WritingSound

\* A chunk that was written is kept in memory.
LEMMA WriteBlobSound ==
  ASSUME Sound, WriteBlob
  PROVE  Sound'
<1>1. call.pc = "reading" /\ state.pc = "write" /\ UNCHANGED <<offset, call>>
  BY DEF WriteBlob, Polled
<1>2. state.chunks \in Seq(Piece) /\ state.chunks # <<>>
  BY <1>1 DEF Sound, ReaderOK, StateOK, PollState
<1>3. Head(state.chunks) \in Piece /\ Tail(state.chunks) \in Seq(Piece)
  BY <1>2, HeadTailProperties
<1>4. PICK r \in Piece : r = Head(state.chunks)
  BY <1>3
<1>5. blobOffset' = r.end /\ avail' = Append(avail, r)
  BY <1>4 DEF WriteBlob
<1>6. blobOffset' \in Int /\ avail' \in Seq(Piece)
  BY <1>5 DEF Piece, Sound, ReaderOK
<1>7. state' = WriteState(Tail(state.chunks))
  BY DEF WriteBlob
<1>8. Writing(state')
  BY <1>3, <1>7, WritesNext
<1>9. QED
  BY <1>1, <1>6, <1>8, WritingSound

\* Bytes that follow the ones a call has.
LEMMA RunsOn ==
  ASSUME NEW data \in Seq(Int), NEW from \in Int, NEW at \in Int, NEW n \in Nat,
         at = from + Len(data), \A i \in 1..Len(data) : data[i] = from + i - 1,
         NEW more, more = data \o [i \in 1..n |-> at + i - 1]
  PROVE  /\ more \in Seq(Int) /\ Len(more) = Len(data) + n
         /\ \A i \in 1..Len(more) : more[i] = from + i - 1
<1>1. PICK tail : tail = [i \in 1..n |-> at + i - 1]
  OBVIOUS
<1>2. tail \in Seq(Int) /\ Len(tail) = n
  <2>1. tail \in [1..n -> Int]
    BY <1>1
  <2>2. tail \in Seq(Int)
    BY <2>1
  <2>3. DOMAIN tail = 1..n
    BY <1>1
  <2>4. QED
    BY <2>2, <2>3
<1>3. \A i \in 1..n : tail[i] = at + i - 1
  BY <1>1
<1>4. more = data \o tail
  BY <1>1
<1>5. more \in Seq(Int) /\ Len(more) = Len(data) + n
  BY <1>2, <1>4, ConcatProperties
<1>6. ASSUME NEW i \in 1..Len(more)
      PROVE  more[i] = from + i - 1
  <2>1. Len(data) \in Nat
    OBVIOUS
  <2>2. CASE i <= Len(data)
    <3>1. more[i] = data[i]
      BY <1>2, <1>4, <1>5, <2>1, <2>2
    <3>2. i \in 1..Len(data)
      BY <1>5, <2>1, <2>2
    <3>3. QED
      BY <3>1, <3>2
  <2>3. CASE ~(i <= Len(data))
    <3>1. PICK k \in 1..n : i = Len(data) + k
      <4>1. i - Len(data) \in 1..n
        BY <1>5, <2>1, <2>3
      <4>2. i = Len(data) + (i - Len(data))
        BY <1>5, <2>1
      <4>3. QED
        BY <4>1, <4>2
    <3>2. more[i] = tail[k]
      <4>1. i - Len(data) = k
        BY <2>1, <3>1
      <4>2. i \in 1..Len(data) + Len(tail)
        BY <1>2, <1>5
      <4>3. more[i] = tail[i - Len(data)]
        <5>1. \A j \in 1..Len(data) + Len(tail) :
                 (data \o tail)[j] = IF j <= Len(data) THEN data[j] ELSE tail[j - Len(data)]
          BY <1>2, ConcatProperties, Zenon
        <5>2. (data \o tail)[i] = IF i <= Len(data) THEN data[i] ELSE tail[i - Len(data)]
          BY <4>2, <5>1, Zenon
        <5>3. QED
          BY <1>4, <2>3, <5>2, Zenon
      <4>4. QED
        BY <4>1, <4>3
    <3>3. tail[k] = at + k - 1
      BY <1>3
    <3>4. QED
      BY <2>1, <3>1, <3>2, <3>3
  <2>4. QED
    BY <2>2, <2>3
<1>7. QED
  BY <1>5, <1>6

\* A turn of fill goes on where the last one stopped.
LEMMA FillSound ==
  ASSUME Sound, Fill
  PROVE  Sound'
<1>1. call.pc = "reading" /\ state.pc = "fill" /\ avail # <<>> /\ blobOffset' = blobOffset
  BY DEF Fill, Polled
<1>2. /\ call \in PollCall /\ state \in PollState /\ avail \in Seq(Piece)
      /\ offset \in 0..Size /\ blobOffset \in Int
  BY DEF Sound, ReaderOK
<1>3. PICK front \in Piece : front = Head(avail)
  BY <1>1, <1>2, HeadTailProperties
<1>4. front.start <= offset /\ offset < front.end /\ call.room > 0
  BY <1>3 DEF Fill, Contains
<1>5. /\ Size \in Nat /\ offset \in Int /\ call.room \in Nat /\ call.size \in Nat
      /\ front.end \in Int /\ front.end <= Size /\ call.data \in Seq(Int) /\ call.from \in 0..Size
  BY <1>2, SizeAssumption DEF PollCall, Piece
<1>6. PICK end : end = Least(front.end, offset + call.room)
  OBVIOUS
<1>7. /\ end \in 0..Size /\ end - offset \in Nat /\ end - offset > 0
      /\ end - offset <= call.room
  <2>1. PICK e \in Int, m \in Nat : e = front.end /\ m = call.room
    BY <1>5
  <2>2. PICK o \in Nat : o = offset
    BY <1>2
  <2>3. o < e /\ e <= Size /\ m > 0 /\ Size \in Nat
    BY <1>4, <1>5, <2>1, <2>2
  <2>4. end = IF e < o + m THEN e ELSE o + m
    BY <1>6, <2>1, <2>2 DEF Least
  <2>5. end \in 0..Size /\ end - o \in Nat /\ end - o > 0 /\ end - o <= m
    BY <2>3, <2>4
  <2>6. QED
    BY <2>1, <2>2, <2>5
<1>8. PICK n \in Nat : n = end - offset
  BY <1>7
<1>9. PICK left : left = call.room - n
  OBVIOUS
<1>10. left \in Nat
  BY <1>5, <1>7, <1>8, <1>9
<1>11. PICK more : more = call.data \o [i \in 1..n |-> offset + i - 1]
  OBVIOUS
<1>12. PICK now : now = [call EXCEPT !.room = left, !.data = more]
  OBVIOUS
<1>13. /\ offset' = end
       /\ avail' = IF end < front.end THEN avail ELSE Tail(avail)
       /\ IF end < front.end \/ left = 0
          THEN call' = [now EXCEPT !.pc = "ok"] /\ state' = Default
          ELSE call' = now /\ UNCHANGED state
  BY <1>3, <1>6, <1>8, <1>9, <1>11, <1>12 DEF Fill
<1>14. /\ offset = call.from + Len(call.data) /\ call.room = call.size - Len(call.data)
       /\ \A i \in 1..Len(call.data) : call.data[i] = call.from + i - 1
  BY <1>1 DEF Sound, CallOK, InOrder
<1>15. call.from \in Int
  BY <1>5
<1>16. /\ more \in Seq(Int) /\ Len(more) = Len(call.data) + n
       /\ \A i \in 1..Len(more) : more[i] = call.from + i - 1
  <2>1. PICK data \in Seq(Int), from \in Int : data = call.data /\ from = call.from
    BY <1>5, <1>15
  <2>2. offset = from + Len(data) /\ \A i \in 1..Len(data) : data[i] = from + i - 1
    BY <1>14, <2>1
  <2>3. more = data \o [i \in 1..n |-> offset + i - 1]
    BY <1>11, <2>1
  <2>4. offset \in Int
    BY <1>5
  <2>5. /\ more \in Seq(Int) /\ Len(more) = Len(data) + n
        /\ \A i \in 1..Len(more) : more[i] = from + i - 1
    BY <2>2, <2>3, <2>4, RunsOn
  <2>6. QED
    BY <2>1, <2>5
<1>17. /\ now \in PollCall /\ now.pc = "reading" /\ now.data = more /\ now.room = left
       /\ now.from = call.from /\ now.size = call.size
  <2>1. now = [pc |-> call.pc, room |-> left, from |-> call.from, size |-> call.size, data |-> more]
    BY <1>2, <1>12 DEF PollCall
  <2>2. QED
    BY <1>1, <1>2, <1>10, <1>16, <2>1 DEF PollCall, CallPc
<1>18. Tail(avail) \in Seq(Piece)
  BY <1>1, <1>2, HeadTailProperties
<1>19. avail' \in Seq(Piece)
  BY <1>2, <1>13, <1>18
<1>20. InOrder(now)
  BY <1>16, <1>17 DEF InOrder
<1>21. more # <<>>
  <2>1. Len(more) > 0
    BY <1>5, <1>7, <1>8, <1>16
  <2>2. QED
    BY <2>1
<1>22. CASE end < front.end \/ left = 0
  <2>1. call' = [now EXCEPT !.pc = "ok"] /\ state' = Default
    BY <1>13, <1>22
  <2>2. /\ call' \in PollCall /\ call'.pc = "ok" /\ call'.data = now.data
        /\ call'.from = now.from /\ call'.size = now.size
    BY <1>17, <2>1 DEF PollCall, CallPc
  <2>3. ReaderOK'
    BY <1>1, <1>2, <1>7, <1>13, <1>19, <2>1, <2>2, DefaultState DEF ReaderOK
  <2>4. StateOK'
    BY <2>1, DefaultState DEF StateOK
  <2>5. CallOK'
    BY <1>17, <1>20, <1>21, <2>2 DEF CallOK, InOrder
  <2>6. QED
    BY <2>3, <2>4, <2>5 DEF Sound
<1>23. CASE ~(end < front.end \/ left = 0)
  <2>1. call' = now /\ state' = state
    BY <1>13, <1>23
  <2>2. ReaderOK'
    BY <1>1, <1>2, <1>7, <1>13, <1>17, <1>19, <2>1 DEF ReaderOK
  <2>3. StateOK'
    BY <1>1, <1>17, <2>1 DEF StateOK
  <2>4. end = call.from + Len(more) /\ left = call.size - Len(more)
    <3>1. PICK k \in Nat : k = Len(call.data)
      BY <1>5
    <3>2. PICK m : m = Len(more)
      OBVIOUS
    <3>3. /\ m = k + n /\ offset = call.from + k /\ call.room = call.size - k /\ left = call.room - n
          /\ n = end - offset
      BY <1>8, <1>9, <1>14, <1>16, <3>1, <3>2
    <3>4. end \in Int /\ offset \in Int /\ call.size \in Int
      BY <1>5, <1>7
    <3>5. end = call.from + m /\ left = call.size - m
      BY <1>15, <3>3, <3>4
    <3>6. QED
      BY <3>2, <3>5
  <2>5. offset' = call'.from + Len(call'.data) /\ call'.room = call'.size - Len(call'.data)
    BY <1>13, <1>17, <2>1, <2>4
  <2>6. InOrder(call')
    BY <1>20, <2>1
  <2>7. CallOK'
    BY <1>1, <1>17, <2>1, <2>5, <2>6 DEF CallOK, InOrder
  <2>8. QED
    BY <2>2, <2>3, <2>7 DEF Sound
<1>24. QED
  BY <1>22, <1>23

\* A range of the blob holds the offset it is asked for.
LEMMA ContainingHolds ==
  ASSUME NEW btree, NEW i \in Nat, NEW range \in ContainingRange(btree, i)
  PROVE  range.start \in Nat /\ range.end \in Nat /\ i < range.end
<1>1. PICK u \in LastBefore(btree, i + 1), v \in FirstFrom(btree, i + 1) : range = ByteRange(u, v)
  BY DEF ContainingRange
<1>2. u \in Nat /\ v \in Nat /\ i + 1 <= v
  BY <1>1 DEF LastBefore, FirstFrom
<1>3. QED
  BY <1>1, <1>2 DEF ByteRange

\* What is read of the blob is within the file, and there is something of it
\* unless the reader is at the end or the buffer is full.
LEMMA StretchBounds ==
  ASSUME blobOffset \in 0..Size, call.room \in Nat
  PROVE  /\ \A n \in Stretch : n \in Nat /\ n > 0 /\ blobOffset + n <= Size
         /\ blobOffset < Size /\ call.room > 0 /\ ContainingRange(local, blobOffset) # {} => Stretch # {}
<1>1. Size \in Nat /\ blobOffset \in Nat
  BY SizeAssumption
<1>2. ASSUME NEW range \in ContainingRange(local, blobOffset)
      PROVE  /\ Least(call.room, UpToSize(range.end) - blobOffset) \in Int
             /\ Least(call.room, UpToSize(range.end) - blobOffset) <= Size - blobOffset
             /\ blobOffset < Size /\ call.room > 0 => Least(call.room, UpToSize(range.end) - blobOffset) >= 1
  <2>1. range.end \in Nat /\ blobOffset < range.end
    BY <1>1, ContainingHolds
  <2>2. QED
    BY <1>1, <2>1 DEF Least, UpToSize
<1>3. ASSUME NEW n \in Stretch
      PROVE  n \in Nat /\ n > 0 /\ blobOffset + n <= Size
  <2>1. PICK range \in ContainingRange(local, blobOffset) :
          n \in 1..Least(call.room, UpToSize(range.end) - blobOffset)
    BY DEF Stretch
  <2>2. PICK most : most = Least(call.room, UpToSize(range.end) - blobOffset)
    OBVIOUS
  <2>3. most \in Int /\ most <= Size - blobOffset
    BY <1>2, <2>2
  <2>4. n \in 1..most
    BY <2>1, <2>2
  <2>5. QED
    BY <1>1, <2>3, <2>4
<1>4. ASSUME blobOffset < Size, call.room > 0, ContainingRange(local, blobOffset) # {}
      PROVE  Stretch # {}
  <2>1. PICK range \in ContainingRange(local, blobOffset) : TRUE
    BY <1>4
  <2>2. PICK most : most = Least(call.room, UpToSize(range.end) - blobOffset)
    OBVIOUS
  <2>3. most \in Int /\ most >= 1
    BY <1>2, <1>4, <2>2
  <2>4. 1 \in 1..most
    BY <2>3
  <2>5. 1 \in Stretch
    BY <2>2, <2>4 DEF Stretch
  <2>6. QED
    BY <2>5
<1>5. QED
  BY <1>3, <1>4

\* The blob is read in place, and gives nothing at the end of the file only.
LEMMA ReadBlobSound ==
  ASSUME Sound, ReadBlob
  PROVE  Sound'
<1>1. call.pc = "reading" /\ state.pc = "read" /\ avail' = avail
  BY DEF ReadBlob, Polled
<1>2. /\ call \in PollCall /\ avail \in Seq(Piece) /\ offset \in 0..Size /\ offset \in Int
      /\ blobOffset = offset /\ Size \in Nat
  BY <1>1, SizeAssumption DEF Sound, ReaderOK, StateOK
<1>3. /\ call.data = <<>> /\ call.data \in Seq(Int)
      /\ call.room \in Nat /\ call.size \in Nat /\ call.from \in Int
      /\ offset = call.from + Len(call.data) /\ call.room = call.size - Len(call.data)
      /\ \A i \in 1..Len(call.data) : call.data[i] = call.from + i - 1
  BY <1>1, <1>2 DEF Sound, CallOK, InOrder, PollCall
<1>4. CASE blobOffset < Size /\ call.room > 0 /\ ContainingRange(local, blobOffset) = {}
  <2>1. EndsCall("err") /\ UNCHANGED <<blobOffset, offset>>
    BY <1>4 DEF ReadBlob
  <2>2. QED
    BY <1>1, <2>1, FailsSound
<1>5. CASE ~(blobOffset < Size /\ call.room > 0 /\ ContainingRange(local, blobOffset) = {})
  <2>1. PICK n \in Stretch \cup {0} :
          /\ n = 0 => Stretch = {}
          /\ call' = [call EXCEPT !.pc = "ok", !.data = @ \o [i \in 1..n |-> blobOffset + i - 1]]
          /\ state' = Default
          /\ blobOffset' = blobOffset + n
          /\ offset' = offset + n
    BY <1>5 DEF ReadBlob
  <2>2. \A k \in Stretch : k \in Nat /\ k > 0 /\ blobOffset + k <= Size
    BY <1>2, <1>3, StretchBounds
  <2>3. n \in Nat /\ offset + n \in 0..Size
    BY <1>2, <2>2
  <2>4. PICK more : more = call.data \o [i \in 1..n |-> offset + i - 1]
    OBVIOUS
  <2>5. /\ more \in Seq(Int) /\ Len(more) = Len(call.data) + n
        /\ \A i \in 1..Len(more) : more[i] = call.from + i - 1
    BY <1>2, <1>3, <2>3, <2>4, RunsOn
  <2>6. call' = [call EXCEPT !.pc = "ok", !.data = more]
    BY <1>2, <2>1, <2>4
  <2>7. call' = [pc |-> "ok", room |-> call.room, from |-> call.from, size |-> call.size, data |-> more]
    BY <1>2, <2>6 DEF PollCall
  <2>8. call' \in PollCall
    BY <1>2, <2>5, <2>7 DEF PollCall, CallPc
  <2>9. ReaderOK'
    BY <1>1, <1>2, <2>1, <2>3, <2>8, DefaultState DEF ReaderOK
  <2>10. StateOK'
    BY <2>1, DefaultState DEF StateOK
  <2>11. ASSUME more = <<>> PROVE call.from = Size \/ call.size = 0
    <3>1. Len(call.data) = 0 /\ n = 0
      BY <1>3, <2>3, <2>5, <2>11
    <3>2. Stretch = {}
      BY <2>1, <3>1
    <3>3. ~(blobOffset < Size) \/ ~(call.room > 0)
      BY <1>2, <1>3, <1>5, <3>2, StretchBounds
    <3>4. QED
      BY <1>2, <1>3, <3>1, <3>3
  <2>12. CallOK'
    BY <2>5, <2>7, <2>11 DEF CallOK, InOrder
  <2>13. QED
    BY <2>9, <2>10, <2>12 DEF Sound
<1>6. QED
  BY <1>4, <1>5

\* Every step of a reader that met nothing.
LEMMA PollSound ==
  ASSUME Sound, remote \in 0..Size, Poll
  PROVE  Sound'
BY StartSound, FillSound, FilledSound, RequestSound, SeekBlobSound, ReadBlobSound,
   FinishDownloadSound, WriteBlobSound DEF Poll

\* One case per operation of the caller, the peer, the database and the poll.
LEMMA ReaderStep ==
  ASSUME ReaderInv, [ReaderNext]_readerVars
  PROVE  ReaderInv'
<1>1. remote \in 0..Size /\ resumed \in BOOLEAN /\ (~resumed => Sound)
  BY DEF ReaderInv, Sound
<1>2. CASE UNCHANGED readerVars
  BY <1>2, <1>1, SameSound DEF readerVars, reader, ReaderInv, Sound
<1>3. CASE ReaderNext
  <2>1. ASSUME NEW goal \in 0..Size, Seek(goal) PROVE ReaderInv'
    <3>1. remote' = remote /\ resumed' \in BOOLEAN /\ (~resumed' => ~resumed)
      BY <1>1, <2>1 DEF Seek, Pending, Unrelated
    <3>2. QED
      BY <1>1, <2>1, <3>1, SeekSound DEF ReaderInv, Sound
  <2>2. ASSUME NEW n \in BufSize, Read(n) PROVE ReaderInv'
    <3>1. remote' = remote /\ resumed' = resumed
      BY <2>2 DEF Read
    <3>2. QED
      BY <1>1, <2>2, <3>1, ReadSound DEF ReaderInv, Sound
  <2>3. CASE Drop
    <3>1. remote' = remote /\ resumed' = resumed
      BY <2>3 DEF Drop
    <3>2. QED
      BY <1>1, <2>3, <3>1, DropSound DEF ReaderInv, Sound
  <2>4. ASSUME NEW n \in 0..Size, Truncate(n) PROVE ReaderInv'
    <3>1. remote' \in 0..Size /\ resumed' = resumed /\ UNCHANGED <<blobOffset, offset, avail, state, call>>
      BY <2>4 DEF Truncate, reader
    <3>2. QED
      BY <1>1, <3>1, SameSound DEF ReaderInv, Sound
  <2>5. CASE UpdateDb
    <3>1. remote' = remote /\ resumed' = resumed /\ UNCHANGED <<blobOffset, offset, avail, state, call>>
      BY <2>5 DEF UpdateDb
    <3>2. QED
      BY <1>1, <3>1, SameSound DEF ReaderInv, Sound
  <2>6. CASE Reopen
    <3>1. remote' = remote /\ resumed' \in BOOLEAN
      BY <2>6 DEF Reopen
    <3>2. QED
      BY <1>1, <2>6, <3>1, ReopenSound DEF ReaderInv, Sound
  <2>7. ASSUME NEW n \in 1..Size, DownloadJob(n) PROVE ReaderInv'
    <3>1. remote' = remote /\ resumed' = resumed /\ UNCHANGED <<blobOffset, offset, avail, state, call>>
      BY <2>7 DEF DownloadJob
    <3>2. QED
      BY <1>1, <3>1, SameSound DEF ReaderInv, Sound
  <2>8. CASE Poll
    <3>1. remote' = remote /\ resumed' = resumed
      BY <2>8 DEF Poll, Start, Fill, Filled, Request, SeekBlob, ReadBlob, FinishDownload, WriteBlob
    <3>2. QED
      BY <1>1, <2>8, <3>1, PollSound DEF ReaderInv, Sound
  <2>9. CASE PollFails
    <3>1. /\ remote' = remote /\ resumed' = resumed /\ EndsCall("err")
          /\ blobOffset' = blobOffset /\ offset' = offset /\ avail' = avail
      BY <2>9 DEF PollFails
    <3>2. QED
      BY <1>1, <3>1, FailsSound DEF ReaderInv, Sound
  <2>10. QED
    BY <1>3, <2>1, <2>2, <2>3, <2>4, <2>5, <2>6, <2>7, <2>8, <2>9 DEF ReaderNext
<1>4. QED
  BY <1>2, <1>3

\* What poll_read gives a caller are the bytes of the file from where the reader
\* stood, in order, and it gives none only at the end of the file or into an
\* empty buffer: for any sizes, however the bytes are spread over memory, blob
\* and peer, whatever the blob and the peer's file hold and whatever reads were
\* dropped, as long as no seek lands in what one had asked for.
THEOREM BytesInOrder == ReaderSpec => []ReadsInPlace
<1>1. ReaderInv => ReadsInPlace
  BY DEF ReaderInv, Sound, CallOK, InOrder, ReadsInPlace
<1>2. QED
  BY SoundAtFirst, ReaderStep, <1>1, PTL DEF ReaderSpec
===============================================================================
