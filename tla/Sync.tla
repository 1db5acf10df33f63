--------------------------------- MODULE Sync ---------------------------------
(***************************************************************************)
(* How a peer's cache follows the indexes of the other peers: each index,  *)
(* the notifier that turns its history into notifications (notifier.rs),   *)
(* the subscription that carries them in batches (realize-core,            *)
(* rpc/household.rs), and the cache that applies them.                     *)
(*                                                                         *)
(* One household subscribes to every peer of Peer.  Connections break and  *)
(* are made again; a broken connection may leave a batch behind that the   *)
(* subscriber goes on applying.                                            *)
(***************************************************************************)
EXTENDS Index, ArenaCache

CONSTANTS
  ChannelSize,   \* capacity of a notifier's channel (100 in the code)
  BatchMax,      \* notifications sent in one call (25 in the code)
  MaxDisconnects, \* bound on broken connections
  MaxLeftovers   \* bound on those that leave a batch behind

ASSUME ChannelAssumption == ChannelSize \in Nat \ {0} /\ BatchMax \in Nat \ {0}
ASSUME DisconnectsAssumption == MaxDisconnects \in Nat /\ MaxLeftovers \in Nat

VARIABLES
  uuid,         \* identity of each index
  notifier,     \* local state of each notifier::subscribe task
  channel,      \* notifications sent and not yet put in a batch
  batch,        \* batch of the current connection, yet to be applied
  leftover,     \* batch of a broken connection, yet to be applied
  disconnects   \* broken connections so far, for the bound only

syncVars == <<uuid, notifier, channel, batch, leftover, disconnects>>
vars == <<indexVars, cacheVars, syncVars>>

\* The local variables of subscribe: lastSeen and current bound the history
\* entries it sends, next is the entry it is at and files what is left of
\* all_files during a catchup.  A subscriber asks with its progress (lastSeen
\* of the index identity).
NoNotifier == [pc |-> "off", lastSeen |-> 0, identity |-> 0, current |-> 0,
               next |-> 0, files |-> {}]

NotifierState ==
  [pc : {"off", "asked", "catchup", "files", "send", "wait"},
   lastSeen : 0..MaxHistory, identity : 0..MaxUuid, current : 0..MaxHistory,
   next : 0..MaxHistory + 1, files : SUBSET (Path \X Hash)]

TypeOK ==
  /\ IndexTypeOK
  /\ CacheTypeOK
  /\ uuid \in [Peer -> 1..MaxUuid]
  /\ notifier \in [Peer -> NotifierState]
  /\ channel \in [Peer -> Seq(Notification)]
  /\ \A q \in Peer : Len(channel[q]) <= ChannelSize
  /\ batch \in [Peer -> Seq(Notification)]
  /\ leftover \in [Peer -> Seq(Notification)]
  /\ disconnects \in 0..MaxDisconnects

Init ==
  /\ IndexInit
  /\ CacheInit
  /\ uuid = [q \in Peer |-> 1]
  /\ notifier = [q \in Peer |-> NoNotifier]
  /\ channel = [q \in Peer |-> <<>>]
  /\ batch = [q \in Peer |-> <<>>]
  /\ leftover = [q \in Peer |-> <<>>]
  /\ disconnects = 0

-----------------------------------------------------------------------------
(* The subscription *)

\* subscribe_self reads the progress recorded in the cache and asks for the
\* notifications that follow.
Subscribe(q) ==
  /\ notifier[q].pc = "off"
  /\ notifier' = [notifier EXCEPT ![q] =
       [NoNotifier EXCEPT !.pc = "asked", !.lastSeen = seen[q], !.identity = known[q]]]
  /\ UNCHANGED <<indexVars, cacheVars, uuid, channel, batch, leftover, disconnects>>

\* mutant: the channel is unbounded
SendAnyway(q, n) == channel' = [channel EXCEPT ![q] = Append(@, n)]

\* tx.send, which waits for room in the channel.
Send(q, n) ==
  /\ Len(channel[q]) < ChannelSize
  /\ channel' = [channel EXCEPT ![q] = Append(@, n)]

\* The first entry of the history to send.
SkipOne(lastSeen) == lastSeen + 2                                \* mutant
FirstUnseen(lastSeen) == lastSeen + 1

\* Whether to report all the files rather than the changes since lastSeen.
NeedsCatchup(lastSeen, current) == lastSeen = 0 /\ current > 0

\* notifier::subscribe up to the point where it knows what to send.
StartNotifier(q) ==
  LET lastSeen == IF notifier[q].identity = uuid[q] THEN notifier[q].lastSeen ELSE 0
  IN /\ notifier[q].pc = "asked"
     /\ Send(q, Signal("Connected", 0, uuid[q]))
     /\ notifier' = [notifier EXCEPT ![q] = [@ EXCEPT
          !.pc = IF NeedsCatchup(lastSeen, watch[q]) THEN "catchup" ELSE "send",
          !.lastSeen = lastSeen,
          !.current = watch[q],
          !.next = FirstUnseen(lastSeen)]]
     /\ signalled' = signalled \ {q}
     /\ UNCHANGED <<index, history, watch, hook, drops, cacheVars, uuid, batch, leftover,
                    disconnects>>

\* catchup: CatchupStart, and all_files reads the files in one transaction.
StartCatchup(q) ==
  /\ notifier[q].pc = "catchup"
  /\ Send(q, Signal("CatchupStart", 0, 0))
  /\ notifier' = [notifier EXCEPT ![q] = [@ EXCEPT
       !.pc = "files",
       !.files = {f \in Path \X Hash : index[q][f[1]] = f[2]}]]
  /\ UNCHANGED <<indexVars, cacheVars, uuid, batch, leftover, disconnects>>

\* catchup: one Catchup per file.
SendCatchup(q) ==
  /\ notifier[q].pc = "files"
  /\ \E f \in notifier[q].files :
       /\ Send(q, About("Catchup", f[1], f[2], None, 0))
       /\ notifier' = [notifier EXCEPT ![q] = [@ EXCEPT !.files = notifier[q].files \ {f}]]
  /\ UNCHANGED <<indexVars, cacheVars, uuid, batch, leftover, disconnects>>

\* catchup: CatchupComplete.
EndCatchup(q) ==
  /\ notifier[q].pc = "files"
  /\ notifier[q].files = {}
  /\ Send(q, Signal("CatchupComplete", notifier[q].current, 0))
  /\ notifier' = [notifier EXCEPT ![q] = [@ EXCEPT !.pc = "wait", !.lastSeen = notifier[q].current]]
  /\ UNCHANGED <<indexVars, cacheVars, uuid, batch, leftover, disconnects>>

\* send_notifications: what an entry of the history becomes depends on what
\* the index holds now, not on what it held then.
Notify(q, i) ==
  LET e == history[q][i]
      h == index[q][e.path]
  IN CASE e.kind = "Add" /\ h # None                      -> {About("Add", e.path, h, e.old, i)}
       [] e.kind \in {"Replace", "Remove"} /\ h # None    -> {About("Replace", e.path, h, e.old, i)}
       [] e.kind \in {"Replace", "Remove"} /\ h = None    -> {About("Remove", e.path, None, e.old, i)}
       [] e.kind = "Drop" /\ h = None                     -> {About("Drop", e.path, None, e.old, i)}
       [] OTHER                                           -> {}

\* send_notifications: the next entry of the history.
SendNotification(q) ==
  LET i == notifier[q].next
  IN /\ notifier[q].pc = "send"
     /\ i <= notifier[q].current
     /\ IF Notify(q, i) = {} THEN UNCHANGED channel
                             ELSE \E n \in Notify(q, i) : Send(q, n)
     /\ notifier' = [notifier EXCEPT ![q] = [@ EXCEPT !.next = i + 1]]
     /\ UNCHANGED <<indexVars, cacheVars, uuid, batch, leftover, disconnects>>

\* The end of send_notifications.
NotificationsSent(q) ==
  /\ notifier[q].pc = "send"
  /\ notifier[q].next > notifier[q].current
  /\ notifier' = [notifier EXCEPT ![q] = [@ EXCEPT !.pc = "wait", !.lastSeen = notifier[q].current]]
  /\ UNCHANGED <<indexVars, cacheVars, uuid, channel, batch, leftover, disconnects>>

\* watch_rx.changed()
HistoryChanged(q) ==
  /\ notifier[q].pc = "wait"
  /\ q \in signalled
  /\ signalled' = signalled \ {q}
  /\ notifier' = [notifier EXCEPT ![q] = [@ EXCEPT
       !.pc = "send", !.current = watch[q], !.next = FirstUnseen(notifier[q].lastSeen)]]
  /\ UNCHANGED <<index, history, watch, hook, drops, cacheVars, uuid, channel, batch,
                 leftover, disconnects>>

\* do_subscribe: recv_many, once the previous call has returned.
SendBatch(q) ==
  LET size == IF Len(channel[q]) < BatchMax THEN Len(channel[q]) ELSE BatchMax
  IN /\ channel[q] # <<>>
     /\ batch[q] = <<>>
     /\ batch' = [batch EXCEPT ![q] = SubSeq(channel[q], 1, size)]
     /\ channel' = [channel EXCEPT ![q] = SubSeq(@, size + 1, Len(@))]
     /\ UNCHANGED <<indexVars, cacheVars, uuid, notifier, leftover, disconnects>>

\* What is left of a batch once its first notification was handled: an error
\* ends the task that applies the batch.
AfterUpdate(b) == IF Fails(Head(b)) THEN <<>> ELSE Tail(b)

\* do_notify: the task that applies a batch.
ApplyNotification(q) ==
  /\ batch[q] # <<>>
  /\ Update(q, Head(batch[q]))
  /\ batch' = [batch EXCEPT ![q] = AfterUpdate(@)]
  /\ UNCHANGED <<indexVars, uuid, notifier, channel, leftover, disconnects>>

\* do_notify: the same for a connection that is no more.
ApplyLeftover(q) ==
  /\ leftover[q] # <<>>
  /\ Update(q, Head(leftover[q]))
  /\ leftover' = [leftover EXCEPT ![q] = AfterUpdate(@)]
  /\ UNCHANGED <<indexVars, uuid, notifier, channel, batch, disconnects>>

\* The connection breaks, be it because the peer restarts.  The task that
\* applies the batch goes on, if it has the batch and its process lives.
Disconnect(q) ==
  /\ notifier[q].pc # "off"
  /\ disconnects < MaxDisconnects
  /\ UNCHANGED indexVars \/ ReopenIndex(q)
  /\ \/ UNCHANGED leftover
     \/ /\ leftover[q] = <<>>
        /\ disconnects < MaxLeftovers
        /\ leftover' = [leftover EXCEPT ![q] = batch[q]]
  /\ notifier' = [notifier EXCEPT ![q] = NoNotifier]
  /\ channel' = [channel EXCEPT ![q] = <<>>]
  /\ batch' = [batch EXCEPT ![q] = <<>>]
  /\ disconnects' = disconnects + 1
  /\ UNCHANGED <<cacheVars, uuid>>

\* A peer's database is lost and its index rebuilt under a new identity.
RebuildIndex(q) ==
  /\ notifier[q].pc = "off"
  /\ uuid[q] < MaxUuid
  /\ uuid' = [uuid EXCEPT ![q] = @ + 1]
  /\ CreateIndex(q)
  /\ UNCHANGED <<cacheVars, notifier, channel, batch, leftover, disconnects>>

\* The notifier task.
Notifier(q) ==
  \/ StartNotifier(q)
  \/ StartCatchup(q)
  \/ SendCatchup(q)
  \/ EndCatchup(q)
  \/ SendNotification(q)
  \/ NotificationsSent(q)
  \/ HistoryChanged(q)

\* The peer's index, and what it leaves alone.
ChangeIndex(q) == IndexChange(q) /\ UNCHANGED <<cacheVars, syncVars>>
RunCallback(q, w) == AfterCommit(q, w) /\ UNCHANGED <<cacheVars, syncVars>>

Next ==
  \E q \in Peer :
    \/ ChangeIndex(q)
    \/ \E w \in Writer : RunCallback(q, w)
    \/ Subscribe(q)
    \/ Notifier(q)
    \/ SendBatch(q)
    \/ ApplyNotification(q)
    \/ ApplyLeftover(q)
    \/ Disconnect(q)
    \/ RebuildIndex(q)

Spec == Init /\ [][Next]_vars

\* Callbacks of committed transactions run, a lost connection is made again,
\* tasks are polled, calls are delivered.
Fairness ==
  \A q \in Peer :
    /\ \A w \in Writer : WF_vars(RunCallback(q, w))
    /\ WF_vars(Subscribe(q))
    /\ WF_vars(Notifier(q))
    /\ WF_vars(SendBatch(q))
    /\ WF_vars(ApplyNotification(q))
    /\ WF_vars(ApplyLeftover(q))

FairSpec == Spec /\ Fairness

-----------------------------------------------------------------------------

\* Nothing is on its way from q: its notifier has seen every callback and
\* every notification has been applied.
Quiet(q) ==
  /\ notifier[q].pc = "wait"
  /\ q \notin signalled
  /\ \A w \in Writer : hook[q][w] = 0
  /\ channel[q] = <<>>
  /\ batch[q] = <<>>
  /\ leftover[q] = <<>>

InSync(q) == \A p \in Path : entry[p][q] = index[q][p]

\* Whenever nothing is on its way from a peer, the cache holds exactly the
\* files of that peer's index, although notifications report what the index
\* holds when they are sent and not when the change was made.
QuietMeansInSync == \A q \in Peer : Quiet(q) => InSync(q)

\* The progress kept for a peer says no more than the peer's history holds, so
\* that the subscriber misses nothing when it subscribes again, even when the
\* peer's index was rebuilt under another identity in the meantime.
ProgressMeaningful ==
  \A q \in Peer : known[q] = uuid[q] => seen[q] <= Len(history[q])

\* As long as no connection has broken, whatever two peers add, replace, remove
\* and drop in whatever order, the version the cache shows is one some peer has
\* (ArenaCache.DefaultAvailable).  A broken connection hides removals until the
\* catchup that follows it.
ShownIsAvailable == disconnects = 0 => DefaultAvailable

\* Once the indexes stop changing, the cache catches up for good.
EventuallyInSync == <>[](\A q \in Peer : InSync(q))

-----------------------------------------------------------------------------
(* The inductive invariant behind ShownIsAvailable. *)

\* What is on its way from q, in the order it will be applied.
InFlight(q) == batch[q] \o channel[q]

\* The cache has not been told of p by q, nor is it about to be.
Untold(q, p) ==
  /\ entry[p][q] = None
  /\ \A i \in DOMAIN InFlight(q) : InFlight(q)[i].path # p

\* A Catchup is the first the cache is told of a file.
CatchupIsFirst(q) ==
  LET s == InFlight(q)
  IN \A i \in DOMAIN s : s[i].kind = "Catchup" =>
       /\ entry[s[i].path][q] = None
       /\ \A j \in 1..(i - 1) : s[j].path # s[i].path

\* The first connection to q.
FirstConnection(q) ==
  /\ leftover[q] = <<>>
  /\ notifier[q].pc \in {"off", "asked", "catchup"} => \A p \in Path : Untold(q, p)
  /\ notifier[q].pc = "files" =>
       \A f \in notifier[q].files : /\ Untold(q, f[1])
                                    /\ \A g \in notifier[q].files : f[1] = g[1] => f = g
  /\ CatchupIsFirst(q)

FirstInv == disconnects = 0 => DefaultAvailable /\ \A q \in Peer : FirstConnection(q)

-----------------------------------------------------------------------------
(* The inductive invariant behind QuietMeansInSync. *)

\* The last entry of q's history the notifier has dealt with.
Sent(q) ==
  CASE notifier[q].pc = "wait" -> notifier[q].lastSeen
    [] notifier[q].pc = "send" -> notifier[q].next - 1
    [] OTHER                   -> notifier[q].current

\* The version v of p is the one q has, or some later entry of its history
\* replaces it: k entries have been dealt with.
Since(q, p, v, k) ==
  \/ v = index[q][p]
  \/ \E j \in (k + 1)..Len(history[q]) : history[q][j].path = p /\ history[q][j].old = v

\* The same, when some of the entries dealt with are on their way, after the
\* first i of those.
Changes == {"Add", "Replace", "Remove"}
Accounted(q, p, v, i) ==
  \/ Since(q, p, v, Sent(q))
  \/ \E j \in DOMAIN InFlight(q) :
       /\ j > i
       /\ InFlight(q)[j].kind \in Changes
       /\ InFlight(q)[j].path = p
       /\ InFlight(q)[j].old = v

\* A catchup is to be sent or to be applied; it has begun to be applied.
InCatchup(q) ==
  \/ notifier[q].pc \in {"catchup", "files"}
  \/ \E i \in DOMAIN InFlight(q) : InFlight(q)[i].kind = "CatchupComplete"
Begun(q) == \A i \in DOMAIN InFlight(q) : InFlight(q)[i].kind # "CatchupStart"

\* A Catchup about p is to be sent or to be applied.
Awaited(q, p) ==
  \/ notifier[q].pc = "files" /\ \E f \in notifier[q].files : f[1] = p
  \/ \E i \in DOMAIN InFlight(q) : InFlight(q)[i].kind = "Catchup" /\ InFlight(q)[i].path = p

\* What the catchup leaves of a file that is not awaited.
Left(q, p) == IF ~Begun(q) \/ <<q, p>> \in marked THEN None ELSE entry[p][q]

\* With one writer, the watch goes up with the history; a file is first added,
\* and without drops it only goes away by a Remove.
WatchFollows(q) ==
  /\ \A w \in Writer : hook[q][w] \in {0, Len(history[q])}
  /\ (\A w \in Writer : hook[q][w] = 0) => watch[q] = Len(history[q])
  /\ \A p \in Path : Since(q, p, None, 0)
  /\ \A j \in DOMAIN history[q] : /\ history[q][j].kind # "Drop"
                                  /\ history[q][j].kind = "Add" => history[q][j].old = None

\* The notifier is where the watch was, and is told when it moves.
NotifierFollows(q) ==
  LET st == notifier[q]
  IN /\ seen[q] <= watch[q]
     /\ st.pc \in {"off", "asked"} => InFlight(q) = <<>>
     /\ st.pc = "asked" => st.lastSeen = seen[q] /\ st.identity = known[q]
     /\ st.pc \notin {"off", "asked"} =>
          /\ st.current <= watch[q]
          /\ q \notin signalled => st.current = watch[q]
          /\ seen[q] <= Sent(q) /\ Sent(q) <= st.current
     /\ st.pc = "wait" => st.lastSeen = st.current
     /\ st.pc \in {"catchup", "files"} => st.current > 0

\* What is on its way from q is what its history says, in that order, and
\* gives a version that is accounted for.
Indexed == Changes \cup {"CatchupComplete"}
FlightRight(q) ==
  LET s == InFlight(q)
  IN /\ Len(batch[q]) <= 1
     /\ leftover[q] = <<>>
     /\ \A i \in DOMAIN s : s[i].kind \in Changes =>
          /\ history[q][s[i].index].path = s[i].path
          /\ history[q][s[i].index].old = s[i].old
          /\ s[i].kind = "Add" => s[i].old = None
          /\ s[i].kind = "Remove" => s[i].hash = None
     /\ \A i \in DOMAIN s : s[i].kind \in Indexed => s[i].index \in (seen[q] + 1)..Sent(q)
     /\ \A i, j \in DOMAIN s : i < j /\ s[i].kind \in Indexed /\ s[j].kind \in Indexed
                                => s[i].index < s[j].index
     /\ \A i \in DOMAIN s : s[i].kind \in Changes \cup {"Catchup"}
                                => Accounted(q, s[i].path, s[i].hash, i)

\* A connection starts with Connected, then comes the catchup if there is one.
Phase(n) ==
  CASE n.kind = "Connected"       -> 0
    [] n.kind = "CatchupStart"    -> 1
    [] n.kind = "Catchup"         -> 2
    [] n.kind = "CatchupComplete" -> 3
    [] OTHER                      -> 4

FlightOrder(q) ==
  LET s == InFlight(q)
  IN /\ \A i \in DOMAIN s : s[i].kind # "Drop" /\ (s[i].kind = "Connected" => s[i].uuid = uuid[q])
     /\ \A i, j \in DOMAIN s : i < j => /\ Phase(s[i]) <= Phase(s[j])
                                        /\ Phase(s[i]) = 3 => Phase(s[j]) = 4
     /\ known[q] # uuid[q] => /\ seen[q] = 0
                              /\ notifier[q].pc \notin {"off", "asked"} =>
                                   1 \in DOMAIN s /\ s[1].kind = "Connected"
     /\ notifier[q].pc = "catchup" => \A i \in DOMAIN s : Phase(s[i]) = 0
     /\ notifier[q].pc = "files" => \A i \in DOMAIN s : Phase(s[i]) <= 2

\* The cache holds what q has but for what is on its way; before the end of a
\* catchup, it is bound to.
CacheFollows(q) ==
  /\ watch[q] = 0 => /\ \A p \in Path : entry[p][q] = None
                     /\ \A i \in DOMAIN InFlight(q) : InFlight(q)[i].kind = "Connected"
  /\ notifier[q].pc \in {"off", "asked"} /\ seen[q] # 0 =>
       \A p \in Path : Since(q, p, entry[p][q], seen[q])
  /\ notifier[q].pc \notin {"off", "asked"} /\ ~InCatchup(q) =>
       \A p \in Path : Accounted(q, p, entry[p][q], 0)
  /\ InCatchup(q) => seen[q] = 0
  /\ InCatchup(q) /\ notifier[q].pc # "catchup" =>
       \A p \in Path : Awaited(q, p) \/ Accounted(q, p, Left(q, p), 0)
  /\ notifier[q].pc = "files" =>
       \A f \in notifier[q].files : Since(q, f[1], f[2], Sent(q))

PeerFollowed(q) ==
  WatchFollows(q) /\ NotifierFollows(q) /\ FlightRight(q) /\ FlightOrder(q) /\ CacheFollows(q)

QuietInv == \A q \in Peer : PeerFollowed(q)

=============================================================================
