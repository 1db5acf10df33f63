---------------------------- MODULE MoveDirsProofs ----------------------------
(***************************************************************************)
(* Proofs about MoveDirs, for files of any size, any blocks and any number *)
(* of failures, repeated requests and changes of the source.               *)
(***************************************************************************)
EXTENDS MoveDirs, SequenceTheorems, WellFoundedInduction, TLAPS

USE MoveAssumption

\* The theorem is about one mover: two movers of one file may undo each other's
\* calls between the comparison of the hashes and the deletion.
OneMover == \E m : Mover = {m}
-----------------------------------------------------------------------------
(* Stores. *)

\* A content is a sequence of blocks.
LEMMA ContentSeq ==
  ASSUME NEW c \in Content
  PROVE  c \in Seq(Block) /\ Len(c) \in 0..MaxSize /\ c \in [1..Len(c) -> Block]
<1>1. PICK n \in 0..MaxSize : c \in [1..n -> Block]
  BY DEF Content
<1>2. c \in Seq(Block) /\ Len(c) = n
  BY <1>1
<1>3. QED
  BY <1>1, <1>2

\* A sequence of blocks of a bounded length is a content.
LEMMA SeqContent ==
  ASSUME NEW n \in 0..MaxSize, NEW c \in [1..n -> Block]
  PROVE  c \in Content /\ Len(c) = n
<1>1. c \in Seq(Block) /\ Len(c) = n
  OBVIOUS
<1>2. QED
  BY <1>1 DEF Content

\* What is read of a file is a block.
LEMMA ReadBlock ==
  ASSUME NEW f \in Content \cup {None}, NEW i \in 1..MaxSize
  PROVE  ReadPadded(f, i) \in Block
<1>1. CASE f # None /\ i <= Len(f)
  <2>1. f \in [1..Len(f) -> Block] /\ Len(f) \in 0..MaxSize
    BY <1>1, ContentSeq
  <2>2. QED
    BY <1>1, <2>1 DEF ReadPadded
<1>2. CASE ~(f # None /\ i <= Len(f))
  BY <1>2 DEF ReadPadded, Block
<1>3. QED
  BY <1>1, <1>2

\* A write makes a file long enough, and no longer.
LEMMA WriteContent ==
  ASSUME NEW f \in Content, NEW i \in 1..MaxSize, NEW v \in Block
  PROVE  WriteAt(f, i, v) \in Content /\ Len(WriteAt(f, i, v)) = Larger(Len(f), i)
<1>1. Len(f) \in 0..MaxSize
  BY ContentSeq
<1>2. Larger(Len(f), i) \in 0..MaxSize
  BY <1>1 DEF Larger
<1>3. \A j \in 1..Larger(Len(f), i) : ReadPadded(f, j) \in Block
  BY <1>2, ReadBlock
<1>4. WriteAt(f, i, v) \in [1..Larger(Len(f), i) -> Block]
  BY <1>3 DEF WriteAt
<1>5. QED
  BY <1>2, <1>4, SeqContent

\* A file that is opened to be written is there.
LEMMA OpenContent ==
  ASSUME NEW f \in Content \cup {None}
  PROVE  OpenForWrite(f) \in Content /\ (f = None => Len(OpenForWrite(f)) = 0)
<1>1. <<>> \in Seq(Block) /\ Len(<<>>) = 0
  OBVIOUS
<1>2. <<>> \in Content
  <2>1. \A c \in Seq(Block) : Len(c) = 0 => c \in [1..0 -> Block]
    BY LenProperties
  <2>2. 0 \in 0..MaxSize
    OBVIOUS
  <2>3. \A c \in Seq(Block) : Len(c) = 0 => c \in Content
    BY <2>1, <2>2, SeqContent
  <2>4. QED
    BY <1>1, <2>3
<1>3. QED
  BY <1>1, <1>2 DEF OpenForWrite

\* A truncation makes a file short enough.
LEMMA TruncateContent ==
  ASSUME NEW f \in Content, NEW n \in 0..MaxSize
  PROVE  /\ SubSeq(f, 1, Smaller(n, Len(f))) \in Content
         /\ Len(SubSeq(f, 1, Smaller(n, Len(f)))) <= n
<1> DEFINE k == Smaller(n, Len(f))
<1>1. f \in Seq(Block) /\ Len(f) \in 0..MaxSize
  BY ContentSeq
<1>2. k \in 0..MaxSize /\ k <= Len(f) /\ k <= n
  BY <1>1 DEF Smaller
<1>3. SubSeq(f, 1, k) \in Seq(Block) /\ Len(SubSeq(f, 1, k)) = k
  BY <1>1, <1>2
<1>4. SubSeq(f, 1, k) \in [1..k -> Block]
  BY <1>3, LenProperties
<1>5. QED
  BY <1>2, <1>4, SeqContent

\* The calls leave a store, in which no call writes past the size it is given.
Fits(st, n) == Resolve(st) = None \/ Len(Resolve(st)) <= n

LEMMA SendStore ==
  ASSUME NEW st \in Store, NEW i \in 1..MaxSize, NEW v \in Block
  PROVE  /\ Send(st, i, v) \in Store
         /\ \A n \in 0..MaxSize : Fits(st, n) /\ i <= n => Fits(Send(st, i, v), n)
<1> DEFINE f == OpenForWrite(st.partial)
           w == WriteAt(f, i, v)
<1>1. st.final \in Content \cup {None} /\ st.partial \in Content \cup {None}
  BY DEF Store
<1>2. f \in Content /\ (st.partial = None => Len(f) = 0) /\ (st.partial # None => f = st.partial)
  BY <1>1, OpenContent DEF OpenForWrite
<1>3. w \in Content /\ Len(w) = Larger(Len(f), i)
  BY <1>2, WriteContent
<1>4. Send(st, i, v) = [final |-> st.final, partial |-> w]
  BY DEF Send, Store
<1>5. Send(st, i, v) \in Store
  BY <1>1, <1>3, <1>4 DEF Store
<1>6. ASSUME NEW n \in 0..MaxSize, Fits(st, n), i <= n PROVE Fits(Send(st, i, v), n)
  <2>1. Resolve(Send(st, i, v)) = w
    BY <1>3, <1>4 DEF Resolve
  <2>2. Len(f) \in 0..MaxSize
    BY <1>2, ContentSeq
  <2>3. Len(f) <= n
    BY <1>2, <1>6, <2>2 DEF Fits, Resolve
  <2>4. QED
    BY <1>3, <1>6, <2>1, <2>2, <2>3 DEF Fits, Larger
<1>7. QED
  BY <1>5, <1>6

LEMMA ApplyStore ==
  ASSUME NEW st \in Store, NEW i \in 1..MaxSize, NEW b, NEW v \in Block
  PROVE  /\ ApplyDelta(st, i, b, v) \in Store
         /\ \A n \in 0..MaxSize : Fits(st, n) /\ i <= n => Fits(ApplyDelta(st, i, b, v), n)
<1>1. CASE AppliesTo(st, i, b)
  <2>1. ApplyDelta(st, i, b, v) = Send(st, i, v)
    BY <1>1 DEF ApplyDelta, Send
  <2>2. QED
    BY <2>1, SendStore
<1>2. CASE ~AppliesTo(st, i, b)
  <2> DEFINE f == OpenForWrite(st.partial)
  <2>1. st.final \in Content \cup {None} /\ st.partial \in Content \cup {None}
    BY DEF Store
  <2>2. f \in Content /\ (st.partial = None => Len(f) = 0) /\ (st.partial # None => f = st.partial)
    BY <2>1, OpenContent DEF OpenForWrite
  <2>3. ApplyDelta(st, i, b, v) = [final |-> st.final, partial |-> f]
    BY <1>2 DEF ApplyDelta, Store
  <2>4. ApplyDelta(st, i, b, v) \in Store
    BY <2>1, <2>2, <2>3 DEF Store
  <2>5. Resolve(ApplyDelta(st, i, b, v)) = f
    BY <2>2, <2>3 DEF Resolve
  <2>6. ASSUME NEW n \in 0..MaxSize, Fits(st, n) PROVE Len(f) <= n
    BY <2>2, <2>6 DEF Fits, Resolve
  <2>7. QED
    BY <2>4, <2>5, <2>6 DEF Fits
<1>3. QED
  BY <1>1, <1>2

LEMMA TruncateStore ==
  ASSUME NEW st \in Store, NEW n \in 0..MaxSize
  PROVE  Truncate(st, n) \in Store /\ Fits(Truncate(st, n), n)
<1> DEFINE f == OpenForWrite(st.partial)
           w == SubSeq(f, 1, Smaller(n, Len(f)))
<1>1. st.final \in Content \cup {None} /\ st.partial \in Content \cup {None}
  BY DEF Store
<1>2. f \in Content
  BY <1>1, OpenContent
<1>3. w \in Content /\ Len(w) <= n
  BY <1>2, TruncateContent
<1>4. Truncate(st, n) = [final |-> st.final, partial |-> w]
  <2>1. Truncate(st, n) = [st EXCEPT !.partial = w]
    BY Zenon DEF Truncate
  <2> HIDE DEF w
  <2>2. QED
    BY <2>1 DEF Store
<1>5. Truncate(st, n) \in Store
  BY <1>1, <1>3, <1>4 DEF Store
<1>6. Resolve(Truncate(st, n)) = w
  <2> HIDE DEF w
  <2>1. QED
    BY <1>3, <1>4 DEF Resolve
<1>7. QED
  BY <1>3, <1>5, <1>6 DEF Fits

\* finish keeps what the path resolves to, in final form.
LEMMA FinishStore ==
  ASSUME NEW st \in Store
  PROVE  /\ Finish(st) \in Store
         /\ Resolve(Finish(st)) = Resolve(st) /\ Finish(st).partial = None
  BY DEF Store, Finish, Resolve

LEMMA DeleteStore ==
  ASSUME NEW st
  PROVE  Delete(st) \in Store
  BY DEF Store, Delete

-----------------------------------------------------------------------------
(* Requests. *)

\* The first of a set of blocks is one of them.
LEMMA FirstIn ==
  ASSUME NEW S \in SUBSET (1..MaxSize), S # {}
  PROVE  First(S) \in S
<1> DEFINE R == {ss \in Nat \X Nat : ss[1] < ss[2]}
<1>1. IsWellFoundedOn(R, Nat)
  BY NatLessThanWellFounded DEF OpToRel
<1>2. PICK i \in S : \A j \in S : ~(<<j, i>> \in R)
  <2>1. S \subseteq Nat
    OBVIOUS
  <2> HIDE DEF R
  <2>2. QED
    BY <1>1, <2>1, WFMin
<1>3. ASSUME NEW j \in S PROVE i <= j
  <2>1. i \in Nat /\ j \in Nat
    OBVIOUS
  <2>2. j < i => <<j, i>> \in R
    BY <2>1
  <2>3. QED
    BY <1>2, <2>1, <2>2
<1>4. QED
  BY <1>3 DEF First

\* What each kind of request carries.
LEMMA RequestFields ==
  ASSUME NEW r \in Request
  PROVE  /\ r.op \in {"send", "apply", "truncate", "finish", "delete"}
         /\ r.op \in {"send", "apply"} => r.i \in 1..MaxSize /\ r.v \in Block
         /\ r.op = "truncate" => r.n \in 0..MaxSize
  BY DEF Request

\* A mover waits for requests of its attempt.
LEMMA PendingOwn ==
  ASSUME TypeOK, NEW m \in Mover, Ranges(m), NEW r \in Pending(m)
  PROVE  /\ r \in Request /\ OwnRequest(m, r) /\ mover[m].pc # "idle"
         /\ \/ r.op = "send" /\ mover[m].pc = "move" /\ mover[m].read # None /\ r.i = First(mover[m].copy)
            \/ r.op = "truncate" /\ mover[m].pc = "move" /\ mover[m].copy = {} /\ mover[m].shorten
            \/ r.op = "apply" /\ mover[m].pc = "sign" /\ r.i = First(mover[m].rsync)
            \/ r.op = "finish" /\ mover[m].pc = "finish"
            \/ r.op = "delete" /\ mover[m].pc = "delete"
<1> DEFINE s == mover[m]
<1>1. s \in MoverState
  BY DEF TypeOK
<1>2. CASE s.pc = "move" /\ s.read # None
  <2>1. r = [op |-> "send", i |-> First(s.copy), v |-> s.read]
    BY <1>2 DEF Pending, Ranges
  <2>2. First(s.copy) \in s.copy
    BY <1>1, <1>2, FirstIn DEF Ranges, MoverState
  <2>3. First(s.copy) \in Blocks(m) /\ First(s.copy) \in 1..MaxSize /\ s.read \in Block
    BY <1>1, <1>2, <2>2 DEF Ranges, MoverState
  <2>4. r \in Request
    BY <2>1, <2>3 DEF Request
  <2>5. QED
    BY <1>2, <2>1, <2>3, <2>4 DEF OwnRequest
<1>3. CASE s.pc = "move" /\ s.read = None /\ s.copy = {} /\ s.shorten
  <2>1. r = [op |-> "truncate", n |-> s.size]
    BY <1>3 DEF Pending
  <2>2. r \in Request
    BY <1>1, <2>1 DEF Request, MoverState
  <2>3. QED
    BY <1>3, <2>1, <2>2 DEF OwnRequest
<1>4. CASE s.pc = "sign" /\ s.delta # None
  <2>1. r = [op |-> "apply", i |-> First(s.rsync), base |-> s.delta[1], v |-> s.delta[2]]
    BY <1>4 DEF Pending
  <2>2. First(s.rsync) \in s.rsync
    BY <1>1, <1>4, FirstIn DEF Ranges, MoverState
  <2>3. First(s.rsync) \in Blocks(m) /\ First(s.rsync) \in 1..MaxSize
    BY <1>1, <2>2 DEF Ranges, MoverState
  <2>4. s.delta \in Block \X Block
    BY <1>1, <1>4 DEF MoverState
  <2>5. s.delta[1] \in Block /\ s.delta[2] \in Block
    BY <2>4
  <2>6. r \in Request
    BY <2>1, <2>3, <2>5 DEF Request
  <2>7. QED
    BY <1>4, <2>1, <2>3, <2>6 DEF OwnRequest
<1>5. CASE s.pc \in {"finish", "delete"}
  <2>1. r = [op |-> s.pc]
    BY <1>5 DEF Pending
  <2>2. r \in Request
    BY <1>5, <2>1 DEF Request
  <2>3. QED
    BY <1>5, <2>1, <2>2 DEF OwnRequest
<1>6. QED
  BY <1>2, <1>3, <1>4, <1>5 DEF Pending

\* What a request leaves: stores, and a destination that fits the attempt.
LEMMA ExecuteStores ==
  ASSUME src \in Store, dst \in Store, NEW r \in Request, Execute(r)
  PROVE  /\ src' \in Store /\ dst' \in Store
         /\ r.op # "delete" => src' = src
         /\ r.op = "finish" => Resolve(dst') = Resolve(dst) /\ dst'.partial = None
         /\ r.op = "truncate" => Fits(dst', r.n)
         /\ \A n \in 0..MaxSize :
              /\ Fits(dst, n)
              /\ r.op \in {"send", "apply"} => r.i <= n
              /\ r.op = "truncate" => r.n = n
              => Fits(dst', n)
<1>1. CASE r.op = "send"
  <2>1. dst' = Send(dst, r.i, r.v) /\ src' = src
    BY <1>1 DEF Execute
  <2>2. r.i \in 1..MaxSize /\ r.v \in Block
    BY <1>1, RequestFields
  <2>3. QED
    BY <1>1, <2>1, <2>2, SendStore
<1>2. CASE r.op = "apply"
  <2>1. dst' = ApplyDelta(dst, r.i, r.base, r.v) /\ src' = src
    BY <1>2 DEF Execute
  <2>2. r.i \in 1..MaxSize /\ r.v \in Block
    BY <1>2, RequestFields
  <2>3. QED
    BY <1>2, <2>1, <2>2, ApplyStore
<1>3. CASE r.op = "truncate"
  <2>1. dst' = Truncate(dst, r.n) /\ src' = src
    BY <1>3 DEF Execute
  <2>2. r.n \in 0..MaxSize
    BY <1>3, RequestFields
  <2>3. QED
    BY <1>3, <2>1, <2>2, TruncateStore
<1>4. CASE r.op = "finish"
  <2>1. dst' = Finish(dst) /\ src' = src
    BY <1>4 DEF Execute
  <2>2. QED
    BY <1>4, <2>1, FinishStore DEF Fits
<1>5. CASE r.op = "delete"
  <2>1. dst' = dst /\ src' = Delete(src)
    BY <1>5 DEF Execute
  <2>2. QED
    BY <1>5, <2>1, DeleteStore
<1>6. QED
  BY <1>1, <1>2, <1>3, <1>4, <1>5, RequestFields

-----------------------------------------------------------------------------
(* Steps of one attempt. *)

\* With one mover, only its attempt is to be considered.
LEMMA OneAttempt ==
  ASSUME OneMover, NEW m \in Mover, TypeOK', ~lost', AttemptSound(m)'
  PROVE  MoveInv'
<1>1. Mover = {m}
  BY DEF OneMover
<1>2. QED
  BY <1>1 DEF MoveInv, DeletedOnlyWhenMoved

\* The states a mover is in when it starts and when it has nothing under way.
LEMMA AttemptState ==
  ASSUME NEW pc \in {"idle", "move"}, NEW n \in 0..MaxSize, NEW c \in SUBSET (1..MaxSize), NEW b \in BOOLEAN
  PROVE  Attempt(pc, n, c, b) \in MoverState
<1>1. NoHash \in [1..MaxSize -> Hash \cup {None}]
  BY DEF NoHash
<1>2. QED
  BY <1>1 DEF Attempt, MoverState

LEMMA IdleState == Idle \in MoverState
<1>1. 0 \in 0..MaxSize
  OBVIOUS
<1>2. QED
  BY <1>1, AttemptState, Zenon DEF Idle

\* A mover that has nothing under way has nothing to keep.
LEMMA IdleSound ==
  ASSUME NEW m \in Mover, mover'[m] = Idle
  PROVE  AttemptSound(m)'
  BY DEF AttemptSound, Ranges, OwnRequests, Idle, Attempt, Blocks

\* Where a mover ends its attempt and nothing else changes.
LEMMA EndAttempt ==
  ASSUME OneMover, MoveInv, NEW m \in Mover, mover' = [mover EXCEPT ![m] = Idle],
         UNCHANGED <<src, dst, queued, disturbed, lost>>,
         saves' \in 0..MaxSaves, fails' \in 0..MaxFails, lates' \in 0..MaxLate
  PROVE  MoveInv'
<1>1. TypeOK /\ ~lost
  BY DEF MoveInv, DeletedOnlyWhenMoved
<1>2. mover'[m] = Idle
  BY <1>1 DEF TypeOK
<1>3. Idle \in MoverState /\ AttemptSound(m)'
  BY <1>2, IdleState, IdleSound
<1>4. TypeOK'
  BY <1>1, <1>3 DEF TypeOK, queued
<1>5. QED
  BY <1>1, <1>3, <1>4, OneAttempt

\* The user saves the source: the attempts under way are disturbed.
LEMMA StepSave ==
  ASSUME OneMover, MoveInv, NEW c \in Content, Save(c)
  PROVE  MoveInv'
<1>1. TypeOK /\ ~lost
  BY DEF MoveInv, DeletedOnlyWhenMoved
<1>2. src' \in Store
  BY <1>1 DEF TypeOK, Store, Save
<1>3. TypeOK'
  BY <1>1, <1>2 DEF TypeOK, Save, queued
<1>4. ASSUME NEW m \in Mover PROVE AttemptSound(m)'
  <2>1. m \in disturbed'
    BY DEF Save
  <2>2. Ranges(m) /\ OwnRequests(m)
    BY DEF MoveInv, AttemptSound
  <2>3. UNCHANGED <<mover, late, stale>>
    BY DEF Save, queued
  <2>4. Ranges(m)' /\ OwnRequests(m)'
    BY <2>2, <2>3 DEF Ranges, OwnRequests, OwnRequest, Blocks
  <2>5. QED
    BY <2>1, <2>4 DEF AttemptSound
<1>5. QED
  BY <1>1, <1>3, <1>4 DEF MoveInv, DeletedOnlyWhenMoved, Save

\* A new attempt takes the source as it is; what is late is not its own.
LEMMA StepList ==
  ASSUME OneMover, MoveInv, NEW m \in Mover, List(m)
  PROVE  MoveInv'
<1> DEFINE n == ListedSize(ResolveFinal(src))
           d == ListedSize(Resolve(dst))
           c == (d + 1)..n
<1>1. TypeOK /\ ~lost
  BY DEF MoveInv, DeletedOnlyWhenMoved
<1>2. src.final \in Content /\ n = Len(src.final) /\ n \in 0..MaxSize
  <2>1. src.final \in Content /\ n = Len(src.final)
    BY <1>1 DEF List, TypeOK, Store, ListedSize, ResolveFinal
  <2>2. QED
    BY <2>1, ContentSeq
<1>3. d \in 0..MaxSize /\ (Resolve(dst) # None => d = Len(Resolve(dst)))
  <2>1. Resolve(dst) \in Content \cup {None}
    BY <1>1 DEF TypeOK, Store, Resolve
  <2>2. QED
    BY <2>1, ContentSeq DEF ListedSize
<1> DEFINE s == Attempt("move", n, c, d > n)
<1>4. mover' = [mover EXCEPT ![m] = s] /\ disturbed' = disturbed \ {m} /\ stale' = late
      /\ UNCHANGED <<src, dst, late, saves, fails, lates, lost>>
  BY DEF List, bounds
<1>5. (d > n) \in BOOLEAN
  BY <1>2, <1>3
<1> HIDE DEF n, d
<1>6. s \in MoverState
  <2>1. c \in SUBSET (1..MaxSize)
    BY <1>2, <1>3
  <2>2. QED
    BY <1>2, <1>5, <2>1, AttemptState, Zenon
<1>7. /\ s.pc = "move" /\ s.size = n /\ s.copy = c /\ (~s.shorten => ~(d > n)) /\ s.read = None
      /\ s.delta = None /\ s.rsync = {} /\ s.srcHash = NoHash /\ s.checked = FALSE
  BY DEF Attempt
<1> HIDE DEF s
<1>8. mover'[m] = s /\ TypeOK'
  BY <1>1, <1>4, <1>6 DEF TypeOK
<1>9. Ranges(m)'
  BY <1>2, <1>3, <1>7, <1>8 DEF Ranges, Blocks
<1>10. OwnRequests(m)'
  BY <1>4 DEF OwnRequests
<1>11. SourceKept(m)'
  <2>1. \A i \in 1..n : s.srcHash[i] = None
    BY <1>2, <1>7 DEF NoHash
  <2>2. QED
    BY <1>2, <1>4, <1>7, <1>8, <2>1 DEF SourceKept, Blocks
<1>12. DestKept(m)'
  BY <1>2, <1>3, <1>4, <1>7, <1>8 DEF DestKept
<1>13. QED
  BY <1>1, <1>4, <1>8, <1>9, <1>10, <1>11, <1>12, OneAttempt DEF AttemptSound

\* A step of an attempt, which goes on.
LEMMA AttemptStep ==
  ASSUME OneMover, MoveInv, NEW m \in Mover,
         NEW s \in MoverState, mover' = [mover EXCEPT ![m] = s], s.size = mover[m].size,
         \/ mover[m].pc \in {"move", "check", "sign"}
         \/ mover[m].pc = "finish" /\ s.pc = "delete",
         src' \in Store, dst' \in Store, UNCHANGED <<queued, bounds, disturbed>>, ~lost',
         lost' \in BOOLEAN, Ranges(m)',
         SourceKept(m) /\ DestKept(m) => SourceKept(m)' /\ DestKept(m)'
  PROVE  MoveInv'
<1>1. TypeOK /\ AttemptSound(m)
  BY DEF MoveInv, DeletedOnlyWhenMoved
<1>2. mover'[m] = s /\ TypeOK'
  BY <1>1 DEF TypeOK, queued, bounds
<1>3. OwnRequests(m)'
  <2>1. ASSUME NEW r \in late \ stale, s.pc # "idle" PROVE OwnRequest(m, r)'
    <3>1. OwnRequest(m, r) /\ r \in Request
      BY <1>1 DEF AttemptSound, OwnRequests, TypeOK
    <3>2. QED
      BY <1>2, <3>1, RequestFields DEF OwnRequest, Blocks
  <2>2. QED
    BY <1>2, <2>1 DEF OwnRequests, queued
<1>4. AttemptSound(m)'
  BY <1>1, <1>3 DEF AttemptSound
<1>5. QED
  BY <1>2, <1>4, OneAttempt

\* A step of an attempt that calls no store, before the last two calls.
LEMMA OwnStep ==
  ASSUME OneMover, MoveInv, NEW m \in Mover, mover[m].pc \in {"move", "check", "sign"},
         NEW s \in MoverState, mover' = [mover EXCEPT ![m] = s], s.size = mover[m].size,
         UNCHANGED <<src, dst, queued, bounds, disturbed, lost>>,
         Ranges(m)',
         SourceKept(m) /\ DestKept(m) => SourceKept(m)' /\ DestKept(m)'
  PROVE  MoveInv'
<1>1. src' \in Store /\ dst' \in Store /\ ~lost' /\ lost' \in BOOLEAN
  BY DEF MoveInv, DeletedOnlyWhenMoved, TypeOK
<1>2. QED
  BY <1>1, AttemptStep

\* copy_file_range reads.
LEMMA StepRead ==
  ASSUME OneMover, MoveInv, NEW m \in Mover, Read(m)
  PROVE  MoveInv'
<1> DEFINE v == ReadPadded(src.final, First(mover[m].copy))
           s == [mover[m] EXCEPT !.read = v]
<1>1. TypeOK /\ Ranges(m)
  BY DEF MoveInv, DeletedOnlyWhenMoved, AttemptSound
<1>2. mover[m] \in MoverState /\ src.final \in Content
  BY <1>1 DEF TypeOK, Store, Read
<1>3. First(mover[m].copy) \in 1..MaxSize
  BY <1>2, FirstIn DEF Read, MoverState
<1>4. v \in Block
  BY <1>2, <1>3, ReadBlock
<1> HIDE DEF v
<1>5. s \in MoverState /\ s.pc = "move" /\ s.size = mover[m].size /\ s.copy = mover[m].copy
      /\ s.shorten = mover[m].shorten /\ s.rsync = mover[m].rsync /\ s.delta = mover[m].delta
      /\ s.srcHash = mover[m].srcHash /\ s.dstHash = mover[m].dstHash /\ s.checked = mover[m].checked
  BY <1>2, <1>4 DEF MoverState, Read
<1>6. mover' = [mover EXCEPT ![m] = s] /\ mover[m].copy # {} /\ mover[m].pc = "move"
      /\ UNCHANGED <<src, dst, queued, bounds, disturbed, lost>>
  BY DEF Read, v
<1> HIDE DEF s
<1>7. mover'[m] = s
  BY <1>1, <1>6 DEF TypeOK
<1>8. Ranges(m)'
  BY <1>1, <1>5, <1>6, <1>7 DEF Ranges, Blocks
<1>9. SourceKept(m) /\ DestKept(m) => SourceKept(m)' /\ DestKept(m)'
  BY <1>5, <1>6, <1>7 DEF SourceKept, DestKept, Blocks
<1>10. QED
  BY <1>5, <1>6, <1>8, <1>9, OwnStep

\* The source is hashed: an attempt whose source is kept has the hash of a block.
LEMMA StepHashSource ==
  ASSUME OneMover, MoveInv, NEW m \in Mover, NEW i \in 1..MaxSize, HashSource(m, i)
  PROVE  MoveInv'
<1> DEFINE h == HashExact(src.final, i)
           f == [mover[m].srcHash EXCEPT ![i] = h]
           s == [mover[m] EXCEPT !.srcHash = f]
<1>1. TypeOK /\ Ranges(m)
  BY DEF MoveInv, DeletedOnlyWhenMoved, AttemptSound
<1>2. mover[m] \in MoverState /\ src.final \in Content
  BY <1>1 DEF TypeOK, Store, HashSource
<1>3. h \in Hash /\ (i <= Len(src.final) => h = src.final[i])
  <2>1. src.final \in [1..Len(src.final) -> Block] /\ Len(src.final) \in 0..MaxSize
    BY <1>2, ContentSeq
  <2>2. QED
    BY <2>1 DEF HashExact, Hash
<1> HIDE DEF h
<1>4. f \in [1..MaxSize -> Hash \cup {None}] /\ f[i] = h /\ h # None
      /\ \A j \in 1..MaxSize : j # i => f[j] = mover[m].srcHash[j]
  BY <1>2, <1>3 DEF MoverState, Hash
<1> HIDE DEF f
<1>5. s \in MoverState /\ s.pc = mover[m].pc /\ s.size = mover[m].size /\ s.copy = mover[m].copy
      /\ s.shorten = mover[m].shorten /\ s.rsync = mover[m].rsync /\ s.delta = mover[m].delta
      /\ s.srcHash = f /\ s.dstHash = mover[m].dstHash /\ s.checked = mover[m].checked
      /\ s.read = mover[m].read
  BY <1>2, <1>4 DEF MoverState
<1>6. mover' = [mover EXCEPT ![m] = s] /\ mover[m].pc = "move" /\ ~mover[m].checked
      /\ UNCHANGED <<src, dst, queued, bounds, disturbed, lost>> /\ i \in Blocks(m)
  BY DEF HashSource, h, f
<1> HIDE DEF s
<1>7. mover'[m] = s
  BY <1>1, <1>6 DEF TypeOK
<1>8. Ranges(m)'
  BY <1>1, <1>5, <1>6, <1>7 DEF Ranges, Blocks
<1>9. ASSUME SourceKept(m), DestKept(m) PROVE SourceKept(m)' /\ DestKept(m)'
  <2>1. i <= Len(src.final)
    BY <1>2, <1>6, <1>9 DEF SourceKept, Blocks, MoverState
  <2>2. \A j \in Blocks(m) : j \in 1..MaxSize
    BY <1>2 DEF Blocks, MoverState
  <2>3. \A j \in Blocks(m) : f[j] \in {None, src.final[j]}
    BY <1>3, <1>4, <1>9, <2>1, <2>2 DEF SourceKept
  <2>4. SourceKept(m)'
    BY <1>5, <1>6, <1>7, <1>9, <2>3 DEF SourceKept, Blocks
  <2>5. DestKept(m)'
    BY <1>5, <1>6, <1>7, <1>9 DEF DestKept, Blocks
  <2>6. QED
    BY <2>4, <2>5
<1>10. QED
  BY <1>5, <1>6, <1>8, <1>9, OwnStep

\* The copy is done: every block has a hash.
LEMMA StepCopied ==
  ASSUME OneMover, MoveInv, NEW m \in Mover, Copied(m)
  PROVE  MoveInv'
<1> DEFINE s == [mover[m] EXCEPT !.pc = "check", !.dstHash = NoHash]
<1>1. TypeOK /\ Ranges(m)
  BY DEF MoveInv, DeletedOnlyWhenMoved, AttemptSound
<1>2. mover[m] \in MoverState
  BY <1>1 DEF TypeOK
<1>3. NoHash \in [1..MaxSize -> Hash \cup {None}] /\ \A i \in 1..MaxSize : NoHash[i] = None
  BY DEF NoHash
<1>4. s \in MoverState /\ s.pc = "check" /\ s.size = mover[m].size /\ s.copy = mover[m].copy
      /\ s.shorten = mover[m].shorten /\ s.rsync = mover[m].rsync /\ s.delta = mover[m].delta
      /\ s.srcHash = mover[m].srcHash /\ s.dstHash = NoHash /\ s.checked = mover[m].checked
      /\ s.read = mover[m].read
  BY <1>2, <1>3 DEF MoverState
<1>5. mover' = [mover EXCEPT ![m] = s] /\ mover[m].pc = "move" /\ mover[m].copy = {} /\ ~mover[m].shorten
      /\ UNCHANGED <<src, dst, queued, bounds, disturbed, lost>>
      /\ \A i \in Blocks(m) : mover[m].srcHash[i] # None
  BY DEF Copied
<1> HIDE DEF s
<1>6. mover'[m] = s
  BY <1>1, <1>5 DEF TypeOK
<1>7. Ranges(m)'
  BY <1>1, <1>4, <1>5, <1>6 DEF Ranges, Blocks
<1>8. \A i \in Blocks(m) : NoHash[i] = None
  BY <1>2, <1>3 DEF Blocks, MoverState
<1>9. SourceKept(m) => SourceKept(m)'
  BY <1>4, <1>5, <1>6 DEF SourceKept, Blocks
<1>10. DestKept(m) => DestKept(m)'
  BY <1>4, <1>5, <1>6, <1>8 DEF DestKept, Blocks
<1>11. QED
  BY <1>4, <1>5, <1>7, <1>9, <1>10, OwnStep

\* The destination is hashed: nothing changes it until the comparison.
LEMMA StepHashDest ==
  ASSUME OneMover, MoveInv, NEW m \in Mover, NEW i \in 1..MaxSize, HashDest(m, i)
  PROVE  MoveInv'
<1> DEFINE h == HashExact(Resolve(dst), i)
           f == [mover[m].dstHash EXCEPT ![i] = h]
           s == [mover[m] EXCEPT !.dstHash = f]
<1>1. TypeOK /\ Ranges(m)
  BY DEF MoveInv, DeletedOnlyWhenMoved, AttemptSound
<1>2. mover[m] \in MoverState /\ Resolve(dst) \in Content
  BY <1>1 DEF TypeOK, Store, HashDest, Resolve
<1>3. h \in Hash
  <2>1. Resolve(dst) \in [1..Len(Resolve(dst)) -> Block] /\ Len(Resolve(dst)) \in 0..MaxSize
    BY <1>2, ContentSeq
  <2>2. QED
    BY <2>1 DEF HashExact, Hash
<1> HIDE DEF h
<1>4. f \in [1..MaxSize -> Hash \cup {None}] /\ f[i] = h
      /\ \A j \in 1..MaxSize : j # i => f[j] = mover[m].dstHash[j]
  BY <1>2, <1>3 DEF MoverState
<1> HIDE DEF f
<1>5. s \in MoverState /\ s.pc = mover[m].pc /\ s.size = mover[m].size /\ s.copy = mover[m].copy
      /\ s.shorten = mover[m].shorten /\ s.rsync = mover[m].rsync /\ s.delta = mover[m].delta
      /\ s.srcHash = mover[m].srcHash /\ s.dstHash = f /\ s.checked = mover[m].checked
      /\ s.read = mover[m].read
  BY <1>2, <1>4 DEF MoverState
<1>6. mover' = [mover EXCEPT ![m] = s] /\ mover[m].pc = "check" /\ Resolve(dst) # None
      /\ UNCHANGED <<src, dst, queued, bounds, disturbed, lost>>
  BY DEF HashDest, h, f
<1> HIDE DEF s
<1>7. mover'[m] = s
  BY <1>1, <1>6 DEF TypeOK
<1>8. Ranges(m)'
  BY <1>1, <1>5, <1>6, <1>7 DEF Ranges, Blocks
<1>9. SourceKept(m) => SourceKept(m)'
  BY <1>5, <1>6, <1>7 DEF SourceKept, Blocks
<1>10. ASSUME DestKept(m) PROVE DestKept(m)'
  <2>1. \A j \in Blocks(m) : j \in 1..MaxSize
    BY <1>2 DEF Blocks, MoverState
  <2>2. \A j \in Blocks(m) : f[j] # None => f[j] = HashExact(Resolve(dst), j)
    BY <1>4, <1>6, <1>10, <2>1 DEF DestKept, h
  <2>3. QED
    BY <1>5, <1>6, <1>7, <1>10, <2>2 DEF DestKept, Blocks
<1>11. QED
  BY <1>5, <1>6, <1>8, <1>9, <1>10, OwnStep

\* Hashes that all match mean the same content: every block of the source is in
\* the destination, which is no longer.
LEMMA MatchMeansEqual ==
  ASSUME TypeOK, NEW m \in Mover, SourceKept(m), DestKept(m), mover[m].pc = "check",
         \A i \in Blocks(m) : mover[m].dstHash[i] # None, HashesMatch(m)
  PROVE  Resolve(dst) = src.final
<1> DEFINE a == src.final
           b == Resolve(dst)
           n == mover[m].size
<1>1. mover[m] \in MoverState /\ a \in Content
  BY DEF TypeOK, Store, SourceKept
<1>2. n \in 0..MaxSize /\ n > 0 /\ Blocks(m) = 1..n /\ Len(a) = n
  BY <1>1 DEF HashesMatch, Blocks, MoverState, SourceKept
<1>3. a \in [1..n -> Block]
  BY <1>1, <1>2, ContentSeq
<1>4. \A i \in 1..n : mover[m].srcHash[i] = a[i] /\ mover[m].dstHash[i] = a[i]
  BY <1>2 DEF SourceKept, HashesMatch, Mismatches
<1>5. b # None /\ \A i \in 1..n : HashExact(b, i) = a[i]
  BY <1>2, <1>4, SMTT(30) DEF DestKept
<1>6. b \in Content
  BY <1>5 DEF TypeOK, Store, Resolve
<1>7. Len(b) \in 0..MaxSize /\ b \in [1..Len(b) -> Block]
  BY <1>6, ContentSeq
<1>8. Len(b) <= n
  BY <1>5 DEF DestKept
<1>9. \A i \in 1..n : i <= Len(b) /\ b[i] = a[i]
  <2>1. \A i \in 1..n : a[i] # ZeroHash
    BY <1>3
  <2>2. QED
    BY <1>5, <2>1 DEF HashExact
<1>10. n <= Len(b)
  BY <1>2, <1>9
<1>11. Len(b) = n
  BY <1>2, <1>7, <1>8, <1>10
<1>12. b \in [1..n -> Block]
  BY <1>7, <1>11
<1> HIDE DEF a, b, n
<1>13. a = b
  <2>1. \A i \in 1..n : a[i] = b[i]
    BY <1>9
  <2>2. a = [i \in 1..n |-> a[i]] /\ b = [i \in 1..n |-> b[i]]
    BY <1>3, <1>12
  <2>3. QED
    BY <2>1, <2>2, Zenon
<1>14. QED
  BY <1>13 DEF a, b

\* The comparison: the destination is the source, or is patched, or given up.
LEMMA StepCompare ==
  ASSUME OneMover, MoveInv, NEW m \in Mover, Compare(m)
  PROVE  MoveInv'
<1>1. TypeOK /\ Ranges(m)
  BY DEF MoveInv, DeletedOnlyWhenMoved, AttemptSound
<1>2. mover[m] \in MoverState /\ mover[m].pc = "check"
      /\ UNCHANGED <<src, dst, queued, bounds, disturbed, lost>>
      /\ \A i \in Blocks(m) : mover[m].dstHash[i] # None
  BY <1>1 DEF TypeOK, Compare
<1>3. CASE HashesMatch(m)
  <2> DEFINE s == [mover[m] EXCEPT !.pc = "finish"]
  <2>1. s \in MoverState /\ s.pc = "finish" /\ s.size = mover[m].size /\ s.copy = mover[m].copy
        /\ s.shorten = mover[m].shorten /\ s.rsync = mover[m].rsync /\ s.delta = mover[m].delta
        /\ s.srcHash = mover[m].srcHash /\ s.checked = mover[m].checked /\ s.read = mover[m].read
    BY <1>2 DEF MoverState
  <2>2. mover' = [mover EXCEPT ![m] = s]
    BY <1>3 DEF Compare
  <2> HIDE DEF s
  <2>3. mover'[m] = s
    BY <1>1, <2>2 DEF TypeOK
  <2>4. Ranges(m)'
    BY <1>1, <1>2, <2>1, <2>3 DEF Ranges, Blocks
  <2>5. ASSUME SourceKept(m), DestKept(m) PROVE SourceKept(m)' /\ DestKept(m)'
    <3>1. Resolve(dst) = src.final
      BY <1>1, <1>2, <1>3, <2>5, MatchMeansEqual
    <3>2. SourceKept(m)'
      BY <1>2, <2>1, <2>3, <2>5 DEF SourceKept, Blocks
    <3>3. DestKept(m)'
      BY <1>2, <2>1, <2>3, <2>5, <3>1 DEF DestKept, Blocks
    <3>4. QED
      BY <3>2, <3>3
  <2>6. QED
    BY <1>2, <2>1, <2>2, <2>4, <2>5, OwnStep
<1>4. CASE ~HashesMatch(m) /\ mover[m].checked
  <2>1. mover' = [mover EXCEPT ![m] = Idle]
    BY <1>4 DEF Compare
  <2>2. QED
    BY <1>1, <1>2, <2>1, EndAttempt DEF TypeOK, bounds
<1>5. CASE ~HashesMatch(m) /\ ~mover[m].checked
  <2> DEFINE M == Mismatches(m)
             s == [mover[m] EXCEPT !.pc = "sign", !.rsync = M, !.checked = TRUE]
  <2>1. M \in SUBSET (1..MaxSize) /\ M \subseteq Blocks(m)
    BY <1>2 DEF Mismatches, Blocks, MoverState
  <2> HIDE DEF M
  <2>2. s \in MoverState /\ s.pc = "sign" /\ s.size = mover[m].size /\ s.copy = mover[m].copy
        /\ s.shorten = mover[m].shorten /\ s.rsync = M /\ s.delta = mover[m].delta
        /\ s.srcHash = mover[m].srcHash /\ s.read = mover[m].read
    BY <1>2, <2>1 DEF MoverState
  <2>3. mover' = [mover EXCEPT ![m] = s]
    BY <1>5 DEF Compare, M
  <2> HIDE DEF s
  <2>4. mover'[m] = s
    BY <1>1, <2>3 DEF TypeOK
  <2>5. mover[m].delta = None
    BY <1>1, <1>2 DEF Ranges
  <2>6. Ranges(m)'
    BY <1>1, <1>2, <2>1, <2>2, <2>4, <2>5 DEF Ranges, Blocks
  <2>7. SourceKept(m) /\ DestKept(m) => SourceKept(m)' /\ DestKept(m)'
    BY <1>2, <2>2, <2>4 DEF SourceKept, DestKept, Blocks
  <2>8. QED
    BY <1>2, <2>2, <2>3, <2>6, <2>7, OwnStep
<1>6. QED
  BY <1>3, <1>4, <1>5

\* The two reads of rsync_file_range.
LEMMA StepSignAndDiff ==
  ASSUME OneMover, MoveInv, NEW m \in Mover, SignAndDiff(m)
  PROVE  MoveInv'
<1> DEFINE i == First(mover[m].rsync)
           a == ReadPadded(Resolve(dst), i)
           b == ReadPadded(src.final, i)
           s == [mover[m] EXCEPT !.delta = <<a, b>>]
<1>1. TypeOK /\ Ranges(m)
  BY DEF MoveInv, DeletedOnlyWhenMoved, AttemptSound
<1>2. mover[m] \in MoverState /\ src.final \in Content /\ Resolve(dst) \in Content
  BY <1>1 DEF TypeOK, Store, SignAndDiff, Resolve
<1>3. i \in 1..MaxSize
  BY <1>2, FirstIn DEF SignAndDiff, MoverState
<1>4. a \in Block /\ b \in Block
  BY <1>2, <1>3, ReadBlock
<1> HIDE DEF a, b
<1>5. <<a, b>> \in Block \X Block
  BY <1>4
<1>6. s \in MoverState /\ s.pc = mover[m].pc /\ s.size = mover[m].size /\ s.copy = mover[m].copy
      /\ s.shorten = mover[m].shorten /\ s.rsync = mover[m].rsync /\ s.read = mover[m].read
      /\ s.srcHash = mover[m].srcHash /\ s.dstHash = mover[m].dstHash /\ s.checked = mover[m].checked
  BY <1>2, <1>5 DEF MoverState
<1>7. mover' = [mover EXCEPT ![m] = s] /\ mover[m].rsync # {} /\ mover[m].pc = "sign"
      /\ UNCHANGED <<src, dst, queued, bounds, disturbed, lost>>
  BY DEF SignAndDiff, a, b
<1> HIDE DEF s
<1>8. mover'[m] = s
  BY <1>1, <1>7 DEF TypeOK
<1>9. Ranges(m)'
  BY <1>1, <1>6, <1>7, <1>8 DEF Ranges, Blocks
<1>10. SourceKept(m) /\ DestKept(m) => SourceKept(m)' /\ DestKept(m)'
  BY <1>6, <1>7, <1>8 DEF SourceKept, DestKept, Blocks
<1>11. QED
  BY <1>6, <1>7, <1>9, <1>10, OwnStep

\* rsync_file_range is done: all hashes of the source are there already.
LEMMA StepRsynced ==
  ASSUME OneMover, MoveInv, NEW m \in Mover, Rsynced(m)
  PROVE  MoveInv'
<1> DEFINE s == [mover[m] EXCEPT !.pc = "move"]
<1>1. TypeOK /\ Ranges(m)
  BY DEF MoveInv, DeletedOnlyWhenMoved, AttemptSound
<1>2. mover[m] \in MoverState
  BY <1>1 DEF TypeOK
<1>3. s \in MoverState /\ s.pc = "move" /\ s.size = mover[m].size /\ s.copy = mover[m].copy
      /\ s.shorten = mover[m].shorten /\ s.rsync = mover[m].rsync /\ s.read = mover[m].read
      /\ s.delta = mover[m].delta
      /\ s.srcHash = mover[m].srcHash /\ s.dstHash = mover[m].dstHash /\ s.checked = mover[m].checked
  BY <1>2 DEF MoverState
<1>4. mover' = [mover EXCEPT ![m] = s] /\ mover[m].rsync = {} /\ mover[m].pc = "sign"
      /\ UNCHANGED <<src, dst, queued, bounds, disturbed, lost>>
  BY DEF Rsynced
<1> HIDE DEF s
<1>5. mover'[m] = s
  BY <1>1, <1>4 DEF TypeOK
<1>6. Ranges(m)'
  BY <1>1, <1>3, <1>4, <1>5 DEF Ranges, Blocks
<1>7. SourceKept(m) /\ DestKept(m) => SourceKept(m)' /\ DestKept(m)'
  BY <1>3, <1>4, <1>5 DEF SourceKept, DestKept, Blocks
<1>8. QED
  BY <1>3, <1>4, <1>6, <1>7, OwnStep

\* What an attempt keeps of the destination, while it is not compared.
LEMMA DestFits ==
  ASSUME NEW m \in Mover, DestKept(m)
  PROVE  mover[m].shorten \/ Fits(dst, mover[m].size)
  BY DEF DestKept, Fits

\* copy_file_range writes a block.
LEMMA CallSend ==
  ASSUME OneMover, MoveInv, NEW m \in Mover, NEW r, Call(m, r), r.op = "send"
  PROVE  MoveInv'
<1> DEFINE c == mover[m].copy \ {r.i}
           s == [mover[m] EXCEPT !.copy = c, !.read = None]
<1>1. TypeOK /\ ~lost /\ Ranges(m) /\ r \in Pending(m)
  BY DEF MoveInv, DeletedOnlyWhenMoved, AttemptSound, Call
<1>2. mover[m] \in MoverState /\ mover[m].pc = "move" /\ r \in Request /\ OwnRequest(m, r)
  BY <1>1, PendingOwn DEF TypeOK
<1>3. c \in SUBSET (1..MaxSize) /\ c \subseteq Blocks(m)
  BY <1>1, <1>2 DEF MoverState, Ranges
<1> HIDE DEF c
<1>4. s \in MoverState /\ s.pc = "move" /\ s.size = mover[m].size /\ s.copy = c /\ s.read = None
      /\ s.shorten = mover[m].shorten /\ s.rsync = mover[m].rsync /\ s.delta = mover[m].delta
      /\ s.srcHash = mover[m].srcHash /\ s.checked = mover[m].checked
  BY <1>2, <1>3 DEF MoverState
<1>5. mover' = [mover EXCEPT ![m] = s] /\ UNCHANGED <<queued, bounds, disturbed>> /\ lost' = lost
  <2>1. Answered(mover[m], r) = s
    BY DEF Answered, c
  <2>2. lost \in BOOLEAN
    BY <1>1 DEF TypeOK
  <2> HIDE DEF s
  <2>3. QED
    BY <2>1, <2>2 DEF Call
<1> HIDE DEF s
<1>6. src' = src /\ src' \in Store /\ dst' \in Store
      /\ (Fits(dst, mover[m].size) => Fits(dst', mover[m].size))
  <2>1. Execute(r) /\ src \in Store /\ dst \in Store /\ mover[m].size \in 0..MaxSize
    BY <1>1, <1>2 DEF Call, TypeOK, MoverState
  <2>2. r.i <= mover[m].size
    BY <1>2, <2>1 DEF OwnRequest, Blocks
  <2>3. QED
    BY <1>2, <2>1, <2>2, ExecuteStores
<1>7. mover'[m] = s
  BY <1>1, <1>5 DEF TypeOK
<1>8. Ranges(m)'
  BY <1>1, <1>2, <1>3, <1>4, <1>7 DEF Ranges, Blocks
<1>9. SourceKept(m) => SourceKept(m)'
  BY <1>2, <1>4, <1>6, <1>7, SMTT(30) DEF SourceKept, Blocks
<1>10. DestKept(m) => DestKept(m)'
  <2>1. ASSUME DestKept(m) PROVE s.shorten \/ Fits(dst', s.size)
    BY <1>4, <1>6, <2>1, DestFits
  <2>2. QED
    BY <1>4, <1>7, <2>1 DEF DestKept, Fits
<1>11. lost \in BOOLEAN
  BY <1>1 DEF TypeOK
<1>12. QED
  BY <1>1, <1>2, <1>4, <1>5, <1>6, <1>8, <1>9, <1>10, <1>11, AttemptStep

\* The destination is truncated to the size of the source.
LEMMA CallTruncate ==
  ASSUME OneMover, MoveInv, NEW m \in Mover, NEW r, Call(m, r), r.op = "truncate"
  PROVE  MoveInv'
<1> DEFINE s == [mover[m] EXCEPT !.shorten = FALSE]
<1>1. TypeOK /\ ~lost /\ Ranges(m) /\ r \in Pending(m)
  BY DEF MoveInv, DeletedOnlyWhenMoved, AttemptSound, Call
<1>2. mover[m] \in MoverState /\ mover[m].pc = "move" /\ r \in Request /\ OwnRequest(m, r)
  BY <1>1, PendingOwn DEF TypeOK
<1>3. s \in MoverState /\ s.pc = "move" /\ s.size = mover[m].size /\ s.copy = mover[m].copy
      /\ s.read = mover[m].read /\ s.rsync = mover[m].rsync /\ s.delta = mover[m].delta
      /\ s.srcHash = mover[m].srcHash /\ s.checked = mover[m].checked /\ ~s.shorten
  BY <1>2 DEF MoverState
<1>4. mover' = [mover EXCEPT ![m] = s] /\ UNCHANGED <<queued, bounds, disturbed>> /\ lost' = lost
  <2>1. Answered(mover[m], r) = s
    BY DEF Answered
  <2>2. lost \in BOOLEAN
    BY <1>1 DEF TypeOK
  <2> HIDE DEF s
  <2>3. QED
    BY <2>1, <2>2 DEF Call
<1> HIDE DEF s
<1>5. src' = src /\ src' \in Store /\ dst' \in Store /\ Fits(dst', mover[m].size)
  <2>1. Execute(r) /\ src \in Store /\ dst \in Store
    BY <1>1 DEF Call, TypeOK
  <2>2. r.n = mover[m].size
    BY <1>2 DEF OwnRequest
  <2>3. QED
    BY <1>2, <2>1, <2>2, ExecuteStores
<1>6. mover'[m] = s
  BY <1>1, <1>4 DEF TypeOK
<1>7. Ranges(m)'
  BY <1>1, <1>2, <1>3, <1>6 DEF Ranges, Blocks
<1>8. SourceKept(m) => SourceKept(m)'
  BY <1>2, <1>3, <1>5, <1>6 DEF SourceKept, Blocks
<1>9. DestKept(m)'
  BY <1>3, <1>5, <1>6 DEF DestKept, Fits
<1>10. lost \in BOOLEAN
  BY <1>1 DEF TypeOK
<1>11. QED
  BY <1>1, <1>2, <1>3, <1>4, <1>5, <1>7, <1>8, <1>9, <1>10, AttemptStep

\* A block is patched, or left to the copy.
LEMMA CallApply ==
  ASSUME OneMover, MoveInv, NEW m \in Mover, NEW r, Call(m, r), r.op = "apply"
  PROVE  MoveInv'
<1> DEFINE c == IF AppliesTo(dst, r.i, r.base) THEN mover[m].copy ELSE mover[m].copy \cup {r.i}
           e == mover[m].rsync \ {r.i}
           s == [mover[m] EXCEPT !.rsync = e, !.delta = None, !.copy = c]
<1>1. TypeOK /\ ~lost /\ Ranges(m) /\ r \in Pending(m)
  BY DEF MoveInv, DeletedOnlyWhenMoved, AttemptSound, Call
<1>2. mover[m] \in MoverState /\ mover[m].pc = "sign" /\ r \in Request /\ OwnRequest(m, r)
  BY <1>1, PendingOwn DEF TypeOK
<1>3. r.i \in Blocks(m) /\ r.i \in 1..MaxSize
  BY <1>2, RequestFields DEF OwnRequest
<1>4. c \in SUBSET (1..MaxSize) /\ c \subseteq Blocks(m) /\ e \in SUBSET (1..MaxSize) /\ e \subseteq Blocks(m)
  BY <1>1, <1>2, <1>3 DEF MoverState, Ranges
<1> HIDE DEF c, e
<1>5. s \in MoverState /\ s.pc = "sign" /\ s.size = mover[m].size /\ s.copy = c /\ s.rsync = e
      /\ s.delta = None /\ s.read = mover[m].read /\ s.shorten = mover[m].shorten
      /\ s.srcHash = mover[m].srcHash /\ s.checked = mover[m].checked
  BY <1>2, <1>4 DEF MoverState
<1>6. mover' = [mover EXCEPT ![m] = s] /\ UNCHANGED <<queued, bounds, disturbed>> /\ lost' = lost
  <2>1. Answered(mover[m], r) = s
    BY DEF Answered, c, e
  <2>2. lost \in BOOLEAN
    BY <1>1 DEF TypeOK
  <2> HIDE DEF s
  <2>3. QED
    BY <2>1, <2>2 DEF Call
<1> HIDE DEF s
<1>7. src' = src /\ src' \in Store /\ dst' \in Store
      /\ (Fits(dst, mover[m].size) => Fits(dst', mover[m].size))
  <2>1. Execute(r) /\ src \in Store /\ dst \in Store /\ mover[m].size \in 0..MaxSize
    BY <1>1, <1>2 DEF Call, TypeOK, MoverState
  <2>2. r.i <= mover[m].size
    BY <1>3, <2>1 DEF Blocks
  <2>3. QED
    BY <1>2, <2>1, <2>2, ExecuteStores
<1>8. mover'[m] = s
  BY <1>1, <1>6 DEF TypeOK
<1>9. Ranges(m)'
  BY <1>1, <1>2, <1>4, <1>5, <1>8 DEF Ranges, Blocks
<1>10. SourceKept(m) => SourceKept(m)'
  BY <1>2, <1>5, <1>7, <1>8 DEF SourceKept, Blocks
<1>11. DestKept(m) => DestKept(m)'
  <2>1. ASSUME DestKept(m) PROVE ~s.shorten /\ Fits(dst', s.size)
    BY <1>2, <1>5, <1>7, <2>1, DestFits DEF DestKept
  <2>2. QED
    BY <1>5, <1>8, <2>1 DEF DestKept, Fits
<1>12. lost \in BOOLEAN
  BY <1>1 DEF TypeOK
<1>13. QED
  BY <1>1, <1>2, <1>5, <1>6, <1>7, <1>9, <1>10, <1>11, <1>12, AttemptStep

\* finish gives the destination its final form.
LEMMA CallFinish ==
  ASSUME OneMover, MoveInv, NEW m \in Mover, NEW r, Call(m, r), r.op = "finish"
  PROVE  MoveInv'
<1> DEFINE s == [mover[m] EXCEPT !.pc = "delete"]
<1>1. TypeOK /\ ~lost /\ Ranges(m) /\ r \in Pending(m)
  BY DEF MoveInv, DeletedOnlyWhenMoved, AttemptSound, Call
<1>2. mover[m] \in MoverState /\ mover[m].pc = "finish" /\ r \in Request
  BY <1>1, PendingOwn DEF TypeOK
<1>3. s \in MoverState /\ s.pc = "delete" /\ s.size = mover[m].size /\ s.copy = mover[m].copy
      /\ s.read = mover[m].read /\ s.rsync = mover[m].rsync /\ s.delta = mover[m].delta
      /\ s.srcHash = mover[m].srcHash /\ s.checked = mover[m].checked /\ s.shorten = mover[m].shorten
  BY <1>2 DEF MoverState
<1>4. mover' = [mover EXCEPT ![m] = s] /\ UNCHANGED <<queued, bounds, disturbed>> /\ lost' = lost
  <2>1. Answered(mover[m], r) = s
    BY DEF Answered
  <2>2. lost \in BOOLEAN
    BY <1>1 DEF TypeOK
  <2> HIDE DEF s
  <2>3. QED
    BY <2>1, <2>2 DEF Call
<1> HIDE DEF s
<1>5. src' = src /\ src' \in Store /\ dst' \in Store /\ Resolve(dst') = Resolve(dst) /\ dst'.partial = None
  <2>1. Execute(r) /\ src \in Store /\ dst \in Store
    BY <1>1 DEF Call, TypeOK
  <2>2. QED
    BY <1>2, <2>1, ExecuteStores
<1>6. mover'[m] = s
  BY <1>1, <1>4 DEF TypeOK
<1>7. Ranges(m)'
  BY <1>1, <1>2, <1>3, <1>6 DEF Ranges, Blocks
<1>8. SourceKept(m) => SourceKept(m)'
  BY <1>2, <1>3, <1>5, <1>6 DEF SourceKept, Blocks
<1>9. DestKept(m) => DestKept(m)'
  BY <1>2, <1>3, <1>5, <1>6 DEF DestKept
<1>10. lost \in BOOLEAN
  BY <1>1 DEF TypeOK
<1>11. QED
  BY <1>1, <1>2, <1>3, <1>4, <1>5, <1>7, <1>8, <1>9, <1>10, AttemptStep

\* The deletion: the destination has the content, in final form.
LEMMA CallDelete ==
  ASSUME OneMover, MoveInv, NEW m \in Mover, NEW r, Call(m, r), r.op = "delete"
  PROVE  MoveInv'
<1>1. TypeOK /\ ~lost /\ AttemptSound(m) /\ r \in Pending(m)
  BY DEF MoveInv, DeletedOnlyWhenMoved, Call
<1>2. mover[m].pc = "delete" /\ r \in Request
  BY <1>1, PendingOwn DEF AttemptSound
<1>3. m \notin disturbed => dst.final = src.final
  BY <1>1, <1>2 DEF AttemptSound, DestKept, Resolve
<1>4. ~lost' /\ lost' \in BOOLEAN
  BY <1>1, <1>3 DEF Call
<1>5. mover' = [mover EXCEPT ![m] = Idle] /\ UNCHANGED <<queued, bounds, disturbed>>
  <2>1. Answered(mover[m], r) = Idle
    BY DEF Answered
  <2>2. QED
    BY <2>1 DEF Call
<1>6. src' \in Store /\ dst' \in Store
  <2>1. Execute(r) /\ src \in Store /\ dst \in Store
    BY <1>1 DEF Call, TypeOK
  <2>2. QED
    BY <1>2, <2>1, ExecuteStores
<1>7. mover'[m] = Idle
  BY <1>1, <1>5 DEF TypeOK
<1>8. AttemptSound(m)'
  BY <1>7, IdleSound
<1>9. TypeOK'
  BY <1>1, <1>4, <1>5, <1>6, IdleState DEF TypeOK, queued, bounds
<1>10. QED
  BY <1>4, <1>8, <1>9, OneAttempt

\* A request that is repeated is of the attempt under way.
LEMMA StepRepeat ==
  ASSUME OneMover, MoveInv, NEW m \in Mover, NEW r, Repeat(m, r)
  PROVE  MoveInv'
<1>1. TypeOK /\ ~lost /\ AttemptSound(m) /\ r \in Pending(m)
  BY DEF MoveInv, DeletedOnlyWhenMoved, Repeat
<1>2. r \in Request /\ OwnRequest(m, r)
  BY <1>1, PendingOwn DEF AttemptSound
<1>3. late' = late \cup {r} /\ UNCHANGED <<src, dst, mover, stale, saves, fails, disturbed, lost>>
      /\ lates' \in 0..MaxLate
  BY <1>1 DEF Repeat, TypeOK
<1>4. TypeOK'
  BY <1>1, <1>2, <1>3 DEF TypeOK
<1>5. Ranges(m)' /\ OwnRequests(m)'
  BY <1>1, <1>2, <1>3 DEF AttemptSound, Ranges, OwnRequests, OwnRequest, Blocks
<1>6. SourceKept(m) /\ DestKept(m) => SourceKept(m)' /\ DestKept(m)'
  BY <1>3 DEF SourceKept, DestKept, Blocks
<1>7. AttemptSound(m)'
  BY <1>1, <1>3, <1>5, <1>6 DEF AttemptSound
<1>8. QED
  BY <1>1, <1>3, <1>4, <1>7, OneAttempt

\* A late request is executed: one of the attempt under way, while it copies or
\* patches, writes nothing past the size of the source and leaves the source.
LEMMA StepExecuteLate ==
  ASSUME OneMover, MoveInv, NEW r \in late, ExecuteLate(r)
  PROVE  MoveInv'
<1>1. PICK m : Mover = {m}
  BY DEF OneMover
<1>2. m \in Mover /\ TypeOK /\ ~lost /\ AttemptSound(m)
  BY <1>1 DEF MoveInv, DeletedOnlyWhenMoved
<1>3. r \in Request /\ mover[m] \in MoverState
  BY <1>2 DEF TypeOK
<1>4. late' = late \ {r} /\ stale' = stale \ {r} /\ UNCHANGED <<mover, bounds, lost>>
      /\ disturbed \subseteq disturbed' /\ disturbed' \subseteq Mover
      /\ (m \notin disturbed' => mover[m].pc \in {"idle", "move", "sign"} /\ (mover[m].pc = "idle" \/ r \notin stale))
  BY <1>2, <1>3 DEF ExecuteLate, TypeOK, MoverState
<1>5. src' \in Store /\ dst' \in Store
      /\ (m \notin disturbed' /\ mover[m].pc # "idle" => SourceKept(m)' /\ DestKept(m)')
  <2>1. CASE Execute(r)
    <3>1. src \in Store /\ dst \in Store
      BY <1>2 DEF TypeOK
    <3>2. src' \in Store /\ dst' \in Store
      BY <1>3, <2>1, <3>1, ExecuteStores
    <3>3. ASSUME m \notin disturbed', mover[m].pc # "idle" PROVE SourceKept(m)' /\ DestKept(m)'
      <4>1. SourceKept(m) /\ DestKept(m)
        BY <1>2, <1>4, <3>3 DEF AttemptSound
      <4>2. OwnRequest(m, r) /\ mover[m].pc \in {"move", "sign"}
        BY <1>2, <1>4, <3>3 DEF AttemptSound, OwnRequests
      <4>3. r.op \in {"send", "apply", "truncate"}
        BY <1>3, <4>2, RequestFields DEF OwnRequest
      <4>4. mover[m].size \in 0..MaxSize
        BY <1>3 DEF MoverState
      <4>5. (r.op \in {"send", "apply"} => r.i <= mover[m].size) /\ (r.op = "truncate" => r.n = mover[m].size)
        <5>1. r.op \in {"send", "apply"} => r.i \in 1..mover[m].size
          BY <4>2 DEF OwnRequest, Blocks
        <5>2. r.op = "truncate" => r.n = mover[m].size
          BY <4>2 DEF OwnRequest
        <5>3. QED
          BY <4>4, <5>1, <5>2
      <4>6. src' = src /\ (Fits(dst, mover[m].size) => Fits(dst', mover[m].size))
        <5>1. src' = src
          BY <1>3, <2>1, <3>1, <4>3, ExecuteStores
        <5>2. ASSUME Fits(dst, mover[m].size) PROVE Fits(dst', mover[m].size)
          BY <1>3, <2>1, <3>1, <4>4, <4>5, <5>2, ExecuteStores
        <5>3. QED
          BY <5>1, <5>2
      <4>7. SourceKept(m)'
        BY <1>4, <4>1, <4>6 DEF SourceKept, Blocks
      <4>8. mover[m].shorten \/ Fits(dst', mover[m].size)
        BY <1>2, <4>1, <4>6, DestFits
      <4>9. DestKept(m)'
        BY <1>4, <4>1, <4>2, <4>8 DEF DestKept, Fits
      <4>10. QED
        BY <4>7, <4>9
    <3>4. QED
      BY <3>2, <3>3
  <2>2. CASE UNCHANGED <<src, dst>>
    <3>1. src' \in Store /\ dst' \in Store
      BY <1>2, <2>2 DEF TypeOK
    <3>2. ASSUME m \notin disturbed', mover[m].pc # "idle" PROVE SourceKept(m)' /\ DestKept(m)'
      <4>1. SourceKept(m) /\ DestKept(m)
        BY <1>2, <1>4, <3>2 DEF AttemptSound
      <4>2. QED
        BY <1>4, <2>2, <4>1 DEF SourceKept, DestKept, Blocks
    <3>3. QED
      BY <3>1, <3>2
  <2>3. QED
    BY <2>1, <2>2 DEF ExecuteLate
<1>6. TypeOK'
  BY <1>2, <1>4, <1>5 DEF TypeOK, bounds
<1>7. Ranges(m)' /\ OwnRequests(m)'
  BY <1>2, <1>4 DEF AttemptSound, Ranges, OwnRequests, OwnRequest, Blocks
<1>8. AttemptSound(m)'
  BY <1>4, <1>5, <1>7 DEF AttemptSound
<1>9. QED
  BY <1>2, <1>4, <1>6, <1>8, OneAttempt
-----------------------------------------------------------------------------
(* The theorem. *)

LEMMA MoveInit ==
  ASSUME Init
  PROVE  MoveInv
<1>1. TypeOK
  <2>1. src \in Store
    BY DEF Init, Store
  <2>2. mover \in [Mover -> MoverState]
    BY IdleState DEF Init
  <2>3. lost \in BOOLEAN
    BY Zenon DEF Init
  <2>4. QED
    BY <2>1, <2>2, <2>3 DEF Init, TypeOK
<1>2. ASSUME NEW m \in Mover PROVE AttemptSound(m)
  BY DEF Init, AttemptSound, Ranges, OwnRequests, Idle, Attempt, Blocks
<1>3. QED
  BY <1>1, <1>2 DEF Init, MoveInv, DeletedOnlyWhenMoved

LEMMA MoveStep ==
  ASSUME OneMover, MoveInv, [Next]_vars
  PROVE  MoveInv'
<1>1. ASSUME NEW c \in Content, Save(c) PROVE MoveInv'
  BY <1>1, StepSave
<1>2. ASSUME NEW m \in Mover, Step(m) PROVE MoveInv'
  <2>1. CASE List(m)
    BY <2>1, StepList
  <2>2. CASE Read(m)
    BY <2>2, StepRead
  <2>3. CASE Copied(m)
    BY <2>3, StepCopied
  <2>4. CASE Compare(m)
    BY <2>4, StepCompare
  <2>5. CASE SignAndDiff(m)
    BY <2>5, StepSignAndDiff
  <2>6. CASE Rsynced(m)
    BY <2>6, StepRsynced
  <2>7. CASE NotFound(m)
    <3>1. saves \in 0..MaxSaves /\ fails \in 0..MaxFails /\ lates \in 0..MaxLate
      BY DEF MoveInv, DeletedOnlyWhenMoved, TypeOK
    <3>2. QED
      BY <2>7, <3>1, EndAttempt DEF NotFound, bounds
  <2>8. ASSUME NEW i \in 1..MaxSize, HashSource(m, i) \/ HashDest(m, i) PROVE MoveInv'
    BY <2>8, StepHashSource, StepHashDest
  <2>9. ASSUME NEW r \in Pending(m), Call(m, r) PROVE MoveInv'
    <3>1. TypeOK /\ Ranges(m)
      BY DEF MoveInv, DeletedOnlyWhenMoved, AttemptSound
    <3>2. r.op \in {"send", "truncate", "apply", "finish", "delete"}
      BY <3>1, PendingOwn
    <3>3. QED
      BY <2>9, <3>2, CallSend, CallTruncate, CallApply, CallFinish, CallDelete
  <2>10. QED
    BY <1>2, <2>1, <2>2, <2>3, <2>4, <2>5, <2>6, <2>7, <2>8, <2>9 DEF Step
<1>3. ASSUME NEW m \in Mover, Fail(m) PROVE MoveInv'
  <2>1. saves \in 0..MaxSaves /\ fails' \in 0..MaxFails /\ lates \in 0..MaxLate
    BY <1>3 DEF MoveInv, DeletedOnlyWhenMoved, TypeOK, Fail
  <2>2. QED
    BY <1>3, <2>1, EndAttempt DEF Fail
<1>4. ASSUME NEW m \in Mover, NEW r \in Pending(m), Repeat(m, r) PROVE MoveInv'
  BY <1>4, StepRepeat
<1>5. ASSUME NEW r \in late, ExecuteLate(r) PROVE MoveInv'
  BY <1>5, StepExecuteLate
<1>6. CASE UNCHANGED vars
  <2>1. TypeOK' /\ ~lost'
    BY <1>6 DEF vars, MoveInv, DeletedOnlyWhenMoved, TypeOK
  <2>2. ASSUME NEW m \in Mover PROVE AttemptSound(m)'
    <3>1. AttemptSound(m)
      BY DEF MoveInv
    <3>2. Ranges(m)' /\ OwnRequests(m)'
      BY <1>6, <3>1 DEF vars, AttemptSound, Ranges, OwnRequests, OwnRequest, Blocks
    <3>3. SourceKept(m) /\ DestKept(m) => SourceKept(m)' /\ DestKept(m)'
      BY <1>6 DEF vars, SourceKept, DestKept, Blocks
    <3>4. QED
      BY <1>6, <3>1, <3>2, <3>3 DEF vars, AttemptSound
  <2>3. QED
    BY <2>1, <2>2 DEF MoveInv, DeletedOnlyWhenMoved
<1>7. QED
  BY <1>1, <1>2, <1>3, <1>4, <1>5, <1>6 DEF Next

\* With one mover, the inductive invariant: an attempt that nothing disturbed
\* has the hashes of the source as it is, and a destination that becomes equal
\* to it before the last two calls (movedirs.rs, move_file).
THEOREM InvCorrect == ASSUME OneMover PROVE Spec => []MoveInv
<1>1. Init => MoveInv
  BY MoveInit
<1>2. MoveInv /\ [Next]_vars => MoveInv'
  BY MoveStep
<1>3. QED
  BY <1>1, <1>2, PTL DEF Spec

\* With one mover, the source is deleted only once the destination has its
\* content in final form, from any destination and with any number of failed,
\* repeated and late calls, unless the source or the destination was disturbed
\* where the code has no protection (check_hashes_and_delete).
THEOREM DeletedOnlyWhenMovedCorrect == ASSUME OneMover PROVE Spec => []DeletedOnlyWhenMoved
<1>1. MoveInv => DeletedOnlyWhenMoved
  BY DEF MoveInv
<1>2. QED
  BY <1>1, InvCorrect, PTL
=============================================================================
