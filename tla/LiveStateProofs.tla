--------------------------- MODULE LiveStateProofs ---------------------------
(***************************************************************************)
(* Proofs about LiveState, for any sockets, any number of commits, losses  *)
(* and drops, and any limits of the registry, the receivers and the        *)
(* history.                                                                *)
(***************************************************************************)
EXTENDS LiveState, SequenceTheorems, WellFoundedInduction, TLAPS

(***************************************************************************)
(* Types of everything but the clients and the history of the feed.        *)
(***************************************************************************)

Readings == [revision : Nat, built : Nat, queue : Bits, history : Bits]
Receivers == [lagged : BOOLEAN, events : Seq(Events)]

SystemTyped ==
    /\ db \in [queue : Bits, history : Bits]
    /\ commits \in Nat
    /\ pg \in Seq(Notes)
    /\ listener \in {"on", "off", "gap"}
    /\ batch \in Pendings \cup {None}
    /\ unpublished \subseteq Notes
    /\ registry \in Seq(Nat)
    /\ revision \in Nat
    /\ inbox \in [Sockets -> Receivers]

ReaderTyped ==
    /\ cache \in Snapshots \cup {None}
    /\ feed \in Views \cup {None}
    /\ pc \in [Sockets -> {"fetch", "off", "idle", "refresh", "load", "snapshot",
                           "build", "check", "deliver"}]
    /\ task \in [Sockets -> {"http", "live", "beat"}]
    /\ event \in [Sockets -> Events \cup {None}]
    /\ read \in [Sockets -> Readings]
    /\ DOMAIN client = Sockets

(***************************************************************************)
(* Commits that are still to be announced.                                 *)
(***************************************************************************)

\* The elements of a sequence.
Items(q) == {q[i] : i \in 1 .. Len(q)}

\* The notifications on their way, and those the listener has in hand.
OnTheWay == Items(pg)
InHand == IF batch = None THEN {} ELSE Items(batch.moves) \cup Items(batch.trials)
Claimed == IF batch = None THEN {} ELSE batch.fresh
Around == OnTheWay \cup InHand \cup Claimed \cup unpublished

\* A notification that will be announced when the listener comes to it, and
\* whose commit changed the queue.
Owes(n) == n.kind = "state" \/ (n.kind \in {"colour", "sequence"} /\ ~ Known(n))

\* A commit to the history, or to the queue, is still to be announced here.
HistoryDue ==
    \/ listener # "on"
    \/ \E n \in OnTheWay : n.kind = "state"
    \/ batch # None /\ batch.generic

QueueDue ==
    \/ listener # "on"
    \/ \E n \in OnTheWay \cup InHand : Owes(n)
    \/ \E n \in Claimed : n.kind = "colour"
    \/ batch # None /\ batch.generic

(***************************************************************************)
(* The inductive invariant.                                                *)
(***************************************************************************)

\* An identity belongs to one commit, and none is known before its commit.
IdsSound ==
    /\ \A m, n \in Around : m.id = n.id => m.kind = n.kind
    /\ \A n \in Around : n.id <= commits
    /\ \A i \in Items(registry) : i <= commits

\* The listener sorted what it has in hand.
BatchSound ==
    batch # None =>
        /\ \A n \in Items(batch.moves) : n.kind = "sequence"
        /\ \A n \in Items(batch.trials) : n.kind \in Scoped
        /\ \A n \in batch.fresh : n.kind \in Scoped

\* Nothing is labelled with a revision that is still to come.
RevisionsSound ==
    /\ cache # None => cache.revision <= revision
    /\ feed # None => feed.revision <= revision
    /\ \A s \in Sockets :
        /\ read[s].revision <= revision /\ read[s].built <= revision
        /\ event[s] # None => event[s].revision <= revision
        /\ \A e \in Items(inbox[s].events) : e.revision <= revision

QueueOK(v) == v.queue = db.queue \/ QueueDue
HistoryOK(v) == v.history = db.history \/ HistoryDue

\* What is labelled with the current revision is what is committed, unless an
\* announcement is due.
FeedSound == feed # None /\ feed.revision = revision => QueueOK(feed) /\ HistoryOK(feed)
CacheSound == cache # None /\ cache.revision = revision => QueueOK(cache)
ReadSound(s) ==
    /\ pc[s] \in {"snapshot", "build", "check"} /\ read[s].revision = revision
        => HistoryOK(read[s])
    /\ pc[s] \in {"build", "check"} /\ read[s].built = revision => QueueOK(read[s])

\* A colour event that took the revision one step beyond the feed leaves the
\* feed's history as it was, and one about another machine its queue too.
EventSound(e) ==
    e.kind \in Scoped /\ e.revision = revision /\ feed # None /\ feed.revision + 1 = revision
        => HistoryOK(feed) /\ (e.kind = "elsewhere" => QueueOK(feed))

EventsSound(s) ==
    /\ event[s] # None => event[s].kind \in Scoped /\ EventSound(event[s])
    /\ \A e \in Items(inbox[s].events) : EventSound(e)

\* A socket that waits with nothing in its receiver has seen the current feed.
AwakeSound(s) ==
    /\ pc[s] \in {"refresh", "deliver", "idle"} => task[s] # "http"
    /\ pc[s] \in {"deliver", "idle"} =>
        /\ feed # None
        /\ inbox[s] = Nothing => feed.revision = revision

\* One builder at a time, who builds what is not cached; what was read and
\* answered under the cached revision is what is cached.
SnapshotSound(s) ==
    /\ pc[s] = "build" => builder = s /\ (cache # None => cache.revision # read[s].built)
    /\ pc[s] = "check" =>
        /\ cache # None
        /\ read[s].built <= cache.revision
        /\ read[s].built = cache.revision => read[s].queue = cache.queue
    /\ pc[s] = "off" /\ task[s] = "http" =>
        /\ cache # None
        /\ client[s].revision \in Nat
        /\ client[s].revision <= cache.revision
        /\ client[s].revision = cache.revision => client[s].queue = cache.queue

IInv ==
    /\ SystemTyped
    /\ ReaderTyped
    /\ IdsSound
    /\ BatchSound
    /\ RevisionsSound
    /\ FeedSound
    /\ CacheSound
    /\ \A s \in Sockets : ReadSound(s) /\ EventsSound(s) /\ AwakeSound(s) /\ SnapshotSound(s)

-----------------------------------------------------------------------------
(***************************************************************************)
(* Sequences: what is in them after an append or without their head.       *)
(***************************************************************************)

\* Appending adds one element, at the end.
LEMMA AppendItems ==
    ASSUME NEW S, NEW q \in Seq(S), NEW x \in S
    PROVE  /\ Append(q, x) \in Seq(S)
           /\ Items(Append(q, x)) = Items(q) \cup {x}
           /\ Append(q, x) # <<>>
<1> DEFINE a == Append(q, x)
<1>1. a \in Seq(S) /\ Len(a) = Len(q) + 1 /\ Len(q) \in Nat
  OBVIOUS
<1>2. a[Len(q) + 1] = x /\ \A i \in 1 .. Len(q) : a[i] = q[i]
  OBVIOUS
<1> HIDE DEF a
<1>3. Items(a) \subseteq Items(q) \cup {x}
  <2> SUFFICES ASSUME NEW i \in 1 .. Len(a) PROVE a[i] \in Items(q) \cup {x}
    BY DEF Items
  <2>1. CASE i = Len(q) + 1
    BY <2>1, <1>2
  <2>2. CASE i \in 1 .. Len(q)
    BY <2>2, <1>2 DEF Items
  <2> QED  BY <1>1, <2>1, <2>2
<1>4. Items(q) \subseteq Items(a)
  <2> SUFFICES ASSUME NEW i \in 1 .. Len(q) PROVE q[i] \in Items(a)
    BY DEF Items
  <2>1. i \in 1 .. Len(a) /\ a[i] = q[i]
    BY <1>1, <1>2
  <2> QED  BY <2>1 DEF Items
<1>5. x \in Items(a)
  <2>1. Len(q) + 1 \in 1 .. Len(a)
    BY <1>1
  <2> QED  BY <1>2, <2>1 DEF Items
<1>6. a # <<>>
  BY <1>1
<1> QED  BY <1>1, <1>3, <1>4, <1>5, <1>6 DEF a

\* A sequence is its head and its tail.
LEMMA TailItems ==
    ASSUME NEW S, NEW q \in Seq(S), q # <<>>
    PROVE  /\ Head(q) \in S
           /\ Tail(q) \in Seq(S)
           /\ Items(q) = {Head(q)} \cup Items(Tail(q))
<1> DEFINE t == Tail(q)
<1>1. Len(q) \in Nat /\ Len(q) # 0 /\ Head(q) = q[1] /\ q[1] \in S
  BY EmptySeq, ElementOfSeq
<1>2. t \in Seq(S) /\ Len(t) = Len(q) - 1 /\ \A i \in 1 .. Len(t) : t[i] = q[i + 1]
  BY <1>1
<1> HIDE DEF t
<1>3. Items(q) \subseteq {Head(q)} \cup Items(t)
  <2> SUFFICES ASSUME NEW i \in 1 .. Len(q) PROVE q[i] \in {Head(q)} \cup Items(t)
    BY DEF Items
  <2>1. CASE i = 1
    BY <2>1, <1>1
  <2>2. CASE i # 1
    <3>1. i - 1 \in 1 .. Len(t) /\ t[i - 1] = q[i]
      BY <1>1, <1>2, <2>2
    <3> QED  BY <3>1 DEF Items
  <2> QED  BY <2>1, <2>2
<1>4. Items(t) \subseteq Items(q)
  <2> SUFFICES ASSUME NEW i \in 1 .. Len(t) PROVE t[i] \in Items(q)
    BY DEF Items
  <2>1. i + 1 \in 1 .. Len(q) /\ t[i] = q[i + 1]
    BY <1>1, <1>2
  <2> QED  BY <2>1 DEF Items
<1>5. Head(q) \in Items(q)
  <2>1. 1 \in 1 .. Len(q)
    BY <1>1
  <2> QED  BY <1>1, <2>1 DEF Items
<1> QED  BY <1>1, <1>2, <1>3, <1>4, <1>5 DEF t

\* The empty sequence has no elements.
LEMMA NoItems == Items(<<>>) = {} /\ \A S : <<>> \in Seq(S)
BY DEF Items

\* Remembering an identity adds no other, and changes nothing when it is known.
LEMMA RememberEffect ==
    ASSUME registry \in Seq(Nat), NEW id \in Nat, Remember(id)
    PROVE  /\ registry' \in Seq(Nat)
           /\ Items(registry') \subseteq Items(registry) \cup {id}
           /\ id \in Items(registry) => registry' = registry
<1> DEFINE all == Append(registry, id)
<1>1. Contains(registry, id) <=> id \in Items(registry)
  BY DEF Contains, Items
<1>2. all \in Seq(Nat) /\ Items(all) = Items(registry) \cup {id} /\ all # <<>>
  BY AppendItems
<1>3. Tail(all) \in Seq(Nat) /\ Items(Tail(all)) \subseteq Items(all)
  <2> HIDE DEF all
  <2> QED  BY <1>2, TailItems
<1> HIDE DEF all
<1>4. registry' \in {registry, all, Tail(all)} /\ (Contains(registry, id) => registry' = registry)
  BY DEF Remember, all
<1> QED  BY <1>1, <1>2, <1>3, <1>4

\* Known, by the elements of the registry.
LEMMA KnownItems == \A n : Known(n) <=> n.id \in Items(registry)
BY DEF Known, Contains, Items

-----------------------------------------------------------------------------
(***************************************************************************)
(* The steps: those of the system announce, those of a reader read.        *)
(***************************************************************************)

System ==
    \/ \E kind \in Kinds, changed \in SUBSET DOMAIN db, here \in BOOLEAN :
          Commit(kind, changed, here)
    \/ \E n \in unpublished : PublishHere(n) \/ DropHere(n)
    \/ \E kept \in BOOLEAN : LoseConnection(kept)
    \/ Listener

Reader(s) == Socket(s) \/ Heartbeat(s) \/ Hangup(s)

\* Every step is one of the system or of one reader.
LEMMA StepCases ==
    ASSUME [Next]_vars
    PROVE  UNCHANGED vars \/ System \/ \E s \in Sockets : Reader(s)
BY Zenon DEF Next, System, Reader

\* The system leaves the readers alone, and the readers the system.
LEMMA SystemFrame ==
    ASSUME System
    PROVE  UNCHANGED <<cache, builder, feed, log, owner, pc, task, event, read, reads, client>>
BY DEF System, Listener, Commit, PublishHere, DropHere, LoseConnection, Receive, PublishMove,
       ClaimTrial, PublishBatch, Listen, InvalidateAfterGap, feedVars, socketVars

\* A socket's own steps leave the database, the listener and the registry alone.
LEMMA ReaderFrame ==
    ASSUME NEW s \in Sockets, Reader(s)
    PROVE  UNCHANGED <<db, commits, pg, unpublished, listener, batch, registry, revision>>
BY DEF Reader, Socket, Fetch, Connect, Wake, Advance, Refresh, ReadHistory, ReadSnapshot, Store,
       Answer, Again, Deliver, Resync, Publish, Heartbeat, Hangup, dbVars, listenerVars, eventVars

\* A stuttering step changes nothing.
LEMMA StutterFrame ==
    ASSUME UNCHANGED vars
    PROVE  UNCHANGED <<db, commits, pg, unpublished, listener, batch, registry, revision, inbox,
                       cache, builder, feed, log, owner, pc, task, event, read, reads, client>>
BY DEF vars, dbVars, listenerVars, eventVars, feedVars, socketVars

\* A step that announces nothing leaves an announcement due that was due, and
\* makes one due for what it commits.
Quiet ==
    /\ UNCHANGED <<revision, inbox>>
    /\ QueueDue => QueueDue'
    /\ HistoryDue => HistoryDue'
    /\ db'.queue # db.queue => QueueDue'
    /\ db'.history # db.history => HistoryDue'

\* An announcement of a colour trial leaves the announcement of a commit to the
\* history due, and that of a trial on another machine any announcement.
Loud ==
    \E k \in AllKinds :
        /\ Announce(k)
        /\ UNCHANGED db
        /\ k \in Scoped => (HistoryDue => HistoryDue')
        /\ k = "elsewhere" => (QueueDue => QueueDue')

\* The system's own part of the invariant, without the receivers.
SystemSound ==
    /\ db \in [queue : Bits, history : Bits]
    /\ commits \in Nat
    /\ pg \in Seq(Notes)
    /\ listener \in {"on", "off", "gap"}
    /\ batch \in Pendings \cup {None}
    /\ unpublished \subseteq Notes
    /\ registry \in Seq(Nat)
    /\ IdsSound
    /\ BatchSound

\* What an announcement of identity id can change about what is owed.
LEMMA OwesKept ==
    ASSUME registry \in Seq(Nat), NEW id \in Nat, Remember(id), NEW n, n.id # id, Owes(n)
    PROVE  Owes(n)'
<1>1. Items(registry') \subseteq Items(registry) \cup {id}
  BY RememberEffect
<1>2. Known(n)' => n.id \in Items(registry')
  BY DEF Known, Contains, Items
<1>3. n.id \in Items(registry) => Known(n)
  BY KnownItems
<1> QED  BY <1>1, <1>2, <1>3 DEF Owes

\* A pending batch is no None.
LEMMA PendingIsNotNone == \A b \in Pendings : b # None
BY NoneAssumption

\* Whatever is around is a notification.
LEMMA AroundTyped ==
    ASSUME SystemTyped
    PROVE  \A n \in Around : n \in Notes
<1>1. \A q \in Seq(Notes) : Items(q) \subseteq Notes
  BY ElementOfSeq DEF Items
<1>2. batch # None => Items(batch.moves) \subseteq Notes /\ Items(batch.trials) \subseteq Notes
                     /\ batch.fresh \subseteq Notes
  BY <1>1 DEF SystemTyped, Pendings
<1> QED  BY <1>1, <1>2 DEF Around, OnTheWay, InHand, Claimed, SystemTyped

\* A commit.
LEMMA CommitStep ==
    ASSUME IInv, NEW kind \in Kinds, NEW changed \in SUBSET DOMAIN db, NEW here \in BOOLEAN,
           Commit(kind, changed, here)
    PROVE  Quiet /\ SystemSound'
<1>n. PICK n : n = [kind |-> kind, id |-> commits + 1]
  OBVIOUS
<1>t. SystemTyped /\ IdsSound /\ BatchSound
  BY DEF IInv
<1>1. /\ changed \subseteq Writes[kind]
      /\ commits' = commits + 1
      /\ db' = [f \in DOMAIN db |-> IF f \in changed THEN 1 - db[f] ELSE db[f]]
      /\ pg' = (IF listener = "off" THEN pg ELSE Append(pg, n))
      /\ unpublished' = (IF here THEN unpublished \union {n} ELSE unpublished)
      /\ UNCHANGED <<listener, batch, registry, revision, inbox>>
  BY <1>n DEF Commit, listenerVars, eventVars
<1>2. n \in Notes /\ n.id = commits + 1 /\ n.kind = kind
  BY <1>n, <1>t, KindsAssumption DEF Notes, SystemTyped
<1>3. DOMAIN db = {"queue", "history"} /\ db.queue \in Bits /\ db.history \in Bits
  BY <1>t DEF SystemTyped
<1>4. db' \in [queue : Bits, history : Bits]
      /\ db'.queue = (IF "queue" \in changed THEN 1 - db.queue ELSE db.queue)
      /\ db'.history = (IF "history" \in changed THEN 1 - db.history ELSE db.history)
  BY <1>1, <1>3 DEF Bits
<1>5. pg' \in Seq(Notes) /\ OnTheWay \subseteq OnTheWay' /\ OnTheWay' \subseteq OnTheWay \cup {n}
      /\ (listener # "off" => n \in OnTheWay')
  BY <1>1, <1>2, <1>t, AppendItems DEF OnTheWay, SystemTyped
<1>6. InHand' = InHand /\ Claimed' = Claimed /\ \A x : Known(x)' <=> Known(x)
  BY <1>1 DEF InHand, Claimed, Known
<1>7. ~ Known(n)
  <2>1. n.id \notin Items(registry)
    BY <1>t, <1>2 DEF IdsSound, SystemTyped
  <2> QED  BY <2>1, KnownItems
<1>8. \A x : Owes(x) <=> Owes(x)'
  BY <1>6 DEF Owes
<1>9. QueueDue => QueueDue'
  BY <1>1, <1>5, <1>6, <1>8 DEF QueueDue
<1>10. HistoryDue => HistoryDue'
  BY <1>1, <1>5 DEF HistoryDue
<1>11. (kind \in {"state", "colour", "sequence"}) => QueueDue'
  <2>1. (kind \in {"state", "colour", "sequence"}) => (n.kind = "state" \/ (n.kind \in {"colour", "sequence"} /\ ~ Known(n)'))
    BY <1>2, <1>6, <1>7
  <2>2. listener' # "on" \/ n \in OnTheWay'
    BY <1>1, <1>5
  <2> QED  BY <2>1, <2>2 DEF QueueDue, Owes
<1>12. kind = "state" => HistoryDue'
  BY <1>1, <1>2, <1>5 DEF HistoryDue
<1>13. (db'.queue # db.queue => QueueDue') /\ (db'.history # db.history => HistoryDue')
  <2>1. "queue" \in changed => kind \in {"state", "colour", "sequence"}
    BY <1>1, KindsAssumption DEF Writes, AllKinds
  <2>2. "history" \in changed => kind = "state"
    BY <1>1, KindsAssumption DEF Writes, AllKinds
  <2> QED  BY <1>4, <1>11, <1>12, <2>1, <2>2
<1>14. Around' \subseteq Around \cup {n}
  BY <1>1, <1>5, <1>6 DEF Around
<1>15. IdsSound'
  <2>1. \A x \in Around : x.id <= commits /\ x \in Notes
    BY <1>t, AroundTyped DEF IdsSound
  <2>2. \A x \in Around : x.id \in Nat /\ x.id # n.id /\ x.id <= commits'
    BY <2>1, <1>1, <1>2, <1>t DEF Notes, SystemTyped
  <2>3. \A x \in Around' : x.id <= commits'
    BY <1>1, <1>2, <1>14, <1>t, <2>2 DEF SystemTyped
  <2>4. \A x, y \in Around' : x.id = y.id => x.kind = y.kind
    BY <1>14, <1>t, <2>2 DEF IdsSound
  <2>5. \A i \in Items(registry') : i <= commits'
    <3>1. \A i \in Items(registry) : i \in Nat
      BY <1>t, ElementOfSeq DEF Items, SystemTyped
    <3> QED  BY <1>1, <1>t, <3>1 DEF IdsSound, SystemTyped
  <2> QED  BY <2>3, <2>4, <2>5 DEF IdsSound
<1>16. BatchSound'
  BY <1>1, <1>t DEF BatchSound
<1>17. Quiet
  BY <1>1, <1>9, <1>10, <1>13 DEF Quiet
<1> QED  BY <1>1, <1>2, <1>4, <1>5, <1>15, <1>16, <1>17, <1>t DEF SystemSound, SystemTyped

\* A step that commits nothing and brings no notification keeps the identities.
LEMMA IdsKept ==
    ASSUME SystemTyped, IdsSound, commits' = commits, Around' \subseteq Around,
           \A i \in Items(registry') : i \in Items(registry) \/ \E x \in Around : i = x.id
    PROVE  IdsSound'
<1>1. \A i \in Items(registry') : i <= commits
  BY DEF IdsSound
<1> QED  BY <1>1 DEF IdsSound

\* Pending::add sorts a notification by its kind.
LEMMA AddedEffect ==
    ASSUME NEW b \in Pendings, NEW n \in Notes, NEW r, r = Added(b, n)
    PROVE  /\ r \in Pendings
           /\ Items(r.moves) = (IF n.kind = "sequence" THEN Items(b.moves) \cup {n} ELSE Items(b.moves))
           /\ Items(r.trials) = (IF n.kind \in Scoped THEN Items(b.trials) \cup {n} ELSE Items(b.trials))
           /\ r.fresh = b.fresh
           /\ (b.generic \/ n.kind = "state") => r.generic
<1>1. b.moves \in Seq(Notes) /\ b.trials \in Seq(Notes) /\ b.fresh \subseteq Notes /\ b.generic \in BOOLEAN
      /\ b.stage \in {"collect", "moves", "claim"}
  BY DEF Pendings
<1> DEFINE mv == IF n.kind = "sequence" THEN Append(b.moves, n) ELSE b.moves
           tr == IF n.kind \in Scoped THEN Append(b.trials, n) ELSE b.trials
           ge == b.generic \/ n.kind = "state"
<1>a. ASSUME NEW q \in Seq(Notes)
      PROVE  Append(q, n) \in Seq(Notes) /\ Items(Append(q, n)) = Items(q) \cup {n}
  BY AppendItems
<1>2. mv \in Seq(Notes) /\ Items(mv) = (IF n.kind = "sequence" THEN Items(b.moves) \cup {n} ELSE Items(b.moves))
  BY <1>1, <1>a
<1>3. tr \in Seq(Notes) /\ Items(tr) = (IF n.kind \in Scoped THEN Items(b.trials) \cup {n} ELSE Items(b.trials))
  BY <1>1, <1>a
<1>4. ge \in BOOLEAN
  OBVIOUS
<1>5. r = [b EXCEPT !.moves = mv, !.trials = tr, !.generic = ge]
  BY DEF Added
<1> HIDE DEF mv, tr, ge
<1>6. r \in Pendings /\ r.moves = mv /\ r.trials = tr /\ r.fresh = b.fresh /\ r.generic = ge
  BY <1>1, <1>2, <1>3, <1>4, <1>5 DEF Pendings
<1>7. (b.generic \/ n.kind = "state") => r.generic
  BY <1>6 DEF ge
<1> QED  BY <1>2, <1>3, <1>6, <1>7

\* A notification arrives.
LEMMA ReceiveStep ==
    ASSUME IInv, Receive
    PROVE  Quiet /\ SystemSound'
<1>t. SystemTyped /\ IdsSound /\ BatchSound
  BY DEF IInv
<1>1. PICK n, b : n = Head(pg) /\ b = (IF batch = None THEN NoPending ELSE batch)
  OBVIOUS
<1>2. /\ listener = "on" /\ pg # <<>>
      /\ batch' = Added(b, n) /\ pg' = Tail(pg)
      /\ UNCHANGED <<db, commits, unpublished, listener, registry, revision, inbox>>
  BY <1>1 DEF Receive, eventVars
<1>3. n \in Notes /\ pg' \in Seq(Notes) /\ OnTheWay = {n} \cup OnTheWay'
  BY <1>1, <1>2, <1>t, TailItems DEF OnTheWay, SystemTyped
<1>4. /\ b \in Pendings
      /\ InHand = Items(b.moves) \cup Items(b.trials) /\ Claimed = b.fresh
      /\ (batch # None /\ batch.generic) => b.generic
      /\ \A x \in Items(b.moves) : x.kind = "sequence"
      /\ \A x \in Items(b.trials) : x.kind \in Scoped
      /\ \A x \in b.fresh : x.kind \in Scoped
  <2>1. CASE batch = None
    <3>1. b = NoPending
      BY <1>1, <2>1
    <3>2. b.moves = <<>> /\ b.trials = <<>> /\ b.fresh = {} /\ b \in Pendings
      BY <3>1, NoItems DEF NoPending, Pendings
    <3> QED  BY <2>1, <3>2, NoItems DEF InHand, Claimed
  <2>2. CASE batch # None
    BY <1>1, <1>t, <2>2 DEF InHand, Claimed, BatchSound, SystemTyped
  <2> QED  BY <2>1, <2>2
<1>5. /\ batch' \in Pendings /\ batch' # None
      /\ Items(batch'.moves) = (IF n.kind = "sequence" THEN Items(b.moves) \cup {n} ELSE Items(b.moves))
      /\ Items(batch'.trials) = (IF n.kind \in Scoped THEN Items(b.trials) \cup {n} ELSE Items(b.trials))
      /\ batch'.fresh = b.fresh
      /\ (b.generic \/ n.kind = "state") => batch'.generic
  <2>1. PICK r : r = Added(b, n)
    OBVIOUS
  <2>2. b \in Pendings /\ n \in Notes
    BY <1>3, <1>4
  <2>3. /\ r \in Pendings
        /\ Items(r.moves) = (IF n.kind = "sequence" THEN Items(b.moves) \cup {n} ELSE Items(b.moves))
        /\ Items(r.trials) = (IF n.kind \in Scoped THEN Items(b.trials) \cup {n} ELSE Items(b.trials))
        /\ r.fresh = b.fresh
        /\ (b.generic \/ n.kind = "state") => r.generic
    BY <2>1, <2>2, AddedEffect, ZenonT(60)
  <2>4. r # None
    BY <2>3, PendingIsNotNone
  <2>5. batch' = r
    BY <1>2, <2>1, Zenon
  <2> QED  BY <2>3, <2>4, <2>5, Zenon
<1>6. /\ InHand \subseteq InHand' /\ InHand' \subseteq InHand \cup {n} /\ Claimed' = Claimed
      /\ n.kind # "state" => n \in InHand'
  <2>1. n.kind \in {"sequence", "colour", "elsewhere", "state"}
    BY <1>3 DEF Notes, AllKinds
  <2>2. InHand' = Items(batch'.moves) \cup Items(batch'.trials) /\ Claimed' = batch'.fresh
    BY <1>5 DEF InHand, Claimed
  <2> QED  BY <1>4, <1>5, <2>1, <2>2 DEF Scoped
<1>7. \A x : Owes(x) <=> Owes(x)'
  BY <1>2 DEF Owes, Known
<1>8. QueueDue => QueueDue'
  <2> SUFFICES ASSUME QueueDue, listener = "on" PROVE QueueDue'
    BY <1>2 DEF QueueDue
  <2>1. CASE \E x \in Claimed : x.kind = "colour"
    BY <2>1, <1>6 DEF QueueDue
  <2>2. CASE batch # None /\ batch.generic
    BY <2>2, <1>4, <1>5 DEF QueueDue
  <2>3. CASE \E x \in OnTheWay \cup InHand : Owes(x)
    <3>1. PICK x \in OnTheWay \cup InHand : Owes(x)
      BY <2>3
    <3>2. CASE x \in OnTheWay' \cup InHand'
      BY <3>1, <3>2, <1>7 DEF QueueDue
    <3>3. CASE x = n /\ n.kind = "state"
      BY <3>3, <1>5 DEF QueueDue
    <3> QED  BY <3>1, <3>2, <3>3, <1>3, <1>6
  <2> QED  BY <2>1, <2>2, <2>3 DEF QueueDue
<1>9. HistoryDue => HistoryDue'
  BY <1>2, <1>3, <1>4, <1>5 DEF HistoryDue
<1>10. Around' \subseteq Around
  BY <1>2, <1>3, <1>6 DEF Around
<1>11. IdsSound'
  BY <1>t, <1>2, <1>10, IdsKept
<1>12. BatchSound'
  BY <1>4, <1>5 DEF BatchSound
<1>13. Quiet
  BY <1>2, <1>8, <1>9 DEF Quiet
<1> QED  BY <1>t, <1>2, <1>3, <1>5, <1>11, <1>12, <1>13 DEF SystemSound, SystemTyped

\* What is left of a batch after its first move.
LEMMA FirstMove ==
    ASSUME NEW b \in Pendings, NEW r,
           b.moves # <<>>, r = [b EXCEPT !.stage = "moves", !.moves = Tail(@)]
    PROVE  /\ r \in Pendings /\ Head(b.moves) \in Notes
           /\ Items(b.moves) = {Head(b.moves)} \cup Items(r.moves)
           /\ r.trials = b.trials /\ r.fresh = b.fresh /\ r.generic = b.generic
<1>1. b.moves \in Seq(Notes)
  BY DEF Pendings
<1>2. PICK q : q = Tail(b.moves)
  OBVIOUS
<1>3. q \in Seq(Notes) /\ Head(b.moves) \in Notes /\ Items(b.moves) = {Head(b.moves)} \cup Items(q)
  BY <1>1, <1>2, TailItems
<1>4. r = [b EXCEPT !.stage = "moves", !.moves = q]
  BY <1>2
<1> QED  BY <1>3, <1>4 DEF Pendings

\* What is left of a batch after its first trial.
LEMMA FirstTrial ==
    ASSUME NEW b \in Pendings, NEW f \in SUBSET Notes, NEW r,
           b.trials # <<>>, r = [b EXCEPT !.stage = "claim", !.trials = Tail(@), !.fresh = f]
    PROVE  /\ r \in Pendings /\ Head(b.trials) \in Notes
           /\ Items(b.trials) = {Head(b.trials)} \cup Items(r.trials)
           /\ r.moves = b.moves /\ r.fresh = f /\ r.generic = b.generic
<1>1. b.trials \in Seq(Notes)
  BY DEF Pendings
<1>2. PICK q : q = Tail(b.trials)
  OBVIOUS
<1>3. q \in Seq(Notes) /\ Head(b.trials) \in Notes /\ Items(b.trials) = {Head(b.trials)} \cup Items(q)
  BY <1>1, <1>2, TailItems
<1>4. r = [b EXCEPT !.stage = "claim", !.trials = q, !.fresh = f]
  BY <1>2
<1> QED  BY <1>3, <1>4 DEF Pendings

\* AnnounceOnce, by whether the identity is known.
LEMMA OnceEffect ==
    ASSUME registry \in Seq(Nat), NEW n \in Notes, AnnounceOnce(n)
    PROVE  /\ registry' \in Seq(Nat)
           /\ Items(registry') \subseteq Items(registry) \cup {n.id}
           /\ \/ Known(n) /\ UNCHANGED <<registry, revision, inbox>>
              \/ ~ Known(n) /\ Announce(n.kind)
<1>1. n.id \in Nat
  BY DEF Notes
<1>2. Known(n) => registry' = registry
  BY <1>1, RememberEffect, KnownItems DEF AnnounceOnce
<1> QED  BY <1>1, <1>2, RememberEffect DEF AnnounceOnce

\* A move of the batch is announced, or known.
LEMMA PublishMoveStep ==
    ASSUME IInv, PublishMove
    PROVE  (Quiet \/ Loud) /\ SystemSound'
<1>t. SystemTyped /\ IdsSound /\ BatchSound
  BY DEF IInv
<1>1. PICK n, b : n = Head(batch.moves) /\ b = batch
  OBVIOUS
<1>2. /\ b # None /\ b.moves # <<>> /\ n = Head(b.moves)
      /\ AnnounceOnce(n)
      /\ batch' = [b EXCEPT !.stage = "moves", !.moves = Tail(@)]
      /\ UNCHANGED <<db, commits, pg, unpublished, listener>>
  BY <1>1 DEF PublishMove, dbVars
<1>3. b \in Pendings
  BY <1>1, <1>2, <1>t DEF SystemTyped
<1>4. /\ batch' \in Pendings /\ batch' # None /\ n \in Notes
      /\ Items(b.moves) = {n} \cup Items(batch'.moves)
      /\ batch'.trials = b.trials /\ batch'.fresh = b.fresh /\ batch'.generic = b.generic
  BY <1>2, <1>3, FirstMove, PendingIsNotNone
<1>5. n.kind = "sequence"
  BY <1>1, <1>2, <1>4, <1>t DEF BatchSound
<1>6. /\ registry' \in Seq(Nat)
      /\ Items(registry') \subseteq Items(registry) \cup {n.id}
      /\ \/ Known(n) /\ UNCHANGED <<registry, revision, inbox>>
         \/ ~ Known(n) /\ Announce(n.kind)
  BY <1>2, <1>4, <1>t, OnceEffect DEF SystemTyped
<1>7. InHand = {n} \cup InHand' /\ Claimed' = Claimed /\ OnTheWay' = OnTheWay /\ n \in Around
  <2>1. InHand' = Items(batch'.moves) \cup Items(batch'.trials) /\ Claimed' = batch'.fresh
        /\ OnTheWay' = OnTheWay
    BY <1>2, <1>4 DEF InHand, Claimed, OnTheWay
  <2>2. InHand = Items(b.moves) \cup Items(b.trials) /\ Claimed = b.fresh
    BY <1>1, <1>2 DEF InHand, Claimed
  <2> QED  BY <2>1, <2>2, <1>4 DEF Around
<1>8. Quiet \/ Loud
  <2>1. CASE Known(n) /\ UNCHANGED <<registry, revision, inbox>>
    <3>1. ~ Owes(n) /\ \A x : Owes(x) <=> Owes(x)'
      BY <2>1, <1>5 DEF Owes, Known
    <3>2. QueueDue => QueueDue'
      BY <1>1, <1>2, <1>4, <1>7, <3>1 DEF QueueDue
    <3>3. HistoryDue => HistoryDue'
      BY <1>1, <1>2, <1>4, <1>7 DEF HistoryDue
    <3> QED  BY <1>2, <2>1, <3>2, <3>3 DEF Quiet
  <2>2. CASE ~ Known(n) /\ Announce(n.kind)
    <3>1. "sequence" \in AllKinds /\ "sequence" \notin Scoped
      BY DEF AllKinds, Scoped
    <3> QED  BY <2>2, <1>2, <1>5, <3>1 DEF Loud
  <2> QED  BY <1>6, <2>1, <2>2
<1>9. IdsSound'
  <2>1. Around' \subseteq Around
    BY <1>2, <1>7 DEF Around
  <2> QED  BY <1>t, <1>2, <1>6, <1>7, <2>1, IdsKept
<1>10. BatchSound'
  BY <1>1, <1>2, <1>4, <1>t DEF BatchSound
<1> QED  BY <1>t, <1>2, <1>4, <1>6, <1>8, <1>9, <1>10 DEF SystemSound, SystemTyped

\* A trial of the batch is claimed.
LEMMA ClaimTrialStep ==
    ASSUME IInv, ClaimTrial
    PROVE  Quiet /\ SystemSound'
<1>t. SystemTyped /\ IdsSound /\ BatchSound
  BY DEF IInv
<1>1. PICK n, b, f : n = Head(batch.trials) /\ b = batch
                     /\ f = (IF Known(n) THEN batch.fresh ELSE batch.fresh \cup {n})
  OBVIOUS
<1>2. /\ b # None /\ b.moves = <<>> /\ b.trials # <<>> /\ n = Head(b.trials)
      /\ Remember(n.id)
      /\ batch' = [b EXCEPT !.stage = "claim", !.trials = Tail(@), !.fresh = f]
      /\ UNCHANGED <<db, commits, pg, unpublished, listener, revision, inbox>>
  BY <1>1 DEF ClaimTrial, dbVars
<1>3. b \in Pendings
  BY <1>1, <1>2, <1>t DEF SystemTyped
<1>4. n \in Notes /\ b.fresh \subseteq Notes
  BY <1>2, <1>3, TailItems DEF Pendings
<1>5. f \in SUBSET Notes /\ b.fresh \subseteq f /\ f \subseteq b.fresh \cup {n} /\ (~ Known(n) => n \in f)
  BY <1>1, <1>4
<1>6. /\ batch' \in Pendings /\ batch' # None
      /\ Items(b.trials) = {n} \cup Items(batch'.trials)
      /\ batch'.moves = b.moves /\ batch'.fresh = f /\ batch'.generic = b.generic
  <2>1. PICK r : r = batch'
    OBVIOUS
  <2>2. r = [b EXCEPT !.stage = "claim", !.trials = Tail(@), !.fresh = f] /\ b.trials # <<>>
    BY <1>2, <2>1
  <2>3. /\ r \in Pendings /\ Items(b.trials) = {Head(b.trials)} \cup Items(r.trials)
        /\ r.moves = b.moves /\ r.fresh = f /\ r.generic = b.generic
    BY <1>3, <1>5, <2>2, FirstTrial, ZenonT(60)
  <2>4. r # None
    BY <2>3, PendingIsNotNone
  <2> QED  BY <1>2, <2>1, <2>3, <2>4
<1>7. n.kind \in Scoped
  BY <1>1, <1>2, <1>6, <1>t DEF BatchSound
<1>8. /\ registry' \in Seq(Nat)
      /\ Items(registry') \subseteq Items(registry) \cup {n.id}
      /\ Known(n) => registry' = registry
  BY <1>2, <1>4, <1>t, RememberEffect, KnownItems DEF SystemTyped, Notes
<1>9. InHand = {n} \cup InHand' /\ Claimed \subseteq Claimed' /\ Claimed' \subseteq Claimed \cup {n}
      /\ (~ Known(n) => n \in Claimed') /\ OnTheWay' = OnTheWay /\ n \in Around
  <2>1. InHand' = Items(batch'.moves) \cup Items(batch'.trials) /\ Claimed' = batch'.fresh
        /\ OnTheWay' = OnTheWay
    BY <1>2, <1>6 DEF InHand, Claimed, OnTheWay
  <2>2. InHand = Items(b.moves) \cup Items(b.trials) /\ Claimed = b.fresh
    BY <1>1, <1>2 DEF InHand, Claimed
  <2> QED  BY <2>1, <2>2, <1>5, <1>6 DEF Around
<1>10. QueueDue => QueueDue'
  <2> SUFFICES ASSUME QueueDue, listener = "on" PROVE QueueDue'
    BY <1>2 DEF QueueDue
  <2>1. CASE \E x \in Claimed : x.kind = "colour"
    BY <2>1, <1>9 DEF QueueDue
  <2>2. CASE batch # None /\ batch.generic
    BY <2>2, <1>1, <1>6 DEF QueueDue
  <2>3. CASE \E x \in OnTheWay \cup InHand : Owes(x)
    <3>1. PICK x \in OnTheWay \cup InHand : Owes(x)
      BY <2>3
    <3>2. CASE Known(n)
      <4>1. x # n
        BY <3>1, <3>2, <1>7 DEF Owes, Scoped
      <4>2. Owes(x)'
        BY <1>8, <3>1, <3>2 DEF Owes, Known
      <4> QED  BY <3>1, <4>1, <4>2, <1>9 DEF QueueDue
    <3>3. CASE ~ Known(n) /\ x.id = n.id
      <4>1. x.kind = n.kind
        BY <3>1, <3>3, <1>9, <1>t DEF IdsSound, Around
      <4>2. n.kind = "colour"
        BY <4>1, <3>1, <1>7 DEF Owes, Scoped
      <4> QED  BY <4>2, <3>3, <1>9 DEF QueueDue
    <3>4. CASE x.id # n.id
      <4>1. Owes(x)'
        BY <3>1, <3>4, <1>2, <1>4, <1>t, OwesKept DEF SystemTyped, Notes
      <4> QED  BY <3>1, <3>4, <4>1, <1>9 DEF QueueDue
    <3> QED  BY <3>2, <3>3, <3>4
  <2> QED  BY <2>1, <2>2, <2>3 DEF QueueDue
<1>11. HistoryDue => HistoryDue'
  BY <1>1, <1>2, <1>6, <1>9 DEF HistoryDue
<1>12. IdsSound'
  <2>1. Around' \subseteq Around
    BY <1>2, <1>9 DEF Around
  <2> QED  BY <1>t, <1>2, <1>8, <1>9, <2>1, IdsKept
<1>13. BatchSound'
  BY <1>1, <1>2, <1>5, <1>6, <1>7, <1>t DEF BatchSound
<1>14. Quiet
  BY <1>2, <1>10, <1>11 DEF Quiet
<1> QED  BY <1>t, <1>2, <1>6, <1>8, <1>12, <1>13, <1>14 DEF SystemSound, SystemTyped

\* The trials of the batch and the invalidation are announced.
LEMMA PublishBatchStep ==
    ASSUME IInv, PublishBatch
    PROVE  (Quiet \/ Loud) /\ SystemSound'
<1>t. SystemTyped /\ IdsSound /\ BatchSound
  BY DEF IInv
<1>1. /\ batch # None /\ batch.moves = <<>> /\ batch.trials = <<>>
      /\ batch' = None /\ listener' = "on" /\ listener # "off"
      /\ UNCHANGED <<db, commits, pg, unpublished, registry>>
  BY DEF PublishBatch, dbVars
<1>2. InHand = {} /\ InHand' = {} /\ Claimed = batch.fresh /\ Claimed' = {} /\ OnTheWay' = OnTheWay
  BY <1>1, NoItems DEF InHand, Claimed, OnTheWay
<1>3. \A x : Owes(x) <=> Owes(x)'
  BY <1>1 DEF Owes, Known
<1>4. (~ batch.generic /\ listener # "gap") => (HistoryDue => HistoryDue')
  BY <1>1, <1>2, <1>t DEF HistoryDue, SystemTyped
<1>5. (~ batch.generic /\ listener # "gap" /\ \A n \in batch.fresh : n.kind # "colour")
        => (QueueDue => QueueDue')
  BY <1>1, <1>2, <1>3, <1>t DEF QueueDue, SystemTyped
<1>6. \/ Announce("state")
      \/ /\ ~ batch.generic /\ listener # "gap"
         /\ \A m, n \in batch.fresh : m.kind = n.kind
         /\ \E n \in batch.fresh : Announce(n.kind)
      \/ ~ batch.generic /\ listener # "gap" /\ batch.fresh = {} /\ UNCHANGED <<revision, inbox>>
  BY DEF PublishBatch
<1>7. Quiet \/ Loud
  <2>1. CASE Announce("state")
    BY <2>1, <1>1 DEF Loud, AllKinds, Scoped
  <2>2. CASE /\ ~ batch.generic /\ listener # "gap"
             /\ \A m, n \in batch.fresh : m.kind = n.kind
             /\ \E n \in batch.fresh : Announce(n.kind)
    <3>1. PICK n \in batch.fresh : Announce(n.kind)
      BY <2>2
    <3>2. PICK k : k = n.kind
      OBVIOUS
    <3>3. Announce(k)
      BY <3>1, <3>2
    <3>4. k \in Scoped /\ k \in AllKinds
      BY <3>2, <1>1, <1>t DEF BatchSound, Scoped, AllKinds
    <3>5. k = "elsewhere" => (QueueDue => QueueDue')
      <4>1. k = "elsewhere" => \A m \in batch.fresh : m.kind # "colour"
        BY <2>2, <3>2
      <4> QED  BY <2>2, <4>1, <1>5
    <3> QED  BY <3>3, <3>4, <3>5, <2>2, <1>1, <1>4 DEF Loud
  <2>3. CASE ~ batch.generic /\ listener # "gap" /\ batch.fresh = {} /\ UNCHANGED <<revision, inbox>>
    BY <2>3, <1>1, <1>4, <1>5 DEF Quiet
  <2> QED  BY <1>6, <2>1, <2>2, <2>3
<1>8. IdsSound'
  <2>1. Around' \subseteq Around
    BY <1>1, <1>2 DEF Around
  <2> QED  BY <1>t, <1>1, <2>1, IdsKept
<1>9. BatchSound'
  BY <1>1 DEF BatchSound
<1> QED  BY <1>t, <1>1, <1>7, <1>8, <1>9 DEF SystemSound, SystemTyped

\* A request announces its own commit.
LEMMA PublishHereStep ==
    ASSUME IInv, NEW n \in unpublished, PublishHere(n)
    PROVE  (Quiet \/ Loud) /\ SystemSound'
<1>t. SystemTyped /\ IdsSound /\ BatchSound
  BY DEF IInv
<1>1. /\ unpublished' = unpublished \ {n}
      /\ UNCHANGED <<db, commits, pg, listener, batch>>
      /\ \/ n.kind = "state" /\ Announce("state") /\ UNCHANGED registry
         \/ n.kind # "state" /\ AnnounceOnce(n)
  BY DEF PublishHere, listenerVars
<1>2. n \in Notes /\ n.kind \in AllKinds /\ n.id \in Nat /\ n \in Around
  BY <1>t DEF SystemTyped, Notes, Around
<1>3. /\ registry' \in Seq(Nat)
      /\ Items(registry') \subseteq Items(registry) \cup {n.id}
      /\ \/ n.kind = "state" /\ Announce("state")
         \/ UNCHANGED <<registry, revision, inbox>>
         \/ n.kind # "state" /\ Announce(n.kind) /\ Remember(n.id)
  <2>1. CASE n.kind = "state" /\ Announce("state") /\ UNCHANGED registry
    BY <2>1, <1>t DEF SystemTyped
  <2>2. CASE n.kind # "state" /\ AnnounceOnce(n)
    <3>1. Remember(n.id)
      BY <2>2 DEF AnnounceOnce
    <3> QED  BY <2>2, <3>1, <1>2, <1>t, OnceEffect DEF SystemTyped
  <2> QED  BY <1>1, <2>1, <2>2
<1>4. InHand' = InHand /\ Claimed' = Claimed /\ OnTheWay' = OnTheWay
  BY <1>1 DEF InHand, Claimed, OnTheWay
<1>5. HistoryDue => HistoryDue'
  BY <1>1, <1>4 DEF HistoryDue
<1>6. Quiet \/ Loud
  <2>1. CASE n.kind = "state" /\ Announce("state")
    BY <2>1, <1>1 DEF Loud, AllKinds, Scoped
  <2>2. CASE UNCHANGED <<registry, revision, inbox>>
    <3>1. \A x : Owes(x) <=> Owes(x)'
      BY <2>2 DEF Owes, Known
    <3>2. QueueDue => QueueDue'
      BY <1>1, <1>4, <3>1 DEF QueueDue
    <3> QED  BY <2>2, <1>1, <1>5, <3>2 DEF Quiet
  <2>3. CASE n.kind # "state" /\ Announce(n.kind) /\ Remember(n.id)
    <3>1. ASSUME n.kind = "elsewhere", QueueDue PROVE QueueDue'
      <4>1. ASSUME NEW x \in OnTheWay \cup InHand, Owes(x) PROVE Owes(x)'
        <5>1. x.id # n.id
          <6>1. x \in Around
            BY DEF Around
          <6> QED  BY <6>1, <4>1, <3>1, <1>2, <1>t DEF IdsSound, Owes
        <5> QED  BY <5>1, <4>1, <2>3, <1>2, <1>t, OwesKept DEF SystemTyped
      <4> QED  BY <3>1, <4>1, <1>1, <1>4 DEF QueueDue
    <3>2. PICK k : k = n.kind
      OBVIOUS
    <3>3. k \in AllKinds /\ Announce(k)
      BY <3>2, <2>3, <1>2
    <3> QED  BY <3>1, <3>2, <3>3, <1>1, <1>5 DEF Loud
  <2> QED  BY <1>3, <2>1, <2>2, <2>3
<1>7. IdsSound'
  <2>1. Around' \subseteq Around
    BY <1>1, <1>4 DEF Around
  <2> QED  BY <1>t, <1>1, <1>2, <1>3, <2>1, IdsKept
<1>8. BatchSound'
  BY <1>1, <1>t DEF BatchSound
<1> QED  BY <1>t, <1>1, <1>3, <1>6, <1>7, <1>8 DEF SystemSound, SystemTyped

\* A request dies before its announcement; the connection breaks, or is made again.
LEMMA SilentStep ==
    ASSUME IInv, \/ \E n \in unpublished : DropHere(n)
                 \/ \E kept \in BOOLEAN : LoseConnection(kept)
                 \/ Listen
    PROVE  Quiet /\ SystemSound'
<1>t. SystemTyped /\ IdsSound /\ BatchSound
  BY DEF IInv
<1>1. /\ UNCHANGED <<db, commits, registry, revision, inbox>>
      /\ unpublished' \subseteq unpublished
      /\ pg' = pg \/ pg' = <<>>
      /\ batch' = batch \/ batch' = None
      /\ listener' \in {"on", "off", "gap"}
      /\ \/ UNCHANGED <<listener, pg, batch>>
         \/ listener' # "on"
  BY <1>t DEF DropHere, LoseConnection, Listen, dbVars, listenerVars, eventVars, SystemTyped
<1>2. /\ InHand' \subseteq InHand /\ Claimed' \subseteq Claimed /\ OnTheWay' \subseteq OnTheWay
      /\ UNCHANGED <<pg, batch>> => (InHand' = InHand /\ Claimed' = Claimed /\ OnTheWay' = OnTheWay)
  BY <1>1, NoItems DEF InHand, Claimed, OnTheWay
<1>3. \A x : Owes(x) <=> Owes(x)'
  BY <1>1 DEF Owes, Known
<1>4. QueueDue => QueueDue'
  BY <1>1, <1>2, <1>3 DEF QueueDue
<1>5. HistoryDue => HistoryDue'
  BY <1>1, <1>2 DEF HistoryDue
<1>6. Quiet
  BY <1>1, <1>4, <1>5 DEF Quiet
<1>7. IdsSound'
  <2>1. Around' \subseteq Around
    BY <1>1, <1>2 DEF Around
  <2> QED  BY <1>t, <1>1, <2>1, IdsKept
<1>8. BatchSound'
  BY <1>1, <1>t DEF BatchSound
<1>9. pg' \in Seq(Notes)
  BY <1>1, <1>t, NoItems DEF SystemTyped
<1> QED  BY <1>t, <1>1, <1>6, <1>7, <1>8, <1>9 DEF SystemSound, SystemTyped

\* The invalidation after a gap.
LEMMA InvalidateStep ==
    ASSUME IInv, InvalidateAfterGap
    PROVE  Loud /\ SystemSound'
<1>t. SystemTyped /\ IdsSound /\ BatchSound
  BY DEF IInv
<1>1. /\ UNCHANGED <<db, commits, pg, unpublished, batch, registry>>
      /\ listener' = "on" /\ Announce("state")
  BY DEF InvalidateAfterGap, dbVars
<1>2. Loud
  BY <1>1 DEF Loud, AllKinds, Scoped
<1>3. Around' = Around
  BY <1>1 DEF Around, OnTheWay, InHand, Claimed
<1>4. IdsSound' /\ BatchSound'
  BY <1>t, <1>1, <1>3, IdsKept DEF BatchSound
<1> QED  BY <1>t, <1>1, <1>2, <1>4 DEF SystemSound, SystemTyped

\* Every step of the system is quiet or an announcement.
LEMMA SystemStep ==
    ASSUME IInv, System
    PROVE  (Quiet \/ Loud) /\ SystemSound'
<1>1. CASE \E kind \in Kinds, changed \in SUBSET DOMAIN db, here \in BOOLEAN :
             Commit(kind, changed, here)
  BY <1>1, CommitStep
<1>2. CASE \E n \in unpublished : PublishHere(n)
  BY <1>2, PublishHereStep
<1>3. CASE \E n \in unpublished : DropHere(n)
  BY <1>3, SilentStep
<1>4. CASE \E kept \in BOOLEAN : LoseConnection(kept)
  BY <1>4, SilentStep
<1>5. CASE Listen
  BY <1>5, SilentStep
<1>6. CASE Receive
  BY <1>6, ReceiveStep
<1>7. CASE PublishMove
  BY <1>7, PublishMoveStep
<1>8. CASE ClaimTrial
  BY <1>8, ClaimTrialStep
<1>9. CASE PublishBatch
  BY <1>9, PublishBatchStep
<1>10. CASE InvalidateAfterGap
  BY <1>10, InvalidateStep
<1> QED  BY <1>1, <1>2, <1>3, <1>4, <1>5, <1>6, <1>7, <1>8, <1>9, <1>10, Zenon DEF System, Listener

\* broadcast::send: the receiver has something to report, and no event but
\* those it had and the new one.
LEMMA SentEffect ==
    ASSUME NEW q \in Receivers, NEW e \in Events
    PROVE  /\ Sent(q, e) \in Receivers
           /\ Sent(q, e) # Nothing
           /\ Items(Sent(q, e).events) \subseteq Items(q.events) \cup {e}
<1>0. q.events \in Seq(Events) /\ q.lagged \in BOOLEAN
  BY DEF Receivers
<1>1. PICK all : all = Append(q.events, e)
  OBVIOUS
<1>2. all \in Seq(Events) /\ Items(all) = Items(q.events) \cup {e} /\ all # <<>>
  BY <1>0, <1>1, AppendItems
<1>3. Tail(all) \in Seq(Events) /\ Items(Tail(all)) \subseteq Items(all)
  BY <1>2, TailItems
<1>4. Sent(q, e) = (IF Len(all) > NotifyCapacity THEN [lagged |-> TRUE, events |-> Tail(all)]
                                               ELSE [q EXCEPT !.events = all])
  BY <1>1 DEF Sent
<1>5. CASE Len(all) > NotifyCapacity
  <2>1. Sent(q, e) = [lagged |-> TRUE, events |-> Tail(all)]
    BY <1>4, <1>5
  <2>2. Sent(q, e).lagged /\ Sent(q, e).events = Tail(all) /\ ~ Nothing.lagged
    BY <2>1 DEF Nothing
  <2>3. Sent(q, e) \in Receivers
    BY <2>1, <1>3 DEF Receivers
  <2>4. Sent(q, e) # Nothing
    BY <2>2, Zenon
  <2> QED  BY <2>2, <2>3, <2>4, <1>2, <1>3
<1>6. CASE ~ (Len(all) > NotifyCapacity)
  <2>1. Sent(q, e) = [q EXCEPT !.events = all]
    BY <1>4, <1>6
  <2>2. Sent(q, e).events = all /\ Sent(q, e) \in Receivers
    BY <2>1, <1>0, <1>2 DEF Receivers
  <2>3. Sent(q, e) # Nothing
    BY <2>2, <1>2 DEF Nothing
  <2> QED  BY <2>2, <2>3, <1>2
<1> QED  BY <1>5, <1>6

\* An announcement reaches every subscriber.
LEMMA AnnounceEffect ==
    ASSUME SystemTyped, NEW k \in AllKinds, Announce(k)
    PROVE  /\ revision' = revision + 1
           /\ inbox' \in [Sockets -> Receivers]
           /\ \A s \in Sockets :
                /\ Subscribed(s) => inbox'[s] # Nothing
                /\ \A e \in Items(inbox'[s].events) :
                      e \in Items(inbox[s].events) \/ (e.kind = k /\ e.revision = revision + 1)
<1>1. PICK e : e = [kind |-> k, revision |-> revision + 1]
  OBVIOUS
<1>2. e \in Events /\ e.kind = k /\ e.revision = revision + 1
  BY <1>1 DEF Events, SystemTyped
<1>3. /\ revision' = revision + 1
      /\ inbox' = [s \in Sockets |-> IF Subscribed(s) THEN Sent(inbox[s], e) ELSE inbox[s]]
  BY <1>1 DEF Announce
<1>4. \A s \in Sockets : inbox[s] \in Receivers
  BY DEF SystemTyped
<1>5. \A s \in Sockets : /\ Sent(inbox[s], e) \in Receivers /\ Sent(inbox[s], e) # Nothing
                         /\ Items(Sent(inbox[s], e).events) \subseteq Items(inbox[s].events) \cup {e}
  BY <1>2, <1>4, SentEffect
<1>6. \A s \in Sockets : inbox'[s] = IF Subscribed(s) THEN Sent(inbox[s], e) ELSE inbox[s]
  BY <1>3
<1>7. inbox' \in [Sockets -> Receivers]
  BY <1>3, <1>4, <1>5
<1> QED  BY <1>2, <1>3, <1>5, <1>6, <1>7

\* A quiet step of the system keeps the invariant.
LEMMA QuietStep ==
    ASSUME IInv, System, Quiet, SystemSound'
    PROVE  IInv'
<1>1. UNCHANGED <<cache, builder, feed, pc, task, event, read, client, revision, inbox>>
  BY SystemFrame DEF Quiet
<1>2. SystemTyped' /\ IdsSound' /\ BatchSound'
  BY <1>1 DEF SystemSound, SystemTyped, IInv
<1>3. ReaderTyped'
  BY <1>1 DEF IInv, ReaderTyped
<1>4. RevisionsSound'
  BY <1>1 DEF IInv, RevisionsSound
<1>5. \A v : (QueueOK(v) => (v.queue = db'.queue \/ QueueDue')) /\ (HistoryOK(v) => (v.history = db'.history \/ HistoryDue'))
  BY DEF Quiet, QueueOK, HistoryOK
<1>6. FeedSound'
  BY <1>1, <1>5 DEF IInv, FeedSound, QueueOK, HistoryOK
<1>7. CacheSound'
  BY <1>1, <1>5 DEF IInv, CacheSound, QueueOK
<1>8. ASSUME NEW s \in Sockets PROVE ReadSound(s)'
  BY <1>1, <1>5 DEF IInv, ReadSound, QueueOK, HistoryOK
<1>9. ASSUME NEW s \in Sockets PROVE EventsSound(s)'
  <2>1. \A e : EventSound(e) => EventSound(e)'
    BY <1>1, <1>5 DEF EventSound, QueueOK, HistoryOK
  <2>2. EventsSound(s)
    BY DEF IInv
  <2> QED  BY <1>1, <2>1, <2>2 DEF EventsSound
<1>10. ASSUME NEW s \in Sockets PROVE AwakeSound(s)' /\ SnapshotSound(s)'
  BY <1>1 DEF IInv, AwakeSound, SnapshotSound
<1> QED  BY <1>2, <1>3, <1>4, <1>6, <1>7, <1>8, <1>9, <1>10 DEF IInv

\* An announcement keeps it too: nothing is labelled with the new revision yet.
LEMMA LoudStep ==
    ASSUME IInv, System, Loud, SystemSound'
    PROVE  IInv'
<1>t. SystemTyped /\ ReaderTyped /\ RevisionsSound /\ FeedSound
  BY DEF IInv
<1>1. UNCHANGED <<cache, builder, feed, pc, task, event, read, client>>
  BY SystemFrame
<1>2. PICK k \in AllKinds : /\ Announce(k) /\ UNCHANGED db
                            /\ k \in Scoped => (HistoryDue => HistoryDue')
                            /\ k = "elsewhere" => (QueueDue => QueueDue')
  BY DEF Loud
<1>3. /\ revision' = revision + 1 /\ revision \in Nat
      /\ inbox' \in [Sockets -> Receivers]
      /\ \A s \in Sockets :
           /\ Subscribed(s) => inbox'[s] # Nothing
           /\ \A e \in Items(inbox'[s].events) :
                 e \in Items(inbox[s].events) \/ (e.kind = k /\ e.revision = revision + 1)
  BY <1>t, <1>2, AnnounceEffect DEF SystemTyped
<1>4. SystemTyped' /\ IdsSound' /\ BatchSound'
  BY <1>3 DEF SystemSound, SystemTyped
<1>5. ReaderTyped'
  BY <1>1, <1>t DEF ReaderTyped
<1>6. /\ cache # None => cache.revision \in Nat /\ cache.revision <= revision
      /\ feed # None => feed.revision \in Nat /\ feed.revision <= revision
  BY <1>t DEF ReaderTyped, RevisionsSound, Snapshots, Views
<1>7. \A s \in Sockets :
        /\ read[s].revision \in Nat /\ read[s].built \in Nat
        /\ read[s].revision <= revision /\ read[s].built <= revision
        /\ event[s] # None => event[s].revision \in Nat /\ event[s].revision <= revision
  BY <1>t DEF ReaderTyped, RevisionsSound, Readings, Events
<1>8. \A s \in Sockets : \A e \in Items(inbox[s].events) : e.revision \in Nat /\ e.revision <= revision
  <2>1. ASSUME NEW s \in Sockets PROVE \A e \in Items(inbox[s].events) : e \in Events
    <3>1. inbox[s].events \in Seq(Events)
      BY <1>t DEF SystemTyped, Receivers
    <3> QED  BY <3>1, ElementOfSeq DEF Items
  <2> QED  BY <2>1, <1>t DEF RevisionsSound, Events
<1>9. RevisionsSound'
  <2>1. ASSUME NEW s \in Sockets PROVE \A e \in Items(inbox'[s].events) : e.revision <= revision'
    BY <1>3, <1>8
  <2>2. ASSUME NEW s \in Sockets
        PROVE  /\ read[s].revision <= revision' /\ read[s].built <= revision'
               /\ event[s] # None => event[s].revision <= revision'
    BY <1>3, <1>7
  <2>3. /\ cache # None => cache.revision <= revision'
        /\ feed # None => feed.revision <= revision'
    BY <1>3, <1>6
  <2> QED  BY <1>1, <2>1, <2>2, <2>3 DEF RevisionsSound
<1>10. FeedSound' /\ CacheSound'
  <2>1. /\ feed # None => feed.revision # revision'
        /\ cache # None => cache.revision # revision'
    BY <1>3, <1>6
  <2> QED  BY <1>1, <2>1 DEF FeedSound, CacheSound
<1>11. ASSUME NEW s \in Sockets PROVE ReadSound(s)'
  <2>1. read[s].revision # revision' /\ read[s].built # revision'
    BY <1>3, <1>7
  <2> QED  BY <1>1, <2>1 DEF ReadSound
<1>12. ASSUME NEW s \in Sockets PROVE EventsSound(s)'
  <2>1. \A e : e.revision \in Nat /\ e.revision <= revision => EventSound(e)'
    BY <1>3 DEF EventSound
  <2>2. ASSUME NEW e, e.kind = k, e.revision = revision + 1 PROVE EventSound(e)'
    <3> SUFFICES ASSUME e.kind \in Scoped, feed # None, feed.revision + 1 = revision'
                 PROVE  HistoryOK(feed)' /\ (e.kind = "elsewhere" => QueueOK(feed)')
      BY <1>1 DEF EventSound
    <3>1. feed.revision = revision
      BY <1>3, <1>6
    <3>2. QueueOK(feed) /\ HistoryOK(feed)
      BY <3>1, <1>t DEF FeedSound
    <3> QED  BY <1>1, <1>2, <2>2, <3>2 DEF QueueOK, HistoryOK
  <2>3. \A e \in Items(inbox'[s].events) : EventSound(e)'
    BY <1>3, <1>8, <2>1, <2>2
  <2>4. event[s] # None => EventSound(event[s])'
    BY <1>1, <1>7, <2>1 DEF EventSound
  <2>5. event[s] # None => event[s].kind \in Scoped
    BY DEF IInv, EventsSound
  <2> QED  BY <1>1, <2>3, <2>4, <2>5 DEF EventsSound
<1>13. ASSUME NEW s \in Sockets PROVE AwakeSound(s)'
  <2>1. AwakeSound(s)
    BY DEF IInv
  <2>2. pc[s] \in {"deliver", "idle"} => Subscribed(s)
    BY <2>1 DEF AwakeSound, Subscribed
  <2> QED  BY <1>1, <1>3, <2>1, <2>2 DEF AwakeSound
<1>14. ASSUME NEW s \in Sockets PROVE SnapshotSound(s)'
  BY <1>1 DEF IInv, SnapshotSound
<1> QED  BY <1>4, <1>5, <1>9, <1>10, <1>11, <1>12, <1>13, <1>14 DEF IInv

-----------------------------------------------------------------------------
(***************************************************************************)
(* A step of a reader changes its own row, and the feed, the cache and the *)
(* lock that all share.                                                    *)
(***************************************************************************)

\* The row of socket s becomes p, k, e, r, q, c.
Row(s, p, k, e, r, q, c) ==
    /\ pc' = [pc EXCEPT ![s] = p]
    /\ task' = [task EXCEPT ![s] = k]
    /\ event' = [event EXCEPT ![s] = e]
    /\ read' = [read EXCEPT ![s] = r]
    /\ inbox' = [inbox EXCEPT ![s] = q]
    /\ DOMAIN client' = Sockets
    /\ \A t \in Sockets : client'[t] = IF t = s THEN c ELSE client[t]

\* What is read or received is not from the future and is what is committed,
\* unless an announcement is due.
RowRead(s, p, e, r, q) ==
    /\ \/ e = None \/ e = event[s]
       \/ e \in Items(inbox[s].events) /\ e.kind \in Scoped
    /\ Items(q.events) \subseteq Items(inbox[s].events)
    /\ r.revision <= revision /\ r.built <= revision
    /\ (p \in {"snapshot", "build", "check"} /\ r.revision = revision) => HistoryOK(r)
    /\ (p \in {"build", "check"} /\ r.built = revision) => QueueOK(r)

\* A socket that goes to wait has seen the feed, or has something to report.
RowAwake(p, k, q) ==
    /\ p \in {"refresh", "deliver", "idle"} => k # "http"
    /\ p \in {"deliver", "idle"} => /\ feed' # None
                                    /\ q = Nothing => feed'.revision = revision

\* What is read or answered under the cached revision is what is cached.
RowSnapshot(s, p, k, r, c) ==
    /\ p = "build" => builder' = s /\ (cache' # None => cache'.revision # r.built)
    /\ p = "check" => /\ cache' # None
                      /\ r.built <= cache'.revision
                      /\ r.built = cache'.revision => r.queue = cache'.queue
    /\ (p = "off" /\ k = "http") => /\ cache' # None
                                    /\ c.revision \in Nat
                                    /\ c.revision <= cache'.revision
                                    /\ c.revision = cache'.revision => c.queue = cache'.queue

\* The feed moves to the current revision, the cache to one that was not
\* cached, the lock from or to its holder.
Shared(s) ==
    /\ \/ feed' = feed
       \/ feed' \in Views /\ feed'.revision = revision /\ QueueOK(feed') /\ HistoryOK(feed')
    /\ \/ cache' = cache
       \/ /\ cache' \in Snapshots /\ cache'.revision = revision /\ QueueOK(cache')
          /\ cache # None => cache.revision # revision
          /\ builder = s
    /\ builder' = builder \/ builder \in {None, s}

Phases == {"fetch", "off", "idle", "refresh", "load", "snapshot", "build", "check", "deliver"}
Tasks == {"http", "live", "beat"}

\* Such a step keeps the invariant.
LEMMA RowKeeps ==
    ASSUME IInv, NEW s \in Sockets, Reader(s),
           NEW p \in Phases, NEW k \in Tasks, NEW e \in Events \cup {None}, NEW r \in Readings,
           NEW q \in Receivers, NEW c,
           Row(s, p, k, e, r, q, c), Shared(s),
           RowRead(s, p, e, r, q), RowAwake(p, k, q), RowSnapshot(s, p, k, r, c)
    PROVE  IInv'
<1>t. SystemTyped /\ ReaderTyped /\ RevisionsSound /\ IdsSound /\ BatchSound
  BY DEF IInv
<1>n. None \notin Sockets /\ None \notin Views /\ None \notin Snapshots
  BY NoneAssumption
<1>1. UNCHANGED <<db, commits, pg, unpublished, listener, batch, registry, revision>>
  BY ReaderFrame
<1>2. /\ \A t \in Sockets : t # s => /\ pc'[t] = pc[t] /\ task'[t] = task[t] /\ event'[t] = event[t]
                                     /\ read'[t] = read[t] /\ inbox'[t] = inbox[t]
                                     /\ client'[t] = client[t]
      /\ pc'[s] = p /\ task'[s] = k /\ event'[s] = e /\ read'[s] = r /\ inbox'[s] = q /\ client'[s] = c
  BY <1>t DEF Row, ReaderTyped, SystemTyped
<1>3. /\ inbox' \in [Sockets -> Receivers] /\ pc' \in [Sockets -> Phases] /\ task' \in [Sockets -> Tasks]
      /\ event' \in [Sockets -> Events \cup {None}] /\ read' \in [Sockets -> Readings]
  BY <1>t DEF Row, ReaderTyped, SystemTyped, Phases, Tasks
<1>4. QueueDue' = QueueDue /\ HistoryDue' = HistoryDue
  BY <1>1 DEF QueueDue, HistoryDue, OnTheWay, InHand, Claimed, Owes, Known
<1>5. SystemTyped' /\ IdsSound' /\ BatchSound'
  <2>1. SystemTyped'
    BY <1>t, <1>1, <1>3 DEF SystemTyped
  <2>2. Around' = Around
    BY <1>1 DEF Around, OnTheWay, InHand, Claimed
  <2> QED  BY <1>t, <1>1, <2>1, <2>2 DEF IdsSound, BatchSound
<1>6. feed' \in Views \cup {None} /\ cache' \in Snapshots \cup {None}
  BY <1>t DEF Shared, ReaderTyped
<1>7. ReaderTyped'
  BY <1>3, <1>6 DEF ReaderTyped, Row, Phases, Tasks
<1>8. /\ \A x \in Items(inbox[s].events) : x.revision <= revision
      /\ event[s] # None => event[s].revision <= revision
      /\ revision \in Nat
  BY <1>t DEF RevisionsSound, SystemTyped
<1>9. RevisionsSound'
  <2>1. /\ cache' # None => cache'.revision <= revision
        /\ feed' # None => feed'.revision <= revision
    BY <1>t, <1>8 DEF Shared, RevisionsSound
  <2>2. ASSUME NEW t \in Sockets
        PROVE  /\ read'[t].revision <= revision /\ read'[t].built <= revision
               /\ event'[t] # None => event'[t].revision <= revision
               /\ \A x \in Items(inbox'[t].events) : x.revision <= revision
    <3>1. CASE t = s
      BY <3>1, <1>2, <1>8 DEF RowRead
    <3>2. CASE t # s
      BY <3>2, <1>2, <1>t DEF RevisionsSound
    <3> QED  BY <3>1, <3>2
  <2> QED  BY <1>1, <2>1, <2>2 DEF RevisionsSound
<1>10. FeedSound' /\ CacheSound'
  <2>1. FeedSound /\ CacheSound
    BY DEF IInv
  <2> QED  BY <1>1, <1>4, <2>1 DEF Shared, FeedSound, CacheSound, QueueOK, HistoryOK
<1>11. ASSUME NEW t \in Sockets PROVE ReadSound(t)'
  <2>1. ReadSound(t)
    BY DEF IInv
  <2>2. CASE t = s
    BY <2>2, <1>1, <1>2, <1>4 DEF RowRead, ReadSound, QueueOK, HistoryOK
  <2>3. CASE t # s
    BY <2>1, <2>3, <1>1, <1>2, <1>4 DEF ReadSound, QueueOK, HistoryOK
  <2> QED  BY <2>2, <2>3
<1>12. ASSUME NEW t \in Sockets PROVE EventsSound(t)'
  <2>1. \A x : EventSound(x) => EventSound(x)'
    <3>1. CASE feed' = feed
      BY <3>1, <1>1, <1>4 DEF EventSound, QueueOK, HistoryOK
    <3>2. CASE feed'.revision = revision
      BY <3>2, <1>1, <1>8 DEF EventSound
    <3> QED  BY <3>1, <3>2 DEF Shared
  <2>2. EventsSound(t)
    BY DEF IInv
  <2>3. CASE t = s
    <3>1. e # None => e.kind \in Scoped /\ EventSound(e)
      BY <2>2, <2>3 DEF EventsSound, RowRead
    <3>2. \A x \in Items(q.events) : EventSound(x)
      BY <2>2, <2>3 DEF EventsSound, RowRead
    <3> QED  BY <2>1, <2>3, <3>1, <3>2, <1>2 DEF EventsSound
  <2>4. CASE t # s
    BY <2>1, <2>2, <2>4, <1>2 DEF EventsSound
  <2> QED  BY <2>3, <2>4
<1>13. ASSUME NEW t \in Sockets PROVE AwakeSound(t)'
  <2>1. AwakeSound(t)
    BY DEF IInv
  <2>2. CASE t = s
    BY <2>2, <1>1, <1>2 DEF RowAwake, AwakeSound
  <2>3. CASE t # s
    <3>1. feed # None => feed' # None /\ (feed.revision = revision => feed'.revision = revision)
      BY <1>n DEF Shared
    <3> QED  BY <2>1, <2>3, <3>1, <1>1, <1>2 DEF AwakeSound
  <2> QED  BY <2>2, <2>3
<1>14. ASSUME NEW t \in Sockets PROVE SnapshotSound(t)'
  <2>1. SnapshotSound(t)
    BY DEF IInv
  <2>2. CASE t = s
    BY <2>2, <1>2 DEF RowSnapshot, SnapshotSound
  <2>3. CASE t # s
    <3>1. pc[t] = "build" => builder' = t
      BY <2>1, <2>3, <1>n DEF Shared, SnapshotSound
    <3>2. CASE cache' = cache
      BY <2>1, <2>3, <3>1, <3>2, <1>2 DEF SnapshotSound
    <3>3. CASE /\ cache' \in Snapshots /\ cache'.revision = revision
               /\ cache # None => cache.revision # revision
               /\ builder = s
      <4>1. cache # None => cache.revision \in Nat /\ cache.revision < revision
        <5>1. cache # None => cache.revision \in Nat
          BY <1>t DEF ReaderTyped, Snapshots
        <5>2. cache # None => cache.revision <= revision
          BY <1>t DEF RevisionsSound
        <5> QED  BY <3>3, <5>1, <5>2, <1>8
      <4>2. read[t].built \in Nat
        BY <1>t DEF ReaderTyped, Readings
      <4>3. pc[t] # "build" /\ cache' # None
        BY <2>1, <2>3, <3>3, <1>n DEF SnapshotSound
      <4>4. pc[t] = "check" => read[t].built < revision
        BY <2>1, <4>1, <4>2, <1>8 DEF SnapshotSound
      <4>5. (pc[t] = "off" /\ task[t] = "http") => client[t].revision \in Nat /\ client[t].revision < revision
        BY <2>1, <4>1, <1>8 DEF SnapshotSound
      <4> QED  BY <2>3, <3>3, <4>2, <4>3, <4>4, <4>5, <1>2, <1>8 DEF SnapshotSound
    <3> QED  BY <3>2, <3>3 DEF Shared
  <2> QED  BY <2>2, <2>3
<1> QED  BY <1>5, <1>7, <1>9, <1>10, <1>11, <1>12, <1>13, <1>14 DEF IInv

\* What the invariant says of one socket.
LEMMA RowFacts ==
    ASSUME IInv, NEW s \in Sockets
    PROVE  /\ pc[s] \in Phases /\ task[s] \in Tasks /\ event[s] \in Events \cup {None}
           /\ read[s] \in Readings /\ inbox[s] \in Receivers /\ revision \in Nat
           /\ pc = [pc EXCEPT ![s] = pc[s]] /\ task = [task EXCEPT ![s] = task[s]]
           /\ event = [event EXCEPT ![s] = event[s]] /\ read = [read EXCEPT ![s] = read[s]]
           /\ inbox = [inbox EXCEPT ![s] = inbox[s]] /\ DOMAIN client = Sockets
           /\ read[s].revision <= revision /\ read[s].built <= revision
           /\ read[s].revision \in Nat /\ read[s].built \in Nat
           /\ read[s].queue \in Bits /\ read[s].history \in Bits
           /\ feed \in Views \cup {None} /\ cache \in Snapshots \cup {None}
           /\ ReadSound(s) /\ EventsSound(s) /\ AwakeSound(s) /\ SnapshotSound(s)
           /\ Nothing \in Receivers /\ Items(Nothing.events) = {}
           /\ Blank \in Readings /\ Blank.revision <= revision /\ Blank.built <= revision
<1>1. SystemTyped /\ ReaderTyped /\ RevisionsSound
  BY DEF IInv
<1>2. /\ pc \in [Sockets -> Phases] /\ task \in [Sockets -> Tasks]
      /\ event \in [Sockets -> Events \cup {None}] /\ read \in [Sockets -> Readings]
      /\ inbox \in [Sockets -> Receivers] /\ DOMAIN client = Sockets /\ revision \in Nat
      /\ feed \in Views \cup {None} /\ cache \in Snapshots \cup {None}
  BY <1>1 DEF SystemTyped, ReaderTyped, Phases, Tasks
<1>3. /\ pc[s] \in Phases /\ task[s] \in Tasks /\ event[s] \in Events \cup {None}
      /\ read[s] \in Readings /\ inbox[s] \in Receivers
  BY <1>2
<1>4. /\ pc = [pc EXCEPT ![s] = pc[s]] /\ task = [task EXCEPT ![s] = task[s]]
      /\ event = [event EXCEPT ![s] = event[s]] /\ read = [read EXCEPT ![s] = read[s]]
      /\ inbox = [inbox EXCEPT ![s] = inbox[s]]
  BY <1>2
<1>5. read[s].revision <= revision /\ read[s].built <= revision
  BY <1>1 DEF RevisionsSound
<1>6. /\ read[s].revision \in Nat /\ read[s].built \in Nat
      /\ read[s].queue \in Bits /\ read[s].history \in Bits
  BY <1>3 DEF Readings
<1>7. Nothing \in Receivers /\ Items(Nothing.events) = {}
  BY NoItems DEF Nothing, Receivers
<1>8. Blank \in Readings /\ Blank.revision <= revision /\ Blank.built <= revision
  BY <1>2 DEF Blank, Readings, Bits
<1>9. ReadSound(s) /\ EventsSound(s) /\ AwakeSound(s) /\ SnapshotSound(s)
  BY DEF IInv
<1> QED  BY <1>2, <1>3, <1>4, <1>5, <1>6, <1>7, <1>8, <1>9

\* The client and the loop of a socket: nothing shared changes.
LEMMA FetchStep ==
    ASSUME IInv, NEW s \in Sockets, Fetch(s)
    PROVE  IInv'
<1>1. Row(s, "load", "http", None, read[s], inbox[s], client[s])
  BY RowFacts DEF Fetch, Row, eventVars
<1>2. Reader(s) /\ Shared(s)
  BY DEF Fetch, Shared, feedVars, Reader, Socket
<1>3. "load" \in Phases /\ "http" \in Tasks
  BY DEF Phases, Tasks
<1>4. RowRead(s, "load", None, read[s], inbox[s]) /\ RowAwake("load", "http", inbox[s])
      /\ RowSnapshot(s, "load", "http", read[s], client[s])
  BY RowFacts DEF RowRead, RowAwake, RowSnapshot
<1> QED  BY <1>1, <1>2, <1>3, <1>4, RowFacts, RowKeeps

\* A socket that subscribes keeps the invariant.
LEMMA ConnectStep ==
    ASSUME IInv, NEW s \in Sockets, Connect(s)
    PROVE  IInv'
<1>1. Row(s, "refresh", "beat", None, read[s], Nothing, client[s])
  BY RowFacts DEF Connect, Row
<1>2. Reader(s) /\ Shared(s)
  BY DEF Connect, Shared, feedVars, Reader, Socket
<1>3. "refresh" \in Phases /\ "beat" \in Tasks
  BY DEF Phases, Tasks
<1>4. RowRead(s, "refresh", None, read[s], Nothing) /\ RowAwake("refresh", "beat", Nothing)
      /\ RowSnapshot(s, "refresh", "beat", read[s], client[s])
  BY RowFacts DEF RowRead, RowAwake, RowSnapshot
<1> QED  BY <1>1, <1>2, <1>3, <1>4, RowFacts, RowKeeps

\* A heartbeat keeps the invariant.
LEMMA HeartbeatStep ==
    ASSUME IInv, NEW s \in Sockets, Heartbeat(s)
    PROVE  IInv'
<1>1. Row(s, "refresh", "beat", None, read[s], inbox[s], client[s])
  BY RowFacts DEF Heartbeat, Row, eventVars
<1>2. Reader(s) /\ Shared(s)
  BY DEF Heartbeat, Shared, feedVars, Reader
<1>3. "refresh" \in Phases /\ "beat" \in Tasks
  BY DEF Phases, Tasks
<1>4. RowRead(s, "refresh", None, read[s], inbox[s]) /\ RowAwake("refresh", "beat", inbox[s])
      /\ RowSnapshot(s, "refresh", "beat", read[s], client[s])
  BY RowFacts DEF RowRead, RowAwake, RowSnapshot
<1> QED  BY <1>1, <1>2, <1>3, <1>4, RowFacts, RowKeeps

\* A socket that hangs up keeps the invariant.
LEMMA HangupStep ==
    ASSUME IInv, NEW s \in Sockets, Hangup(s)
    PROVE  IInv'
<1>1. Row(s, "off", task[s], event[s], read[s], Nothing, client[s])
  BY RowFacts DEF Hangup, Row
<1>2. Reader(s) /\ Shared(s)
  BY DEF Hangup, Shared, feedVars, Reader
<1>3. "off" \in Phases /\ task[s] # "http"
  BY RowFacts DEF Phases, AwakeSound, Hangup
<1>4. RowRead(s, "off", event[s], read[s], Nothing) /\ RowAwake("off", task[s], Nothing)
      /\ RowSnapshot(s, "off", task[s], read[s], client[s])
  BY <1>3, RowFacts DEF RowRead, RowAwake, RowSnapshot
<1> QED  BY <1>1, <1>2, <1>3, <1>4, RowFacts, RowKeeps

\* Taking an event, or the news that some were lost, keeps the invariant.
LEMMA WakeStep ==
    ASSUME IInv, NEW s \in Sockets, Wake(s)
    PROVE  IInv'
<1>0. inbox[s].events \in Seq(Events) /\ inbox[s].lagged \in BOOLEAN
  BY RowFacts DEF Receivers
<1>1. PICK q, e : inbox' = [inbox EXCEPT ![s] = q] /\ event' = [event EXCEPT ![s] = e]
                  /\ q \in Receivers /\ e \in Events \cup {None}
                  /\ Items(q.events) \subseteq Items(inbox[s].events)
                  /\ (e = None \/ (e \in Items(inbox[s].events) /\ e.kind \in Scoped))
  <2>1. CASE inbox[s].lagged
    <3>1. PICK q : q = [inbox[s] EXCEPT !.lagged = FALSE]
      OBVIOUS
    <3>2. q \in Receivers /\ q.events = inbox[s].events
      BY <3>1, <1>0, RowFacts DEF Receivers
    <3>3. inbox' = [inbox EXCEPT ![s] = q] /\ event' = [event EXCEPT ![s] = None]
      BY <2>1, <3>1 DEF Wake
    <3> QED  BY <3>2, <3>3
  <2>2. CASE ~ inbox[s].lagged
    <3>0. inbox[s].events # <<>>
      <4>1. inbox[s] # Nothing
        BY DEF Wake
      <4>2. inbox[s] = [lagged |-> inbox[s].lagged, events |-> inbox[s].events]
        BY RowFacts DEF Receivers
      <4>3. inbox[s].lagged = FALSE
        BY <1>0, <2>2
      <4> QED  BY <4>1, <4>2, <4>3 DEF Nothing
    <3>1. PICK q, x : q = [inbox[s] EXCEPT !.events = Tail(@)] /\ x = Head(inbox[s].events)
      OBVIOUS
    <3>2. x \in Events /\ Tail(inbox[s].events) \in Seq(Events)
          /\ Items(inbox[s].events) = {x} \cup Items(Tail(inbox[s].events))
      BY <1>0, <3>0, <3>1, TailItems
    <3>3. q \in Receivers /\ q.events = Tail(inbox[s].events)
      BY <3>1, <3>2, <1>0, RowFacts DEF Receivers
    <3>4. inbox' = [inbox EXCEPT ![s] = q]
          /\ event' = [event EXCEPT ![s] = IF x.kind \in Scoped THEN x ELSE None]
      BY <2>2, <3>1 DEF Wake
    <3> QED  BY <3>2, <3>3, <3>4
  <2> QED  BY <2>1, <2>2
<1>2. Row(s, "refresh", "live", e, read[s], q, client[s])
  BY <1>1, RowFacts DEF Wake, Row
<1>3. Reader(s) /\ Shared(s)
  BY DEF Wake, Shared, feedVars, Reader, Socket
<1>4. "refresh" \in Phases /\ "live" \in Tasks
  BY DEF Phases, Tasks
<1>5. RowRead(s, "refresh", e, read[s], q) /\ RowAwake("refresh", "live", q)
      /\ RowSnapshot(s, "refresh", "live", read[s], client[s])
  BY <1>1, RowFacts DEF RowRead, RowAwake, RowSnapshot
<1> QED  BY <1>1, <1>2, <1>3, <1>4, <1>5, RowFacts, RowKeeps

\* The feed: a trial on another machine, or the current view, or a new reading.
LEMMA AdvanceStep ==
    ASSUME IInv, NEW s \in Sockets, Advance(s)
    PROVE  IInv'
<1>0. task[s] # "http"
  BY RowFacts DEF AwakeSound, Advance
<1>1. Row(s, "deliver", task[s], None, read[s], inbox[s], client[s])
  BY RowFacts DEF Advance, Row, eventVars
<1>2. /\ feed # None /\ feed' = [feed EXCEPT !.revision = revision]
      /\ event[s] # None /\ event[s].kind = "elsewhere"
      /\ event[s].revision = revision /\ feed.revision + 1 = revision
      /\ UNCHANGED <<cache, builder>>
  BY DEF Advance, Unchanged, OneColourStep
<1>3. HistoryOK(feed) /\ QueueOK(feed)
  BY <1>2, RowFacts DEF EventsSound, EventSound, Scoped
<1>4. feed' \in Views /\ feed'.revision = revision /\ feed'.queue = feed.queue /\ feed'.history = feed.history
  BY <1>2, RowFacts DEF Views
<1>n. feed' # None
  BY <1>4, NoneAssumption
<1>5. Shared(s)
  BY <1>2, <1>3, <1>4 DEF Shared, QueueOK, HistoryOK
<1>6. Reader(s) /\ "deliver" \in Phases
  BY DEF Reader, Socket, Phases
<1>7. RowRead(s, "deliver", None, read[s], inbox[s]) /\ RowAwake("deliver", task[s], inbox[s])
      /\ RowSnapshot(s, "deliver", task[s], read[s], client[s])
  BY <1>0, <1>4, <1>n, RowFacts DEF RowRead, RowAwake, RowSnapshot
<1> QED  BY <1>1, <1>5, <1>6, <1>7, RowFacts, RowKeeps

\* Finding the view current, or beginning to read it, keeps the invariant.
LEMMA RefreshStep ==
    ASSUME IInv, NEW s \in Sockets, Refresh(s)
    PROVE  IInv'
<1>0. task[s] # "http"
  BY RowFacts DEF AwakeSound, Refresh
<1>1. Reader(s) /\ Shared(s) /\ "deliver" \in Phases /\ "load" \in Phases
  BY DEF Refresh, Reader, Socket, Shared, Phases
<1>2. CASE Current /\ pc' = [pc EXCEPT ![s] = "deliver"] /\ event' = [event EXCEPT ![s] = None]
  <2>1. Row(s, "deliver", task[s], None, read[s], inbox[s], client[s])
    BY <1>2, RowFacts DEF Refresh, Row, eventVars
  <2>2. feed' # None /\ feed'.revision = revision
    BY <1>2 DEF Current, Refresh
  <2>3. RowRead(s, "deliver", None, read[s], inbox[s]) /\ RowAwake("deliver", task[s], inbox[s])
        /\ RowSnapshot(s, "deliver", task[s], read[s], client[s])
    BY <1>0, <2>2, RowFacts DEF RowRead, RowAwake, RowSnapshot
  <2> QED  BY <1>1, <2>1, <2>3, RowFacts, RowKeeps
<1>3. CASE pc' = [pc EXCEPT ![s] = "load"] /\ UNCHANGED event
  <2>1. Row(s, "load", task[s], event[s], read[s], inbox[s], client[s])
    BY <1>3, RowFacts DEF Refresh, Row, eventVars
  <2>2. RowRead(s, "load", event[s], read[s], inbox[s]) /\ RowAwake("load", task[s], inbox[s])
        /\ RowSnapshot(s, "load", task[s], read[s], client[s])
    BY <1>0, RowFacts DEF RowRead, RowAwake, RowSnapshot
  <2> QED  BY <1>1, <2>1, <2>2, RowFacts, RowKeeps
<1> QED  BY <1>2, <1>3 DEF Refresh

\* Reading: the history as of the revision, or the feed's after one colour step.
LEMMA ReadHistoryStep ==
    ASSUME IInv, NEW s \in Sockets, ReadHistory(s)
    PROVE  IInv'
<1>1. PICK h : h = IF OneColourStep(s, revision) THEN feed.history ELSE db.history
  OBVIOUS
<1>2. PICK r : r = [read[s] EXCEPT !.revision = revision, !.history = h]
  OBVIOUS
<1>3. h \in Bits /\ (h = db.history \/ HistoryDue)
  <2>1. CASE OneColourStep(s, revision)
    <3>1. /\ event[s] # None /\ feed # None /\ event[s].revision = revision
          /\ feed.revision + 1 = revision /\ h = feed.history
      BY <1>1, <2>1 DEF OneColourStep
    <3>2. HistoryOK(feed)
      BY <3>1, RowFacts DEF EventsSound, EventSound
    <3>3. feed.history \in Bits
      BY <3>1, RowFacts DEF Views
    <3> QED  BY <3>1, <3>2, <3>3 DEF HistoryOK
  <2>2. CASE ~ OneColourStep(s, revision)
    <3>1. db.history \in Bits
      BY DEF IInv, SystemTyped
    <3> QED  BY <1>1, <2>2, <3>1
  <2> QED  BY <2>1, <2>2
<1>4. r \in Readings /\ r.revision = revision /\ r.history = h /\ r.built = read[s].built
  BY <1>2, <1>3, RowFacts DEF Readings
<1>5. read' = [read EXCEPT ![s] = r]
  BY <1>1, <1>2 DEF ReadHistory
<1>6. Row(s, "snapshot", task[s], event[s], r, inbox[s], client[s])
  BY <1>5, RowFacts DEF ReadHistory, Row, eventVars
<1>7. Reader(s) /\ Shared(s) /\ "snapshot" \in Phases
  BY DEF ReadHistory, Reader, Socket, Shared, feedVars, Phases
<1>8. RowRead(s, "snapshot", event[s], r, inbox[s]) /\ RowAwake("snapshot", task[s], inbox[s])
      /\ RowSnapshot(s, "snapshot", task[s], r, client[s])
  BY <1>3, <1>4, RowFacts DEF RowRead, RowAwake, RowSnapshot, HistoryOK
<1> QED  BY <1>4, <1>6, <1>7, <1>8, RowFacts, RowKeeps

\* Then the snapshot: the cached one, or one built under the lock.
LEMMA ReadSnapshotStep ==
    ASSUME IInv, NEW s \in Sockets, ReadSnapshot(s)
    PROVE  IInv'
<1>0. UNCHANGED <<cache, feed, task, event, inbox, client>> /\ pc[s] = "snapshot"
  BY DEF ReadSnapshot, eventVars
<1>1. Reader(s) /\ "check" \in Phases /\ "build" \in Phases
  BY DEF Reader, Socket, Phases
<1>2. CASE /\ Cached
           /\ read' = [read EXCEPT ![s].queue = cache.queue, ![s].built = revision]
           /\ pc' = [pc EXCEPT ![s] = "check"]
           /\ UNCHANGED builder
  <2>1. PICK r : r = [read[s] EXCEPT !.queue = cache.queue, !.built = revision]
    OBVIOUS
  <2>2. cache # None /\ cache.revision = revision
    BY <1>2 DEF Cached
  <2>3. cache.queue \in Bits
    BY <2>2, RowFacts DEF Snapshots
  <2>4. r \in Readings /\ r.revision = read[s].revision /\ r.history = read[s].history
        /\ r.queue = cache.queue /\ r.built = revision
    BY <2>1, <2>3, RowFacts DEF Readings
  <2>5. read' = [read EXCEPT ![s] = r]
    BY <1>2, <2>1
  <2>6. Row(s, "check", task[s], event[s], r, inbox[s], client[s])
    BY <1>0, <1>2, <2>5, RowFacts DEF Row
  <2>7. QueueOK(cache)
    BY <2>2 DEF IInv, CacheSound
  <2>8. Shared(s)
    BY <1>0, <1>2 DEF Shared
  <2>9. RowRead(s, "check", event[s], r, inbox[s]) /\ RowAwake("check", task[s], inbox[s])
        /\ RowSnapshot(s, "check", task[s], r, client[s])
    BY <1>0, <2>2, <2>4, <2>7, RowFacts DEF RowRead, RowAwake, RowSnapshot, ReadSound, HistoryOK, QueueOK
  <2> QED  BY <1>1, <2>4, <2>6, <2>8, <2>9, RowFacts, RowKeeps
<1>3. CASE /\ ~ Cached /\ MayBuild
           /\ builder' = s
           /\ read' = [read EXCEPT ![s].queue = db.queue, ![s].built = revision]
           /\ pc' = [pc EXCEPT ![s] = "build"]
  <2>1. PICK r : r = [read[s] EXCEPT !.queue = db.queue, !.built = revision]
    OBVIOUS
  <2>2. cache # None => cache.revision # revision
    BY <1>3 DEF Cached
  <2>3. db.queue \in Bits
    BY DEF IInv, SystemTyped
  <2>4. r \in Readings /\ r.revision = read[s].revision /\ r.history = read[s].history
        /\ r.queue = db.queue /\ r.built = revision
    BY <2>1, <2>3, RowFacts DEF Readings
  <2>5. read' = [read EXCEPT ![s] = r]
    BY <1>3, <2>1
  <2>6. Row(s, "build", task[s], event[s], r, inbox[s], client[s])
    BY <1>0, <1>3, <2>5, RowFacts DEF Row
  <2>7. Shared(s)
    BY <1>0, <1>3 DEF Shared, MayBuild
  <2>8. RowRead(s, "build", event[s], r, inbox[s]) /\ RowAwake("build", task[s], inbox[s])
        /\ RowSnapshot(s, "build", task[s], r, client[s])
    BY <1>0, <1>3, <2>2, <2>4, RowFacts DEF RowRead, RowAwake, RowSnapshot, ReadSound, HistoryOK, QueueOK
  <2> QED  BY <1>1, <2>4, <2>6, <2>7, <2>8, RowFacts, RowKeeps
<1> QED  BY <1>2, <1>3 DEF ReadSnapshot

\* Caching a built snapshot, or building it again, keeps the invariant.
LEMMA StoreStep ==
    ASSUME IInv, NEW s \in Sockets, Store(s)
    PROVE  IInv'
<1>0. UNCHANGED <<feed, task, event, read, inbox, client>> /\ pc[s] = "build" /\ builder' = None
  BY DEF Store, eventVars
<1>1. Reader(s) /\ "check" \in Phases /\ "snapshot" \in Phases /\ builder = s
  BY <1>0, RowFacts DEF Reader, Socket, Phases, SnapshotSound
<1>2. CASE read[s].built = revision
  <2>1. cache' = [revision |-> revision, queue |-> read[s].queue] /\ pc' = [pc EXCEPT ![s] = "check"]
    BY <1>2 DEF Store
  <2>2. cache' \in Snapshots /\ cache'.revision = revision /\ cache'.queue = read[s].queue
    BY <2>1, RowFacts DEF Snapshots
  <2>3. QueueOK(read[s]) /\ (cache # None => cache.revision # revision) /\ cache' # None
    BY <1>0, <1>2, <2>2, RowFacts, NoneAssumption DEF ReadSound, SnapshotSound
  <2>4. Shared(s)
    BY <1>0, <1>1, <2>2, <2>3 DEF Shared, QueueOK
  <2>5. Row(s, "check", task[s], event[s], read[s], inbox[s], client[s])
    BY <1>0, <2>1, RowFacts DEF Row
  <2>6. RowRead(s, "check", event[s], read[s], inbox[s]) /\ RowAwake("check", task[s], inbox[s])
        /\ RowSnapshot(s, "check", task[s], read[s], client[s])
    BY <1>0, <1>2, <2>2, <2>3, RowFacts DEF RowRead, RowAwake, RowSnapshot, ReadSound
  <2> QED  BY <1>1, <2>4, <2>5, <2>6, RowFacts, RowKeeps
<1>3. CASE read[s].built # revision
  <2>1. cache' = cache /\ pc' = [pc EXCEPT ![s] = "snapshot"]
    BY <1>3 DEF Store
  <2>2. Shared(s)
    BY <1>0, <1>1, <2>1 DEF Shared
  <2>3. Row(s, "snapshot", task[s], event[s], read[s], inbox[s], client[s])
    BY <1>0, <2>1, RowFacts DEF Row
  <2>4. RowRead(s, "snapshot", event[s], read[s], inbox[s]) /\ RowAwake("snapshot", task[s], inbox[s])
        /\ RowSnapshot(s, "snapshot", task[s], read[s], client[s])
    BY <1>0, RowFacts DEF RowRead, RowAwake, RowSnapshot, ReadSound
  <2> QED  BY <1>1, <2>2, <2>3, <2>4, RowFacts, RowKeeps
<1> QED  BY <1>2, <1>3

\* A consistent reading answers a request ...
LEMMA AnswerStep ==
    ASSUME IInv, NEW s \in Sockets, Answer(s)
    PROVE  IInv'
<1>0. /\ pc[s] = "check" /\ task[s] = "http" /\ read[s].built = revision /\ read[s].revision = revision
      /\ client' = [client EXCEPT ![s] = View(s)]
      /\ UNCHANGED <<cache, builder, feed, task, inbox>>
  BY RowFacts DEF Answer, Overtaken, feedVars, eventVars
<1>1. Row(s, "off", "http", None, Blank, inbox[s], View(s))
  BY <1>0, RowFacts DEF Answer, Forget, Row
<1>2. View(s).revision = read[s].revision /\ View(s).queue = read[s].queue
  BY DEF View
<1>3. Reader(s) /\ Shared(s) /\ "off" \in Phases /\ "http" \in Tasks
  BY <1>0 DEF Reader, Socket, Shared, Phases, Tasks
<1>4. RowRead(s, "off", None, Blank, inbox[s]) /\ RowAwake("off", "http", inbox[s])
      /\ RowSnapshot(s, "off", "http", Blank, View(s))
  BY <1>0, <1>2, RowFacts DEF RowRead, RowAwake, RowSnapshot, SnapshotSound
<1> QED  BY <1>1, <1>3, <1>4, RowFacts, RowKeeps

\* ... or becomes the view of the feed.
LEMMA PublishStep ==
    ASSUME IInv, NEW s \in Sockets, NEW fits \in BOOLEAN, Publish(s, fits)
    PROVE  IInv'
<1>0. /\ pc[s] = "check" /\ task[s] # "http" /\ read[s].built = revision /\ read[s].revision = revision
      /\ feed' = View(s)
      /\ UNCHANGED <<cache, builder, task, inbox, client>>
  BY RowFacts DEF Publish, Overtaken, eventVars
<1>1. Row(s, "deliver", task[s], None, Blank, inbox[s], client[s])
  BY <1>0, RowFacts DEF Publish, Forget, Row
<1>2. feed' \in Views /\ feed'.revision = revision /\ feed'.queue = read[s].queue
      /\ feed'.history = read[s].history
  BY <1>0, RowFacts DEF View, Views
<1>3. QueueOK(read[s]) /\ HistoryOK(read[s]) /\ feed' # None
  BY <1>0, <1>2, RowFacts, NoneAssumption DEF ReadSound
<1>4. Reader(s) /\ Shared(s) /\ "deliver" \in Phases
  BY <1>0, <1>2, <1>3 DEF Reader, Socket, Shared, Phases, QueueOK, HistoryOK
<1>5. RowRead(s, "deliver", None, Blank, inbox[s]) /\ RowAwake("deliver", task[s], inbox[s])
      /\ RowSnapshot(s, "deliver", task[s], Blank, client[s])
  BY <1>0, <1>2, <1>3, RowFacts DEF RowRead, RowAwake, RowSnapshot
<1> QED  BY <1>1, <1>4, <1>5, RowFacts, RowKeeps

\* An overtaken reading is repeated, or given up.
LEMMA AgainStep ==
    ASSUME IInv, NEW s \in Sockets, Again(s)
    PROVE  IInv'
<1>0. UNCHANGED <<cache, builder, feed, task, client>>
  BY DEF Again
<1>1. Reader(s) /\ Shared(s) /\ "load" \in Phases /\ "fetch" \in Phases /\ "off" \in Phases
  BY <1>0 DEF Reader, Socket, Shared, Phases
<1>2. CASE reads[s] < MaxReads
  <2>1. Row(s, "load", task[s], event[s], read[s], inbox[s], client[s])
    BY <1>0, <1>2, RowFacts DEF Again, Row
  <2>2. RowRead(s, "load", event[s], read[s], inbox[s]) /\ RowAwake("load", task[s], inbox[s])
        /\ RowSnapshot(s, "load", task[s], read[s], client[s])
    BY RowFacts DEF RowRead, RowAwake, RowSnapshot
  <2> QED  BY <1>1, <2>1, <2>2, RowFacts, RowKeeps
<1>3. CASE ~ (reads[s] < MaxReads)
  <2>1. PICK p : p = IF task[s] = "http" THEN "fetch" ELSE "off"
    OBVIOUS
  <2>2. Row(s, p, task[s], None, Blank, Nothing, client[s])
    BY <1>0, <1>3, <2>1, RowFacts DEF Again, Forget, Row
  <2>3. p \in Phases /\ (p = "off" => task[s] # "http") /\ p \in {"fetch", "off"}
    BY <1>1, <2>1
  <2>4. RowRead(s, p, None, Blank, Nothing) /\ RowAwake(p, task[s], Nothing)
        /\ RowSnapshot(s, p, task[s], Blank, client[s])
    BY <2>3, RowFacts DEF RowRead, RowAwake, RowSnapshot
  <2> QED  BY <1>1, <2>2, <2>3, <2>4, RowFacts, RowKeeps
<1> QED  BY <1>2, <1>3

\* Delivery, or a resync.
LEMMA DeliverStep ==
    ASSUME IInv, NEW s \in Sockets, Deliver(s)
    PROVE  IInv'
<1>0. /\ pc[s] = "deliver" /\ pc' = [pc EXCEPT ![s] = "idle"]
      /\ UNCHANGED <<cache, builder, feed, task, event, read, inbox>>
  BY DEF Deliver, feedVars, eventVars
<1>1. PICK c : client' = [client EXCEPT ![s] = c]
  BY DEF Deliver
<1>2. Row(s, "idle", task[s], event[s], read[s], inbox[s], c)
  BY <1>0, <1>1, RowFacts DEF Row
<1>3. Reader(s) /\ Shared(s) /\ "idle" \in Phases
  BY <1>0 DEF Reader, Socket, Shared, Phases
<1>4. RowRead(s, "idle", event[s], read[s], inbox[s]) /\ RowAwake("idle", task[s], inbox[s])
      /\ RowSnapshot(s, "idle", task[s], read[s], c)
  BY <1>0, RowFacts DEF RowRead, RowAwake, RowSnapshot, AwakeSound
<1> QED  BY <1>2, <1>3, <1>4, RowFacts, RowKeeps

\* Sending a client back to reading everything keeps the invariant.
LEMMA ResyncStep ==
    ASSUME IInv, NEW s \in Sockets, Resync(s)
    PROVE  IInv'
<1>1. Row(s, "fetch", task[s], event[s], read[s], Nothing, client[s])
  BY RowFacts DEF Resync, Row
<1>2. Reader(s) /\ Shared(s) /\ "fetch" \in Phases
  BY DEF Resync, Reader, Socket, Shared, feedVars, Phases
<1>3. RowRead(s, "fetch", event[s], read[s], Nothing) /\ RowAwake("fetch", task[s], Nothing)
      /\ RowSnapshot(s, "fetch", task[s], read[s], client[s])
  BY RowFacts DEF RowRead, RowAwake, RowSnapshot
<1> QED  BY <1>1, <1>2, <1>3, RowFacts, RowKeeps

\* Every step of a reader keeps the invariant.
LEMMA ReaderStep ==
    ASSUME IInv, NEW s \in Sockets, Reader(s)
    PROVE  IInv'
<1>1. CASE Fetch(s) \/ Connect(s) \/ Wake(s) \/ Heartbeat(s) \/ Hangup(s)
  BY <1>1, FetchStep, ConnectStep, WakeStep, HeartbeatStep, HangupStep
<1>2. CASE Advance(s) \/ Refresh(s) \/ ReadHistory(s) \/ ReadSnapshot(s) \/ Store(s)
  BY <1>2, AdvanceStep, RefreshStep, ReadHistoryStep, ReadSnapshotStep, StoreStep
<1>3. CASE Answer(s) \/ Again(s) \/ Deliver(s) \/ Resync(s)
  BY <1>3, AnswerStep, AgainStep, DeliverStep, ResyncStep
<1>4. CASE \E fits \in BOOLEAN : Publish(s, fits)
  BY <1>4, PublishStep
<1> QED  BY <1>1, <1>2, <1>3, <1>4, Zenon DEF Reader, Socket

\* The invariant holds at the start.
LEMMA InitInv ==
    ASSUME Init
    PROVE  IInv
<1>1. \A S : <<>> \in Seq(S) /\ Items(<<>>) = {}
  BY NoItems
<1>2. Nothing \in Receivers /\ Nothing.events = <<>>
  BY <1>1 DEF Nothing, Receivers
<1>3. Blank \in Readings /\ Blank.revision = 0 /\ Blank.built = 0
  BY DEF Blank, Readings, Bits
<1>4. SystemTyped
  BY <1>1, <1>2 DEF Init, SystemTyped, Bits
<1>5. ReaderTyped
  BY <1>3 DEF Init, ReaderTyped
<1>6. Around = {} /\ Items(registry) = {}
  BY <1>1 DEF Init, Around, OnTheWay, InHand, Claimed
<1>7. IdsSound /\ BatchSound /\ FeedSound /\ CacheSound
  BY <1>6 DEF Init, IdsSound, BatchSound, FeedSound, CacheSound
<1>8. ASSUME NEW s \in Sockets
      PROVE  /\ pc[s] = "fetch" /\ event[s] = None /\ read[s] = Blank /\ inbox[s] = Nothing
             /\ Items(inbox[s].events) = {}
  BY <1>1, <1>2 DEF Init
<1>9. RevisionsSound
  BY <1>3, <1>8 DEF Init, RevisionsSound
<1>10. ASSUME NEW s \in Sockets
       PROVE  ReadSound(s) /\ EventsSound(s) /\ AwakeSound(s) /\ SnapshotSound(s)
  BY <1>8 DEF ReadSound, EventsSound, AwakeSound, SnapshotSound
<1> QED  BY <1>4, <1>5, <1>7, <1>9, <1>10 DEF IInv

\* Every step keeps it.
LEMMA StepInv ==
    ASSUME IInv, [Next]_vars
    PROVE  IInv'
<1>1. CASE System
  BY <1>1, SystemStep, QuietStep, LoudStep
<1>2. CASE \E s \in Sockets : Reader(s)
  BY <1>2, ReaderStep
<1>3. CASE UNCHANGED vars
  <2>1. UNCHANGED <<db, commits, pg, unpublished, listener, batch, registry, revision, inbox,
                    cache, builder, feed, pc, task, event, read, client>>
    BY <1>3, StutterFrame
  <2>2. QueueDue' = QueueDue /\ HistoryDue' = HistoryDue /\ Around' = Around
    BY <2>1 DEF QueueDue, HistoryDue, Around, OnTheWay, InHand, Claimed, Owes, Known
  <2>3. SystemTyped' /\ ReaderTyped' /\ IdsSound' /\ BatchSound' /\ RevisionsSound'
    BY <2>1, <2>2 DEF IInv, SystemTyped, ReaderTyped, IdsSound, BatchSound, RevisionsSound
  <2>4. FeedSound' /\ CacheSound'
    BY <2>1, <2>2 DEF IInv, FeedSound, CacheSound, QueueOK, HistoryOK
  <2>5. ASSUME NEW s \in Sockets
        PROVE  (ReadSound(s) /\ EventsSound(s) /\ AwakeSound(s) /\ SnapshotSound(s))'
    <3>1. ReadSound(s) /\ EventsSound(s) /\ AwakeSound(s) /\ SnapshotSound(s)
      BY DEF IInv
    <3> QED  BY <2>1, <2>2, <3>1 DEF ReadSound, EventsSound, EventSound, AwakeSound, SnapshotSound,
                                     QueueOK, HistoryOK
  <2> QED  BY <2>3, <2>4, <2>5 DEF IInv
<1> QED  BY <1>1, <1>2, <1>3, StepCases

-----------------------------------------------------------------------------

\* The inductive invariant holds for any sockets and any limits.
THEOREM Inductive == Spec => []IInv
BY InitInv, StepInv, PTL DEF Spec

\* A revision names one snapshot, in every reading and in every answer, for any
\* number of readers and commits.
THEOREM OneSnapshotPerRevision == Spec => []SameRevisionSameQueue
<1>1. IInv => SameRevisionSameQueue
  BY DEF IInv, SameRevisionSameQueue, SnapshotSound
<1> QED  BY <1>1, Inductive, PTL

\* No commit is lost on its way to the feed, for any registry limit, receiver
\* capacity and number of gaps: an identity forgotten is announced again, a lost
\* notification is made up for by the invalidation of the new connection.
THEOREM NothingGetsLost == Spec => []NothingIsLost
<1>1. IInv => NothingIsLost
  <2> SUFFICES ASSUME IInv, Settled PROVE feed.queue = db.queue /\ feed.history = db.history
    BY DEF NothingIsLost
  <2>1. PICK s \in Sockets : TRUE
    BY NoneAssumption
  <2>2. feed # None /\ feed.revision = revision
    BY DEF IInv, Settled, AwakeSound
  <2>3. ~ QueueDue /\ ~ HistoryDue
    BY NoItems DEF Settled, QueueDue, HistoryDue, OnTheWay, InHand, Claimed
  <2> QED  BY <2>2, <2>3 DEF IInv, FeedSound, QueueOK, HistoryOK
<1> QED  BY <1>1, Inductive, PTL

-----------------------------------------------------------------------------
(***************************************************************************)
(* The history of the feed and the clients: their types and limits.        *)
(***************************************************************************)

Deltas == [base : Nat, revision : Nat, fields : SUBSET {"queue", "history"},
           queue : Bits, history : Bits]

HistoryTyped ==
    /\ log \in Seq(Deltas) /\ Len(log) <= HistoryEntries
    /\ Len(registry) <= RegistryLimit
    /\ builder \in Sockets \cup {None} /\ owner \in Sockets \cup {None}
    /\ client \in [Sockets -> Views]

\* Every set of natural numbers that is not empty has a least element.
LEMMA Least ==
    ASSUME NEW S \in SUBSET Nat, S # {}
    PROVE  Min(S) \in S /\ \A m \in S : Min(S) <= m
<1>1. PICK n \in S : \A m \in S : ~ (<<m, n>> \in OpToRel(<, Nat))
  BY NatLessThanWellFounded, WFMin
<1>2. \A m \in S : ~ (m < n)
  BY <1>1 DEF OpToRel
<1>3. n \in S /\ \A m \in S : n <= m
  BY <1>2
<1> QED  BY <1>3 DEF Min

\* A set of positions that is not empty has a last one.
LEMMA LastPosition ==
    ASSUME NEW n \in Nat, NEW S \in SUBSET (1 .. n), S # {}
    PROVE  Max(S) \in S /\ \A m \in S : m <= Max(S)
<1> DEFINE Above == {b \in Nat : \A m \in S : m <= b}
<1>1. n \in Above
  OBVIOUS
<1>2. Above \in SUBSET Nat /\ Above # {}
  BY <1>1
<1>3. PICK b : b = Min(Above)
  OBVIOUS
<1>4. b \in Above /\ \A a \in Above : b <= a
  <2> HIDE DEF Above
  <2> QED  BY <1>2, <1>3, Least
<1>5. b \in S
  <2> SUFFICES ASSUME b \notin S PROVE FALSE
    OBVIOUS
  <2>1. b - 1 \in Nat /\ \A m \in S : m <= b - 1
    <3>1. PICK m \in S : TRUE
      OBVIOUS
    <3>2. m \in 1 .. n /\ m <= b
      BY <1>4, <3>1
    <3> QED  BY <1>4, <3>2
  <2> QED  BY <1>4, <2>1
<1>6. b \in S /\ \A m \in S : b >= m
  BY <1>4, <1>5
<1> HIDE DEF Above
<1>7. Max(S) \in S /\ \A m \in S : Max(S) >= m
  BY <1>6 DEF Max
<1> QED  BY <1>7

\* A delta is one, and the history with it stays within its limit.
LEMMA PrunedTyped ==
    ASSUME log \in Seq(Deltas), Len(log) <= HistoryEntries,
           NEW before \in Views, NEW after \in Views
    PROVE  /\ Delta(before, after) \in Deltas
           /\ Pruned(Append(log, Delta(before, after))) \in Seq(Deltas)
           /\ Len(Pruned(Append(log, Delta(before, after)))) <= HistoryEntries
<1>1. PICK d : d = Delta(before, after)
  OBVIOUS
<1>2. before.revision \in Nat /\ after.revision \in Nat /\ after.queue \in Bits /\ after.history \in Bits
  BY DEF Views
<1>3. d \in Deltas
  BY <1>1, <1>2 DEF Delta, Deltas
<1>4. PICK a : a = Append(log, d)
  OBVIOUS
<1>5. a \in Seq(Deltas) /\ Len(a) = Len(log) + 1 /\ a # <<>> /\ HistoryEntries \in Nat
  BY <1>3, <1>4, BoundsAssumption
<1>6. Tail(a) \in Seq(Deltas) /\ Len(Tail(a)) = Len(a) - 1
  BY <1>5
<1>7. Pruned(a) \in Seq(Deltas) /\ Len(Pruned(a)) <= HistoryEntries
  BY <1>5, <1>6 DEF Pruned
<1> QED  BY <1>1, <1>3, <1>4, <1>7

\* What a client is patched to is a view.
LEMMA PatchedTyped ==
    ASSUME log \in Seq(Deltas), NEW view \in Views, NEW chain \in SUBSET DOMAIN log, NEW to \in Nat
    PROVE  Patched(view, chain, to) \in Views
<1> DEFINE With(f) == {i \in chain : f \in log[i].fields}
           Part(f) == IF With(f) = {} THEN view[f] ELSE log[Max(With(f))][f]
<1>1. Len(log) \in Nat /\ DOMAIN log = 1 .. Len(log)
  OBVIOUS
<1>2. \A i \in DOMAIN log : log[i].queue \in Bits /\ log[i].history \in Bits
  <2> SUFFICES ASSUME NEW i \in DOMAIN log PROVE log[i].queue \in Bits /\ log[i].history \in Bits
    OBVIOUS
  <2>1. log[i] \in Deltas
    BY <1>1, ElementOfSeq
  <2> QED  BY <2>1 DEF Deltas
<1>3. \A f : With(f) # {} => Max(With(f)) \in DOMAIN log
  <2> SUFFICES ASSUME NEW f, With(f) # {} PROVE Max(With(f)) \in DOMAIN log
    OBVIOUS
  <2>1. With(f) \in SUBSET (1 .. Len(log))
    BY <1>1
  <2> HIDE DEF With
  <2> QED  BY <1>1, <2>1, LastPosition
<1>4. Part("queue") \in Bits /\ Part("history") \in Bits
  <2>1. view.queue \in Bits /\ view.history \in Bits
    BY DEF Views
  <2> HIDE DEF With
  <2> QED  BY <1>2, <1>3, <2>1
<1>5. Patched(view, chain, to) = [revision |-> to, queue |-> Part("queue"), history |-> Part("history")]
  BY DEF Patched
<1> HIDE DEF Part
<1> QED  BY <1>4, <1>5 DEF Views

\* The registry of announced events stays within its limit.
LEMMA RegistryStep ==
    ASSUME IInv, Len(registry) <= RegistryLimit, System
    PROVE  Len(registry') <= RegistryLimit
<1>1. ASSUME NEW id \in Nat, Remember(id) PROVE Len(registry') <= RegistryLimit
  <2>1. registry \in Seq(Nat) /\ RegistryLimit \in Nat
    BY BoundsAssumption DEF IInv, SystemTyped
  <2>2. PICK a : a = Append(registry, id)
    OBVIOUS
  <2>3. a \in Seq(Nat) /\ Len(a) = Len(registry) + 1 /\ a # <<>>
    BY <1>1, <2>1, <2>2
  <2>4. Len(Tail(a)) = Len(a) - 1
    BY <2>3
  <2>5. registry' = registry \/ registry' = IF Len(a) > RegistryLimit THEN Tail(a) ELSE a
    BY <1>1, <2>2 DEF Remember
  <2> QED  BY <2>1, <2>3, <2>4, <2>5
<1>2. \A n \in Notes : n.id \in Nat
  BY DEF Notes
<1>3. SystemTyped
  BY DEF IInv
<1>4. ASSUME NEW n \in unpublished, PublishHere(n) PROVE Len(registry') <= RegistryLimit
  <2>1. registry' = registry \/ Remember(n.id)
    BY <1>4 DEF PublishHere, AnnounceOnce
  <2>2. n.id \in Nat
    BY <1>2, <1>3, <1>4 DEF SystemTyped
  <2> QED  BY <1>1, <2>1, <2>2
<1>5. CASE PublishMove
  <2>1. batch # None /\ batch.moves # <<>> /\ Remember(Head(batch.moves).id)
    BY <1>5 DEF PublishMove, AnnounceOnce
  <2>2. batch.moves \in Seq(Notes)
    BY <1>3, <2>1 DEF SystemTyped, Pendings
  <2>3. Head(batch.moves).id \in Nat
    BY <1>2, <2>1, <2>2, TailItems
  <2> QED  BY <1>1, <2>1, <2>3
<1>6. CASE ClaimTrial
  <2>1. batch # None /\ batch.trials # <<>> /\ Remember(Head(batch.trials).id)
    BY <1>6 DEF ClaimTrial
  <2>2. batch.trials \in Seq(Notes)
    BY <1>3, <2>1 DEF SystemTyped, Pendings
  <2>3. Head(batch.trials).id \in Nat
    BY <1>2, <2>1, <2>2, TailItems
  <2> QED  BY <1>1, <2>1, <2>3
<1>7. CASE Receive \/ PublishBatch \/ Listen \/ InvalidateAfterGap
  BY <1>7 DEF Receive, PublishBatch, Listen, InvalidateAfterGap, eventVars
<1>8. CASE \E kind \in Kinds, changed \in SUBSET DOMAIN db, here \in BOOLEAN :
             Commit(kind, changed, here)
  BY <1>8 DEF Commit, eventVars
<1>9. CASE \E n \in unpublished : DropHere(n)
  BY <1>9 DEF DropHere, eventVars
<1>10. CASE \E kept \in BOOLEAN : LoseConnection(kept)
  BY <1>10 DEF LoseConnection, eventVars
<1> QED  BY <1>4, <1>5, <1>6, <1>7, <1>8, <1>9, <1>10 DEF System, Listener

\* A reader keeps the history within its limit, and the clients views.
LEMMA HistoryStep ==
    ASSUME IInv, HistoryTyped, NEW s \in Sockets, Reader(s)
    PROVE  HistoryTyped'
<1>r. UNCHANGED <<registry, revision>> /\ Len(registry) <= RegistryLimit
  BY ReaderFrame DEF HistoryTyped
<1>t. /\ log \in Seq(Deltas) /\ Len(log) <= HistoryEntries
      /\ builder \in Sockets \cup {None} /\ owner \in Sockets \cup {None}
      /\ client \in [Sockets -> Views]
  BY DEF HistoryTyped
<1>v. /\ View(s) \in Views /\ revision \in Nat /\ feed \in Views \cup {None}
      /\ pc[s] = "deliver" => feed # None
  BY RowFacts DEF View, Views, AwakeSound
<1>1. CASE Fetch(s) \/ Connect(s) \/ Wake(s) \/ Heartbeat(s) \/ Hangup(s) \/ ReadHistory(s) \/ Resync(s)
  <2>1. UNCHANGED <<log, builder, owner, client>>
    BY <1>1 DEF Fetch, Connect, Wake, Heartbeat, Hangup, ReadHistory, Resync, feedVars
  <2> QED  BY <1>r, <1>t, <2>1 DEF HistoryTyped
<1>2. CASE Refresh(s) \/ Again(s) \/ ReadSnapshot(s) \/ Store(s)
  <2>1. UNCHANGED <<log, client>>
    BY <1>2 DEF Refresh, Again, ReadSnapshot, Store
  <2>2. owner' \in {owner, None, s} /\ builder' \in {builder, None, s}
    BY <1>2 DEF Refresh, Again, ReadSnapshot, Store
  <2> QED  BY <1>r, <1>t, <2>1, <2>2 DEF HistoryTyped
<1>3. CASE Answer(s)
  <2>1. UNCHANGED <<log, builder, owner>> /\ client' = [client EXCEPT ![s] = View(s)]
    BY <1>3 DEF Answer, feedVars
  <2> QED  BY <1>r, <1>t, <1>v, <2>1 DEF HistoryTyped
<1>4. CASE Advance(s)
  <2>1. PICK next : next = [feed EXCEPT !.revision = revision]
    OBVIOUS
  <2>2. feed # None /\ log' = Pruned(Append(log, Delta(feed, next))) /\ UNCHANGED <<builder, owner, client>>
    BY <1>4, <2>1 DEF Advance, Unchanged, OneColourStep
  <2>3. feed \in Views /\ next \in Views
    BY <1>v, <2>1, <2>2 DEF Views
  <2> QED  BY <1>r, <1>t, <2>2, <2>3, PrunedTyped DEF HistoryTyped
<1>5. ASSUME NEW fits \in BOOLEAN, Publish(s, fits) PROVE HistoryTyped'
  <2>1. log' = Replaced(View(s), fits) /\ owner' = None /\ UNCHANGED <<builder, client>>
    BY <1>5 DEF Publish
  <2>2. <<>> \in Seq(Deltas) /\ Len(<<>>) = 0 /\ HistoryEntries \in Nat
    BY BoundsAssumption
  <2>3. CASE feed = None \/ ~ fits
    <3>1. log' = log \/ log' = <<>>
      BY <2>1, <2>3 DEF Replaced
    <3>2. log' \in Seq(Deltas) /\ Len(log') <= HistoryEntries
      <4>1. CASE log' = log
        BY <1>t, <4>1
      <4>2. CASE log' = <<>>
        BY <2>2, <4>2
      <4> QED  BY <3>1, <4>1, <4>2
    <3> QED  BY <1>r, <1>t, <2>1, <3>2 DEF HistoryTyped
  <2>4. CASE feed # None /\ fits
    <3>1. log' = Pruned(Append(log, Delta(feed, View(s)))) /\ feed \in Views
      BY <1>v, <2>1, <2>4 DEF Replaced
    <3> QED  BY <1>r, <1>t, <1>v, <2>1, <3>1, PrunedTyped DEF HistoryTyped
  <2> QED  BY <2>3, <2>4
<1>6. CASE Deliver(s)
  <2>1. PICK from : from = client[s].revision
    OBVIOUS
  <2>2. PICK chain : chain = {i \in Later(from) : log[i].fields # {}}
    OBVIOUS
  <2>3. PICK last : last = IF task[s] = "beat" THEN feed.revision
                           ELSE IF chain = {} THEN from ELSE log[Max(chain)].revision
    OBVIOUS
  <2>4. /\ client' = [client EXCEPT ![s] = Patched(client[s], chain, last)]
        /\ UNCHANGED <<log, builder, owner>> /\ pc[s] = "deliver"
    BY <1>6, <2>1, <2>2, <2>3 DEF Deliver, feedVars
  <2>5. from \in Nat /\ feed.revision \in Nat /\ client[s] \in Views
    BY <1>t, <1>v, <2>1, <2>4 DEF Views
  <2>6. chain \in SUBSET DOMAIN log /\ chain \in SUBSET (1 .. Len(log)) /\ Len(log) \in Nat
    BY <1>t, <2>2 DEF Later
  <2>7. chain # {} => log[Max(chain)].revision \in Nat
    <3> SUFFICES ASSUME chain # {} PROVE log[Max(chain)].revision \in Nat
      OBVIOUS
    <3>1. Max(chain) \in 1 .. Len(log)
      BY <2>6, LastPosition
    <3>2. log[Max(chain)] \in Deltas
      BY <1>t, <3>1, ElementOfSeq
    <3> QED  BY <3>2 DEF Deltas
  <2>8. last \in Nat
    BY <2>3, <2>5, <2>7
  <2>9. Patched(client[s], chain, last) \in Views
    BY <1>t, <2>5, <2>6, <2>8, PatchedTyped
  <2> QED  BY <1>r, <1>t, <2>4, <2>9 DEF HistoryTyped
<1> QED  BY <1>1, <1>2, <1>3, <1>4, <1>5, <1>6, Zenon DEF Reader, Socket

\* The types and limits hold at every step.
LEMMA HistoryTypedStep ==
    ASSUME IInv, HistoryTyped, [Next]_vars
    PROVE  HistoryTyped'
<1>1. CASE System
  <2>1. UNCHANGED <<builder, log, owner, client>>
    BY <1>1, SystemFrame
  <2>2. Len(registry') <= RegistryLimit
    BY <1>1, RegistryStep DEF HistoryTyped
  <2> QED  BY <2>1, <2>2 DEF HistoryTyped
<1>2. CASE \E s \in Sockets : Reader(s)
  BY <1>2, HistoryStep
<1>3. CASE UNCHANGED vars
  BY <1>3 DEF HistoryTyped, vars, feedVars, eventVars
<1> QED  BY <1>1, <1>2, <1>3, StepCases

\* Types and limits, always.
LEMMA HistoryTypedAlways == Spec => [](IInv /\ HistoryTyped)
<1>1. Init => HistoryTyped
  <2> SUFFICES ASSUME Init PROVE HistoryTyped
    OBVIOUS
  <2>1. <<>> \in Seq(Deltas) /\ Len(<<>>) = 0 /\ HistoryEntries \in Nat /\ RegistryLimit \in Nat
    BY BoundsAssumption
  <2>2. Origin \in Views
    BY DEF Origin, Views, Bits
  <2> QED  BY <2>1, <2>2 DEF Init, HistoryTyped
<1> QED  BY <1>1, InitInv, StepInv, HistoryTypedStep, PTL DEF Spec

\* Every variable keeps its type, for any sockets and any limits: the registry of
\* announced events and the history of the feed never outgrow theirs, and what a
\* client is patched to from the history is a view (CommittedLiveEvents::remember,
\* LiveHistory::prune, LiveHistory::recover).
THEOREM TypeCorrect == Spec => []TypeOK
<1>1. IInv /\ HistoryTyped => TypeOK
  <2> SUFFICES ASSUME IInv, HistoryTyped PROVE TypeOK
    OBVIOUS
  <2>1. SystemTyped /\ ReaderTyped
    BY DEF IInv
  <2>2. db \in [{"queue", "history"} -> 0 .. 1]
    <3>1. db \in [queue : 0 .. 1, history : 0 .. 1]
      BY <2>1 DEF SystemTyped, Bits
    <3> QED  BY <3>1
  <2> QED  BY <2>1, <2>2 DEF TypeOK, HistoryTyped, SystemTyped, ReaderTyped
<1> QED  BY <1>1, HistoryTypedAlways, PTL

-----------------------------------------------------------------------------
(***************************************************************************)
(* The screens: a client follows the queue of the feed, delta by delta.    *)
(***************************************************************************)

\* No delta of the history between two positions carries the queue.
Silent(q, i, j) == \A k \in i .. j : "queue" \notin q[k].fields

\* A history leads, revision by revision, to the view of the feed, and a queue
\* that no delta carries is the same before and after.
ChainTo(q, v) ==
    /\ q # <<>> => /\ v # None
                   /\ q[Len(q)].revision = v.revision /\ q[Len(q)].queue = v.queue
    /\ \A i \in 1 .. Len(q) : q[i].base < q[i].revision
    /\ \A i, j \in 1 .. Len(q) : i < j => q[i].revision <= q[j].base
    /\ \A i, j \in 1 .. Len(q) : (i < j /\ Silent(q, i + 1, j)) => q[i].queue = q[j].queue

\* A client at the base of a delta may skip those that do not carry the queue.
Follows(c, q) ==
    \A i, j \in 1 .. Len(q) :
        (i <= j /\ q[i].base = c.revision /\ Silent(q, i, j)) => c.queue = q[j].queue

\* Dropping the oldest delta keeps what the rest says.
LEMMA Suffix ==
    ASSUME NEW q \in Seq(Deltas), NEW r \in Seq(Deltas), NEW o \in {0, 1},
           Len(r) = Len(q) - o, \A i \in 1 .. Len(r) : r[i] = q[i + o]
    PROVE  /\ \A v : ChainTo(q, v) => ChainTo(r, v)
           /\ \A c : Follows(c, q) => Follows(c, r)
<1>1. Len(q) \in Nat /\ Len(r) \in Nat
  OBVIOUS
<1>2. \A i \in 1 .. Len(r) : i + o \in 1 .. Len(q)
  BY <1>1
<1>3. ASSUME NEW i \in 1 .. Len(r), NEW j \in 1 .. Len(r)
      PROVE  /\ Silent(r, i, j) => Silent(q, i + o, j + o)
             /\ Silent(r, i + 1, j) => Silent(q, (i + o) + 1, j + o)
  <2>1. ASSUME NEW k \in (i + o) .. (j + o) PROVE k - o \in i .. j /\ k - o \in 1 .. Len(r) /\ r[k - o] = q[k]
    <3>1. k - o \in i .. j /\ k - o \in 1 .. Len(r) /\ (k - o) + o = k
      BY <1>1, <2>1
    <3>2. r[k - o] = q[(k - o) + o]
      BY <3>1
    <3> QED  BY <3>1, <3>2
  <2>2. ASSUME NEW k \in ((i + o) + 1) .. (j + o)
        PROVE  k - o \in (i + 1) .. j /\ k - o \in 1 .. Len(r) /\ r[k - o] = q[k]
    <3>1. k - o \in (i + 1) .. j /\ k - o \in 1 .. Len(r) /\ (k - o) + o = k
      BY <1>1, <2>2
    <3>2. r[k - o] = q[(k - o) + o]
      BY <3>1
    <3> QED  BY <3>1, <3>2
  <2> QED  BY <2>1, <2>2 DEF Silent
<1>4. ASSUME NEW v, ChainTo(q, v) PROVE ChainTo(r, v)
  <2>1. r # <<>> => q # <<>> /\ r[Len(r)] = q[Len(q)]
    <3> SUFFICES ASSUME r # <<>> PROVE q # <<>> /\ r[Len(r)] = q[Len(q)]
      OBVIOUS
    <3>1. Len(r) # 0
      BY EmptySeq
    <3>2. Len(r) \in 1 .. Len(r) /\ Len(r) + o = Len(q) /\ Len(q) # 0
      BY <1>1, <3>1
    <3> QED  BY <3>2
  <2>2. \A i \in 1 .. Len(r) : r[i].base < r[i].revision
    BY <1>2, <1>4 DEF ChainTo
  <2>3. \A i, j \in 1 .. Len(r) : i < j => r[i].revision <= r[j].base
    <3> SUFFICES ASSUME NEW i \in 1 .. Len(r), NEW j \in 1 .. Len(r), i < j
                 PROVE  r[i].revision <= r[j].base
      OBVIOUS
    <3>1. i + o < j + o /\ i + o \in 1 .. Len(q) /\ j + o \in 1 .. Len(q)
      BY <1>2
    <3> QED  BY <1>4, <3>1 DEF ChainTo
  <2>4. \A i, j \in 1 .. Len(r) : (i < j /\ Silent(r, i + 1, j)) => r[i].queue = r[j].queue
    <3> SUFFICES ASSUME NEW i \in 1 .. Len(r), NEW j \in 1 .. Len(r), i < j, Silent(r, i + 1, j)
                 PROVE  r[i].queue = r[j].queue
      OBVIOUS
    <3>1. i + o < j + o /\ i + o \in 1 .. Len(q) /\ j + o \in 1 .. Len(q)
      BY <1>2
    <3>2. Silent(q, (i + o) + 1, j + o)
      BY <1>3
    <3>3. q[i + o].queue = q[j + o].queue
      BY <1>4, <3>1, <3>2 DEF ChainTo
    <3> QED  BY <3>3
  <2>5. q # <<>> => v # None /\ q[Len(q)].revision = v.revision /\ q[Len(q)].queue = v.queue
    BY <1>4 DEF ChainTo
  <2> QED  BY <2>1, <2>2, <2>3, <2>4, <2>5 DEF ChainTo
<1>5. ASSUME NEW c, Follows(c, q) PROVE Follows(c, r)
  <2> SUFFICES ASSUME NEW i \in 1 .. Len(r), NEW j \in 1 .. Len(r), i <= j,
                      r[i].base = c.revision, Silent(r, i, j)
               PROVE  c.queue = r[j].queue
    BY DEF Follows
  <2>1. i + o <= j + o /\ i + o \in 1 .. Len(q) /\ j + o \in 1 .. Len(q)
    BY <1>2
  <2>2. Silent(q, i + o, j + o)
    BY <1>3
  <2>3. q[i + o].base = c.revision
    OBVIOUS
  <2>4. c.queue = q[j + o].queue
    BY <1>5, <2>1, <2>2, <2>3 DEF Follows
  <2> QED  BY <2>4
<1> QED  BY <1>4, <1>5

\* The delta to a later view continues the history, also for who follows it.
LEMMA Longer ==
    ASSUME NEW q \in Seq(Deltas), NEW v \in Views, NEW w \in Views, v.revision < w.revision,
           ChainTo(q, v), NEW a, a = Append(q, Delta(v, w))
    PROVE  /\ a \in Seq(Deltas) /\ ChainTo(a, w)
           /\ \A c : (Follows(c, q) /\ (c.revision = v.revision => c.queue = v.queue)) => Follows(c, a)
<1>1. PICK d : d = Delta(v, w)
  OBVIOUS
<1>2. /\ v.revision \in Nat /\ w.revision \in Nat /\ w.queue \in Bits /\ w.history \in Bits
      /\ w # None
  BY NoneAssumption DEF Views
<1>3. /\ d \in Deltas /\ d.base = v.revision /\ d.revision = w.revision /\ d.queue = w.queue
      /\ "queue" \notin d.fields => v.queue = w.queue
  BY <1>1, <1>2 DEF Delta, Deltas
<1>4. PICK n : n = Len(q)
  OBVIOUS
<1>5. /\ n \in Nat /\ a \in Seq(Deltas) /\ Len(a) = n + 1 /\ a[n + 1] = d
      /\ \A i \in 1 .. n : a[i] = q[i]
  BY <1>1, <1>3, <1>4
<1>6. \A i \in 1 .. n : q[i].revision \in Nat /\ q[i].base \in Nat
  <2> SUFFICES ASSUME NEW i \in 1 .. n PROVE q[i].revision \in Nat /\ q[i].base \in Nat
    OBVIOUS
  <2>1. q[i] \in Deltas
    BY <1>4, ElementOfSeq
  <2> QED  BY <2>1 DEF Deltas
<1>7. n # 0 => /\ q # <<>> /\ q[n].revision = v.revision /\ q[n].queue = v.queue
  <2> SUFFICES ASSUME n # 0 PROVE q # <<>> /\ q[n].revision = v.revision /\ q[n].queue = v.queue
    OBVIOUS
  <2>1. q # <<>>
    BY <1>4
  <2> QED  BY <1>4, <2>1 DEF ChainTo
<1>8. \A i \in 1 .. n : q[i].revision <= v.revision
  <2> SUFFICES ASSUME NEW i \in 1 .. n PROVE q[i].revision <= v.revision
    OBVIOUS
  <2>1. CASE i = n
    BY <1>2, <1>7, <2>1
  <2>2. CASE i # n
    <3>1. n \in 1 .. n /\ i < n
      BY <1>5, <2>2
    <3>2. q[i].revision <= q[n].base /\ q[n].base < q[n].revision
      BY <1>4, <3>1 DEF ChainTo
    <3> QED  BY <1>2, <1>6, <1>7, <3>1, <3>2
  <2> QED  BY <2>1, <2>2
<1>9. ASSUME NEW i \in 1 .. n, NEW j \in 1 .. n, NEW k \in {i, i + 1}
      PROVE  Silent(a, k, j) => Silent(q, k, j)
  <2>1. \A m \in k .. j : m \in 1 .. n /\ a[m] = q[m]
    BY <1>5
  <2> QED  BY <2>1 DEF Silent
<1>10. ASSUME NEW k \in 1 .. (n + 1), Silent(a, k, n + 1)
       PROVE  v.queue = w.queue /\ (k <= n => Silent(q, k, n))
  <2>1. n + 1 \in k .. (n + 1) /\ (\A m \in k .. n : m \in k .. (n + 1) /\ a[m] = q[m])
    BY <1>5
  <2>2. "queue" \notin d.fields
    BY <1>5, <1>10, <2>1 DEF Silent
  <2> QED  BY <1>3, <1>10, <2>1, <2>2 DEF Silent
<1>11. ChainTo(a, w)
  <2>1. a # <<>> => w # None /\ a[Len(a)].revision = w.revision /\ a[Len(a)].queue = w.queue
    BY <1>2, <1>3, <1>5
  <2>2. \A i \in 1 .. Len(a) : a[i].base < a[i].revision
    <3> SUFFICES ASSUME NEW i \in 1 .. Len(a) PROVE a[i].base < a[i].revision
      OBVIOUS
    <3>1. CASE i = n + 1
      BY <1>3, <1>5, <3>1
    <3>2. CASE i \in 1 .. n
      BY <1>4, <1>5, <3>2 DEF ChainTo
    <3> QED  BY <1>5, <3>1, <3>2
  <2>3. \A i, j \in 1 .. Len(a) : i < j => a[i].revision <= a[j].base
    <3> SUFFICES ASSUME NEW i \in 1 .. Len(a), NEW j \in 1 .. Len(a), i < j
                 PROVE  a[i].revision <= a[j].base
      OBVIOUS
    <3>1. i \in 1 .. n
      BY <1>5
    <3>2. CASE j = n + 1
      BY <1>3, <1>5, <1>8, <3>1, <3>2
    <3>3. CASE j \in 1 .. n
      <4>1. q[i].revision <= q[j].base
        BY <1>4, <3>1, <3>3 DEF ChainTo
      <4> QED  BY <1>5, <3>1, <3>3, <4>1
    <3> QED  BY <1>5, <3>2, <3>3
  <2>4. \A i, j \in 1 .. Len(a) : (i < j /\ Silent(a, i + 1, j)) => a[i].queue = a[j].queue
    <3> SUFFICES ASSUME NEW i \in 1 .. Len(a), NEW j \in 1 .. Len(a), i < j, Silent(a, i + 1, j)
                 PROVE  a[i].queue = a[j].queue
      OBVIOUS
    <3>1. i \in 1 .. n /\ a[i] = q[i]
      BY <1>5
    <3>2. CASE j = n + 1
      <4>1. v.queue = w.queue /\ (i + 1 <= n => Silent(q, i + 1, n)) /\ n # 0 /\ n \in 1 .. n
        BY <1>5, <1>10, <3>1, <3>2
      <4>2. q[i].queue = q[n].queue
        <5>1. CASE i = n
          BY <5>1
        <5>2. CASE i # n
          BY <1>4, <1>5, <3>1, <4>1, <5>2 DEF ChainTo
        <5> QED  BY <5>1, <5>2
      <4> QED  BY <1>3, <1>5, <1>7, <3>1, <3>2, <4>1, <4>2
    <3>3. CASE j \in 1 .. n
      <4>1. q[i].queue = q[j].queue
        BY <1>4, <1>9, <3>1, <3>3 DEF ChainTo
      <4> QED  BY <1>5, <3>1, <3>3, <4>1
    <3> QED  BY <1>5, <3>2, <3>3
  <2> QED  BY <2>1, <2>2, <2>3, <2>4 DEF ChainTo
<1>12. ASSUME NEW c, Follows(c, q), c.revision = v.revision => c.queue = v.queue
       PROVE  Follows(c, a)
  <2> SUFFICES ASSUME NEW i \in 1 .. Len(a), NEW j \in 1 .. Len(a), i <= j,
                      a[i].base = c.revision, Silent(a, i, j)
               PROVE  c.queue = a[j].queue
    BY DEF Follows
  <2>1. CASE j \in 1 .. n
    <3>1. i \in 1 .. n /\ a[i] = q[i] /\ a[j] = q[j]
      BY <1>5, <2>1
    <3> QED  BY <1>4, <1>9, <1>12, <2>1, <3>1 DEF Follows
  <2>2. CASE j = n + 1 /\ i \in 1 .. n
    <3>1. a[i] = q[i] /\ Silent(q, i, n) /\ v.queue = w.queue /\ n \in 1 .. n /\ i <= n /\ n # 0
      BY <1>5, <1>10, <2>2
    <3>2. c.queue = q[n].queue
      BY <1>4, <1>12, <2>2, <3>1 DEF Follows
    <3> QED  BY <1>3, <1>5, <1>7, <2>2, <3>1, <3>2
  <2>3. CASE j = n + 1 /\ i = n + 1
    BY <1>3, <1>5, <1>10, <1>12, <2>3
  <2> QED  BY <1>5, <2>1, <2>2, <2>3
<1> QED  BY <1>5, <1>11, <1>12

\* What a client is patched to has the queue of the feed, and follows the history
\* from there: the chain LiveHistory::recover finds is whole, and what is passed
\* over in silence carries no queue.
LEMMA Recovered ==
    ASSUME log \in Seq(Deltas), feed \in Views, ChainTo(log, feed),
           NEW c \in Views, Follows(c, log), c.revision = feed.revision => c.queue = feed.queue,
           Recoverable(c.revision, feed.revision),
           NEW chain, chain = {i \in Later(c.revision) : log[i].fields # {}},
           NEW last,
           \/ last = feed.revision
           \/ last = IF chain = {} THEN c.revision ELSE log[Max(chain)].revision,
           NEW p, p = Patched(c, chain, last)
    PROVE  p.queue = feed.queue /\ p.revision <= feed.revision /\ Follows(p, log)
<1>1. PICK n : n = Len(log)
  OBVIOUS
<1>2. n \in Nat /\ DOMAIN log = 1 .. n /\ c.revision \in Nat /\ feed.revision \in Nat
  BY <1>1 DEF Views
<1>3. \A i \in 1 .. n : log[i].revision \in Nat /\ log[i].base \in Nat /\ log[i].base < log[i].revision
  <2> SUFFICES ASSUME NEW i \in 1 .. n
               PROVE  log[i].revision \in Nat /\ log[i].base \in Nat /\ log[i].base < log[i].revision
    OBVIOUS
  <2>1. log[i] \in Deltas
    BY <1>1, ElementOfSeq
  <2> QED  BY <1>1, <2>1 DEF Deltas, ChainTo
<1>4. \A i, j \in 1 .. n : i < j => log[i].revision < log[j].revision
  <2> SUFFICES ASSUME NEW i \in 1 .. n, NEW j \in 1 .. n, i < j
               PROVE  log[i].revision < log[j].revision
    OBVIOUS
  <2>1. log[i].revision <= log[j].base
    BY <1>1 DEF ChainTo
  <2> QED  BY <1>3, <2>1
<1>5. n # 0 => n \in 1 .. n /\ log[n].revision = feed.revision /\ log[n].queue = feed.queue
  <2> SUFFICES ASSUME n # 0
               PROVE  n \in 1 .. n /\ log[n].revision = feed.revision /\ log[n].queue = feed.queue
    OBVIOUS
  <2>1. log # <<>>
    BY <1>1
  <2> QED  BY <1>1, <1>2, <2>1 DEF ChainTo
<1>6. \A i \in 1 .. n : log[i].revision <= feed.revision
  <2> SUFFICES ASSUME NEW i \in 1 .. n PROVE log[i].revision <= feed.revision
    OBVIOUS
  <2>1. n # 0 /\ (i = n \/ i < n)
    BY <1>2
  <2> QED  BY <1>2, <1>3, <1>4, <1>5, <2>1
<1>7. PICK later : later = Later(c.revision)
  OBVIOUS
<1>8. /\ \A i : i \in later <=> (i \in 1 .. n /\ log[i].revision > c.revision)
      /\ \A i : i \in chain <=> (i \in later /\ log[i].fields # {})
  BY <1>2, <1>7 DEF Later
<1>9. \A i, j \in 1 .. n : (i \in later /\ i <= j) => j \in later
  <2> SUFFICES ASSUME NEW i \in 1 .. n, NEW j \in 1 .. n, i \in later, i <= j PROVE j \in later
    OBVIOUS
  <2>1. i = j \/ i < j
    OBVIOUS
  <2>2. log[i].revision > c.revision
    BY <1>8
  <2> QED  BY <1>2, <1>3, <1>4, <1>8, <2>1, <2>2
<1>10. PICK with : with = {i \in chain : "queue" \in log[i].fields}
  OBVIOUS
<1>11. p.revision = last /\ p.queue = IF with = {} THEN c.queue ELSE log[Max(with)].queue
  BY <1>10 DEF Patched
<1>12. \A i : i \in with <=> (i \in later /\ "queue" \in log[i].fields)
  BY <1>8, <1>10
<1>13. \A S \in SUBSET (1 .. n) : S # {} => Max(S) \in S /\ \A m \in S : m <= Max(S)
  BY <1>2, LastPosition
<1>14. chain \in SUBSET (1 .. n) /\ with \in SUBSET (1 .. n) /\ later \in SUBSET (1 .. n)
  BY <1>8, <1>12
<1>15. ASSUME NEW i \in 1 .. n, i \in later, \A k \in with : k <= i
       PROVE  log[i].queue = feed.queue
  <2>1. n # 0 /\ (i = n \/ i < n)
    BY <1>2
  <2>2. Silent(log, i + 1, n)
    <3> SUFFICES ASSUME NEW k \in (i + 1) .. n PROVE "queue" \notin log[k].fields
      BY DEF Silent
    <3>1. k \in 1 .. n /\ i <= k /\ ~ (k <= i)
      BY <1>2
    <3> QED  BY <1>9, <1>12, <1>15, <3>1
  <2>3. i < n => log[i].queue = log[n].queue
    BY <1>1, <1>5, <2>1, <2>2 DEF ChainTo
  <2> QED  BY <1>5, <2>1, <2>3
<1>16. CASE c.revision = feed.revision
  <2>1. later = {}
    <3> SUFFICES ASSUME NEW i \in later PROVE FALSE
      OBVIOUS
    <3>1. i \in 1 .. n /\ log[i].revision > c.revision
      BY <1>8
    <3> QED  BY <1>2, <1>3, <1>6, <1>16, <3>1
  <2>2. with = {} /\ chain = {}
    BY <1>8, <1>12, <2>1
  <2>3. p.queue = c.queue /\ p.revision = c.revision
    BY <1>11, <1>16, <2>2
  <2>4. Follows(p, log)
    BY <2>3 DEF Follows
  <2> QED  BY <1>2, <1>16, <2>3, <2>4
<1>17. CASE c.revision # feed.revision
  <2>1. later # {} /\ log[Min(later)].base = c.revision
    BY <1>7, <1>17 DEF Recoverable
  <2>2. PICK f : f = Min(later)
    OBVIOUS
  <2>3. f \in later /\ f \in 1 .. n /\ n # 0 /\ \A m \in later : f <= m
    <3>1. later \in SUBSET Nat
      BY <1>2, <1>14
    <3>2. f \in later /\ \A m \in later : f <= m
      BY <2>1, <2>2, <3>1, Least
    <3> QED  BY <1>2, <1>14, <3>2
  <2>4. n \in later /\ n \in 1 .. n
    BY <1>2, <1>5, <1>9, <2>3
  <2>5. p.queue = feed.queue
    <3>1. CASE with = {}
      <4>1. Silent(log, f, n)
        <5> SUFFICES ASSUME NEW k \in f .. n PROVE "queue" \notin log[k].fields
          BY DEF Silent
        <5>1. k \in 1 .. n /\ f <= k
          BY <1>2, <2>3
        <5> QED  BY <1>9, <1>12, <2>3, <3>1, <5>1
      <4>2. c.queue = log[n].queue
        BY <1>1, <1>2, <2>1, <2>2, <2>3, <2>4, <4>1 DEF Follows
      <4> QED  BY <1>5, <1>11, <2>3, <3>1, <4>2
    <3>2. CASE with # {}
      <4>1. PICK m : m = Max(with)
        OBVIOUS
      <4>2. m \in with /\ m \in 1 .. n /\ m \in later /\ \A k \in with : k <= m
        BY <1>12, <1>13, <1>14, <3>2, <4>1
      <4>3. log[m].queue = feed.queue
        BY <1>15, <4>2
      <4> QED  BY <1>11, <3>2, <4>1, <4>3
    <3> QED  BY <3>1, <3>2
  <2>6. CASE last = feed.revision
    <3>1. Follows(p, log)
      <4> SUFFICES ASSUME NEW i \in 1 .. Len(log), log[i].base = p.revision PROVE FALSE
        BY DEF Follows
      <4> QED  BY <1>1, <1>2, <1>3, <1>6, <1>11, <2>6
    <3> QED  BY <1>2, <1>11, <2>5, <2>6, <3>1
  <2>7. CASE chain = {} /\ last = c.revision
    <3>1. with = {}
      BY <1>10, <2>7
    <3>2. p.queue = c.queue /\ p.revision = c.revision
      BY <1>11, <2>7, <3>1
    <3>3. Follows(p, log)
      BY <3>2 DEF Follows
    <3>4. c.revision <= feed.revision
      BY <1>2, <1>3, <1>6, <1>8, <2>3
    <3> QED  BY <2>5, <3>2, <3>3, <3>4
  <2>8. CASE chain # {} /\ last = log[Max(chain)].revision
    <3>1. PICK m : m = Max(chain)
      OBVIOUS
    <3>2. m \in chain /\ m \in 1 .. n /\ m \in later /\ \A k \in chain : k <= m
      BY <1>8, <1>13, <1>14, <2>8, <3>1
    <3>3. \A k \in with : k <= m
      BY <1>10, <3>2
    <3>4. p.revision = log[m].revision
      BY <1>11, <2>8, <3>1
    <3>5. Follows(p, log)
      <4> SUFFICES ASSUME NEW i \in 1 .. Len(log), NEW j \in 1 .. Len(log), i <= j,
                          log[i].base = p.revision
                   PROVE  p.queue = log[j].queue
        BY DEF Follows
      <4>1. i > m
        <5> SUFFICES ASSUME i <= m PROVE FALSE
          BY <1>1, <1>2, <3>2
        <5>1. i = m \/ i < m
          BY <1>1, <1>2, <3>2
        <5>2. log[i].base < log[i].revision /\ log[i].revision <= log[m].revision
          BY <1>1, <1>2, <1>3, <1>4, <3>2, <5>1
        <5> QED  BY <1>1, <1>3, <3>2, <3>4, <5>2
      <4>2. j \in 1 .. n /\ m <= j
        BY <1>1, <1>2, <3>2, <4>1
      <4>3. j \in later /\ \A k \in with : k <= j
        BY <1>2, <1>9, <1>14, <3>2, <3>3, <4>2
      <4> QED  BY <1>15, <2>5, <4>2, <4>3
    <3> QED  BY <1>6, <2>5, <3>2, <3>4, <3>5
  <2> QED  BY <2>6, <2>7, <2>8
<1> QED  BY <1>16, <1>17

\* Nobody speaks of a machine outside this view.
Domestic ==
    /\ \A n \in Around : n.kind # "elsewhere"
    /\ \A s \in Sockets :
        /\ event[s] # None => event[s].kind # "elsewhere"
        /\ \A e \in Items(inbox[s].events) : e.kind # "elsewhere"

\* Who refreshes the feed holds its lock, and the feed is behind meanwhile.
Owned ==
    /\ owner # None => feed = None \/ feed.revision < revision
    /\ \A s \in Sockets :
        (task[s] # "http" /\ pc[s] \in {"load", "snapshot", "build", "check"}) => owner = s

\* The feed has the queue that is cached for its revision.
FeedCached ==
    feed # None => /\ cache # None /\ feed.revision <= cache.revision
                   /\ feed.revision = cache.revision => feed.queue = cache.queue

\* The client has had its answer and is to be brought up to date from there.
Watching(s) == pc[s] = "off" \/ (task[s] # "http" /\ pc[s] # "fetch")

\* It has the queue of its revision, however it came to it, and when nothing is
\* left to report, that of the feed.
ClientSound(s) ==
    Watching(s) =>
        /\ cache # None /\ client[s].revision <= cache.revision
        /\ client[s].revision = cache.revision => client[s].queue = cache.queue
        /\ (feed # None /\ client[s].revision = feed.revision) => client[s].queue = feed.queue
        /\ Follows(client[s], log)
        /\ (pc[s] = "idle" /\ inbox[s] = Nothing) => client[s].queue = feed.queue

ScreensSound ==
    /\ Domestic /\ Owned /\ FeedCached
    /\ ChainTo(log, feed)
    /\ \A s \in Sockets : ClientSound(s)

\* What a step of the system announces is a state, or of a kind that was around.
Announces == UNCHANGED inbox \/ \E k \in AllKinds : k # "elsewhere" /\ Announce(k)

\* If no commit is of that kind, the system never speaks of another machine.
LEMMA DomesticSystem ==
    ASSUME IInv, Domestic, "elsewhere" \notin Kinds, System
    PROVE  Announces /\ \A n \in Around' : n.kind # "elsewhere"
<1>t. SystemTyped
  BY DEF IInv
<1>a. \A n \in Around : n.kind # "elsewhere"
  BY DEF Domestic
<1>k. "state" \in AllKinds /\ "state" # "elsewhere" /\ \A n \in Notes : n.kind \in AllKinds /\ n.id \in Nat
  BY DEF AllKinds, Notes
<1>s. Announce("state") => Announces
  BY <1>k DEF Announces
<1>n. ASSUME NEW n \in Notes, n \in Around, Announce(n.kind) PROVE Announces
  <2>1. PICK k : k = n.kind
    OBVIOUS
  <2>2. k \in AllKinds /\ k # "elsewhere" /\ Announce(k)
    BY <1>a, <1>k, <1>n, <2>1
  <2> QED  BY <2>2 DEF Announces
<1>1. ASSUME NEW kind \in Kinds, NEW changed \in SUBSET DOMAIN db, NEW here \in BOOLEAN,
             Commit(kind, changed, here)
      PROVE  Announces /\ \A n \in Around' : n.kind # "elsewhere"
  <2>1. PICK n : n = [kind |-> kind, id |-> commits + 1]
    OBVIOUS
  <2>2. /\ pg' = (IF listener = "off" THEN pg ELSE Append(pg, n))
        /\ unpublished' = (IF here THEN unpublished \union {n} ELSE unpublished)
        /\ UNCHANGED <<batch, inbox>>
    BY <1>1, <2>1 DEF Commit, listenerVars, eventVars
  <2>3. n \in Notes /\ n.kind = kind
    BY <1>1, <1>t, <2>1, KindsAssumption DEF Notes, SystemTyped
  <2>4. OnTheWay' \subseteq OnTheWay \cup {n}
    BY <1>t, <2>2, <2>3, AppendItems DEF OnTheWay, SystemTyped
  <2>5. InHand' = InHand /\ Claimed' = Claimed
    BY <2>2 DEF InHand, Claimed
  <2>6. Around' \subseteq Around \cup {n}
    BY <2>2, <2>4, <2>5 DEF Around
  <2> QED  BY <1>1, <1>a, <2>2, <2>3, <2>6 DEF Announces
<1>2. ASSUME NEW n \in unpublished, PublishHere(n)
      PROVE  Announces /\ \A m \in Around' : m.kind # "elsewhere"
  <2>1. n \in Notes /\ n \in Around
    BY <1>t DEF SystemTyped, Around
  <2>2. /\ unpublished' \subseteq unpublished /\ UNCHANGED <<pg, batch>>
        /\ Announce("state") \/ Announce(n.kind) \/ UNCHANGED inbox
    BY <1>2 DEF PublishHere, AnnounceOnce, listenerVars
  <2>3. Around' \subseteq Around
    BY <2>2 DEF Around, OnTheWay, InHand, Claimed
  <2>4. UNCHANGED inbox => Announces
    BY DEF Announces
  <2> QED  BY <1>a, <1>n, <1>s, <2>1, <2>2, <2>3, <2>4
<1>3. CASE (\E n \in unpublished : DropHere(n)) \/ (\E kept \in BOOLEAN : LoseConnection(kept)) \/ Listen
  <2>1. /\ unpublished' \subseteq unpublished /\ UNCHANGED inbox
        /\ pg' = pg \/ pg' = <<>>
        /\ batch' = batch \/ batch' = None
    BY <1>3 DEF DropHere, LoseConnection, Listen, dbVars, listenerVars, eventVars
  <2>2. Around' \subseteq Around
    BY <2>1, NoItems DEF Around, OnTheWay, InHand, Claimed
  <2> QED  BY <1>a, <2>1, <2>2 DEF Announces
<1>4. CASE Receive
  <2>1. PICK n, b : n = Head(pg) /\ b = (IF batch = None THEN NoPending ELSE batch)
    OBVIOUS
  <2>2. pg # <<>> /\ batch' = Added(b, n) /\ pg' = Tail(pg) /\ UNCHANGED <<unpublished, inbox>>
    BY <1>4, <2>1 DEF Receive, eventVars
  <2>3. n \in Notes /\ OnTheWay = {n} \cup OnTheWay'
    BY <1>t, <2>1, <2>2, TailItems DEF OnTheWay, SystemTyped
  <2>4. NoPending \in Pendings /\ NoPending.moves = <<>> /\ NoPending.trials = <<>> /\ NoPending.fresh = {}
    BY NoItems DEF NoPending, Pendings
  <2>5. /\ b \in Pendings /\ Items(b.moves) \subseteq InHand /\ Items(b.trials) \subseteq InHand
        /\ b.fresh \subseteq Claimed
    <3>1. CASE batch = None
      BY <2>1, <2>4, <3>1, NoItems
    <3>2. CASE batch # None
      BY <1>t, <2>1, <3>2 DEF SystemTyped, InHand, Claimed
    <3> QED  BY <3>1, <3>2
  <2>6. /\ batch' \in Pendings /\ batch'.fresh = b.fresh
        /\ Items(batch'.moves) \subseteq Items(b.moves) \cup {n}
        /\ Items(batch'.trials) \subseteq Items(b.trials) \cup {n}
    <3>1. PICK r : r = Added(b, n)
      OBVIOUS
    <3>2. /\ r \in Pendings /\ r.fresh = b.fresh
          /\ Items(r.moves) = (IF n.kind = "sequence" THEN Items(b.moves) \cup {n} ELSE Items(b.moves))
          /\ Items(r.trials) = (IF n.kind \in Scoped THEN Items(b.trials) \cup {n} ELSE Items(b.trials))
      BY <2>3, <2>5, <3>1, AddedEffect, ZenonT(60)
    <3> QED  BY <2>2, <3>1, <3>2
  <2>7. InHand' \subseteq InHand \cup {n} /\ Claimed' \subseteq Claimed
    BY <2>5, <2>6 DEF InHand, Claimed
  <2>8. Around' \subseteq Around
    BY <2>2, <2>3, <2>7 DEF Around
  <2> QED  BY <1>a, <2>2, <2>8 DEF Announces
<1>5. CASE PublishMove
  <2>1. PICK n, b : n = Head(batch.moves) /\ b = batch
    OBVIOUS
  <2>2. /\ b # None /\ b.moves # <<>> /\ n = Head(b.moves) /\ batch # None
        /\ batch' = [b EXCEPT !.stage = "moves", !.moves = Tail(@)]
        /\ Announce(n.kind) \/ UNCHANGED inbox
        /\ UNCHANGED <<pg, unpublished>>
    BY <1>5, <2>1 DEF PublishMove, AnnounceOnce, dbVars
  <2>3. b \in Pendings
    BY <1>t, <2>1, <2>2 DEF SystemTyped
  <2>4. /\ batch' \in Pendings /\ batch' # None /\ n \in Notes
        /\ Items(b.moves) = {n} \cup Items(batch'.moves)
        /\ batch'.trials = b.trials /\ batch'.fresh = b.fresh
    BY <2>2, <2>3, FirstMove, PendingIsNotNone
  <2>5. InHand = Items(b.moves) \cup Items(b.trials) /\ Claimed = b.fresh
    BY <2>1, <2>2 DEF InHand, Claimed
  <2>6. InHand' = Items(batch'.moves) \cup Items(batch'.trials) /\ Claimed' = batch'.fresh
        /\ OnTheWay' = OnTheWay
    BY <2>2, <2>4 DEF InHand, Claimed, OnTheWay
  <2>7. Around' \subseteq Around /\ n \in Around
    BY <2>2, <2>4, <2>5, <2>6 DEF Around
  <2>8. UNCHANGED inbox => Announces
    BY DEF Announces
  <2> QED  BY <1>a, <1>n, <2>2, <2>4, <2>7, <2>8
<1>6. CASE ClaimTrial
  <2>1. PICK n, b, f : n = Head(batch.trials) /\ b = batch
                       /\ f = (IF Known(n) THEN batch.fresh ELSE batch.fresh \cup {n})
    OBVIOUS
  <2>2. /\ b # None /\ b.trials # <<>> /\ n = Head(b.trials)
        /\ batch' = [b EXCEPT !.stage = "claim", !.trials = Tail(@), !.fresh = f]
        /\ UNCHANGED <<pg, unpublished, inbox>>
    BY <1>6, <2>1 DEF ClaimTrial, dbVars
  <2>3. b \in Pendings
    BY <1>t, <2>1, <2>2 DEF SystemTyped
  <2>4. n \in Notes /\ b.fresh \subseteq Notes
    BY <2>2, <2>3, TailItems DEF Pendings
  <2>5. f \in SUBSET Notes /\ f \subseteq b.fresh \cup {n}
    BY <2>1, <2>4
  <2>6. /\ batch' \in Pendings /\ batch' # None
        /\ Items(b.trials) = {n} \cup Items(batch'.trials)
        /\ batch'.moves = b.moves /\ batch'.fresh = f
    <3>1. PICK r : r = batch'
      OBVIOUS
    <3>2. r = [b EXCEPT !.stage = "claim", !.trials = Tail(@), !.fresh = f] /\ b.trials # <<>>
      BY <2>2, <3>1
    <3>3. /\ r \in Pendings /\ Items(b.trials) = {Head(b.trials)} \cup Items(r.trials)
          /\ r.moves = b.moves /\ r.fresh = f
      BY <2>3, <2>5, <3>2, FirstTrial, ZenonT(60)
    <3>4. r # None
      BY <3>3, PendingIsNotNone
    <3> QED  BY <2>2, <3>1, <3>3, <3>4
  <2>7. InHand = Items(b.moves) \cup Items(b.trials) /\ Claimed = b.fresh
    BY <2>1, <2>2 DEF InHand, Claimed
  <2>8. InHand' = Items(batch'.moves) \cup Items(batch'.trials) /\ Claimed' = batch'.fresh
        /\ OnTheWay' = OnTheWay
    BY <2>2, <2>6 DEF InHand, Claimed, OnTheWay
  <2>9. Around' \subseteq Around
    BY <2>2, <2>5, <2>6, <2>7, <2>8 DEF Around
  <2> QED  BY <1>a, <2>2, <2>9 DEF Announces
<1>7. CASE PublishBatch
  <2>1. /\ batch # None /\ batch' = None /\ UNCHANGED <<pg, unpublished>>
        /\ \/ Announce("state") \/ UNCHANGED inbox
           \/ \E n \in batch.fresh : Announce(n.kind)
    BY <1>7 DEF PublishBatch, dbVars
  <2>2. Around' \subseteq Around
    BY <2>1 DEF Around, OnTheWay, InHand, Claimed
  <2>3. \A n \in batch.fresh : n \in Around /\ n \in Notes
    BY <1>t, <2>1 DEF Around, Claimed, SystemTyped, Pendings
  <2>4. UNCHANGED inbox => Announces
    BY DEF Announces
  <2> QED  BY <1>a, <1>n, <1>s, <2>1, <2>2, <2>3, <2>4
<1>8. CASE InvalidateAfterGap
  <2>1. Announce("state") /\ UNCHANGED <<pg, unpublished, batch>>
    BY <1>8 DEF InvalidateAfterGap, dbVars
  <2>2. Around' = Around
    BY <2>1 DEF Around, OnTheWay, InHand, Claimed
  <2> QED  BY <1>a, <1>s, <2>1, <2>2
<1> QED  BY <1>1, <1>2, <1>3, <1>4, <1>5, <1>6, <1>7, <1>8, Zenon DEF System, Listener

\* A step of the system leaves the screens as they are; who waits is woken.
LEMMA ScreensSystem ==
    ASSUME IInv, ScreensSound, "elsewhere" \notin Kinds, System
    PROVE  ScreensSound'
<1>1. Announces /\ \A n \in Around' : n.kind # "elsewhere"
  BY DomesticSystem DEF ScreensSound
<1>2. UNCHANGED <<cache, feed, log, owner, pc, task, event, client>>
  BY SystemFrame
<1>3. revision \in Nat /\ SystemTyped /\ (feed # None => feed.revision \in Nat)
  BY DEF IInv, SystemTyped, ReaderTyped, Views
<1>4. revision' = revision \/ revision' = revision + 1
  BY SystemStep DEF Quiet, Loud, Announce
<1>5. ASSUME NEW s \in Sockets
      PROVE  /\ \A e \in Items(inbox'[s].events) : e.kind # "elsewhere"
             /\ (pc[s] = "idle" /\ inbox'[s] = Nothing) => inbox[s] = Nothing
  <2>1. \A e \in Items(inbox[s].events) : e.kind # "elsewhere"
    BY DEF ScreensSound, Domestic
  <2>2. CASE UNCHANGED inbox
    BY <2>1, <2>2
  <2>3. ASSUME NEW k \in AllKinds, k # "elsewhere", Announce(k)
        PROVE  /\ \A e \in Items(inbox'[s].events) : e.kind # "elsewhere"
               /\ (pc[s] = "idle" /\ inbox'[s] = Nothing) => inbox[s] = Nothing
    <3>1. /\ Subscribed(s) => inbox'[s] # Nothing
          /\ \A e \in Items(inbox'[s].events) : e \in Items(inbox[s].events) \/ e.kind = k
      BY <1>3, <2>3, AnnounceEffect
    <3>2. pc[s] = "idle" => Subscribed(s)
      BY RowFacts DEF AwakeSound, Subscribed
    <3> QED  BY <2>1, <2>3, <3>1, <3>2
  <2> QED  BY <1>1, <2>2, <2>3 DEF Announces
<1>6. Domestic'
  BY <1>1, <1>2, <1>5 DEF Domestic, ScreensSound
<1>7. Owned' /\ FeedCached' /\ ChainTo(log, feed)'
  <2>1. Owned /\ FeedCached /\ ChainTo(log, feed)
    BY DEF ScreensSound
  <2>2. Owned'
    BY <1>2, <1>3, <1>4, <2>1 DEF Owned
  <2>3. FeedCached'
    BY <1>2, <2>1 DEF FeedCached
  <2>4. ChainTo(log, feed)'
    BY <1>2, <2>1 DEF ChainTo, Silent
  <2> QED  BY <2>2, <2>3, <2>4
<1>8. ASSUME NEW s \in Sockets PROVE ClientSound(s)'
  <2>1. ClientSound(s) /\ (Follows(client[s], log) <=> Follows(client[s], log)')
    BY <1>2 DEF ScreensSound, Follows, Silent
  <2> QED  BY <1>2, <1>5, <2>1 DEF ClientSound, Watching
<1> QED  BY <1>6, <1>7, <1>8 DEF ScreensSound

\* The steps of a reader speak of no other machine either.
LEMMA DomesticReader ==
    ASSUME IInv, Domestic, NEW s \in Sockets, Reader(s)
    PROVE  Domestic' /\ ~ Advance(s)
<1>t. /\ event \in [Sockets -> Events \cup {None}] /\ inbox \in [Sockets -> Receivers]
  BY DEF IInv, SystemTyped, ReaderTyped
<1>d. \A t \in Sockets : /\ event[t] # None => event[t].kind # "elsewhere"
                         /\ \A e \in Items(inbox[t].events) : e.kind # "elsewhere"
  BY DEF Domestic
<1>1. Around' = Around
  BY ReaderFrame DEF Around, OnTheWay, InHand, Claimed
<1>2. ~ Advance(s)
  BY <1>d DEF Advance, Unchanged, OneColourStep
<1>3. PICK e, q : /\ event' = [event EXCEPT ![s] = e] /\ inbox' = [inbox EXCEPT ![s] = q]
                  /\ \/ e \in {None, event[s]} \/ e \in Items(inbox[s].events)
                  /\ Items(q.events) \subseteq Items(inbox[s].events)
  <2>0. /\ event = [event EXCEPT ![s] = event[s]] /\ inbox = [inbox EXCEPT ![s] = inbox[s]]
        /\ Items(Nothing.events) = {}
    BY RowFacts
  <2>1. CASE UNCHANGED <<event, inbox>>
    BY <2>0, <2>1
  <2>2. CASE event' = [event EXCEPT ![s] = None] /\ UNCHANGED inbox
    BY <2>0, <2>2
  <2>3. CASE inbox' = [inbox EXCEPT ![s] = Nothing] /\ (UNCHANGED event \/ event' = [event EXCEPT ![s] = None])
    BY <2>0, <2>3
  <2>4. CASE Wake(s)
    <3>1. inbox[s] \in Receivers /\ inbox[s] # Nothing
      BY <1>t, <2>4 DEF Wake
    <3>2. CASE inbox[s].lagged
      <4>1. PICK q : q = [inbox[s] EXCEPT !.lagged = FALSE]
        OBVIOUS
      <4>2. q.events = inbox[s].events
        BY <3>1, <4>1 DEF Receivers
      <4>3. inbox' = [inbox EXCEPT ![s] = q] /\ event' = [event EXCEPT ![s] = None]
        BY <2>4, <3>2, <4>1 DEF Wake
      <4> QED  BY <4>2, <4>3
    <3>3. CASE ~ inbox[s].lagged
      <4>1. PICK q : q = [inbox[s] EXCEPT !.events = Tail(@)]
        OBVIOUS
      <4>2. PICK e : e = IF Head(inbox[s].events).kind \in Scoped THEN Head(inbox[s].events) ELSE None
        OBVIOUS
      <4>3. inbox' = [inbox EXCEPT ![s] = q] /\ event' = [event EXCEPT ![s] = e]
        BY <2>4, <3>3, <4>1, <4>2 DEF Wake
      <4>4. inbox[s].events \in Seq(Events) /\ inbox[s].events # <<>>
        <5>1. inbox[s].events \in Seq(Events) /\ inbox[s].lagged = FALSE
          BY <3>1, <3>3 DEF Receivers
        <5>2. inbox[s].events = <<>> => inbox[s] = Nothing
          BY <3>1, <5>1 DEF Receivers, Nothing
        <5> QED  BY <3>1, <5>1, <5>2
      <4>5. Items(inbox[s].events) = {Head(inbox[s].events)} \cup Items(Tail(inbox[s].events))
        BY <4>4, TailItems
      <4>6. q.events = Tail(inbox[s].events)
        BY <3>1, <4>1 DEF Receivers
      <4>7. e \in {None, Head(inbox[s].events)}
        BY <4>2
      <4> QED  BY <4>3, <4>5, <4>6, <4>7
    <3> QED  BY <3>2, <3>3
  <2>5. CASE Fetch(s) \/ Heartbeat(s)
    BY <2>2, <2>5 DEF Fetch, Heartbeat, eventVars
  <2>6. CASE Connect(s) \/ Hangup(s) \/ Resync(s)
    BY <2>3, <2>6 DEF Connect, Hangup, Resync
  <2>7. CASE Refresh(s)
    BY <2>1, <2>2, <2>7 DEF Refresh, eventVars
  <2>8. CASE ReadHistory(s) \/ ReadSnapshot(s) \/ Store(s) \/ Deliver(s)
    BY <2>1, <2>8 DEF ReadHistory, ReadSnapshot, Store, Deliver, eventVars
  <2>9. CASE Answer(s) \/ \E fits \in BOOLEAN : Publish(s, fits)
    BY <2>2, <2>9 DEF Answer, Publish, Forget, eventVars
  <2>10. CASE Again(s)
    BY <2>1, <2>3, <2>10 DEF Again, Forget, eventVars
  <2> QED  BY <1>2, <2>4, <2>5, <2>6, <2>7, <2>8, <2>9, <2>10, Zenon DEF Reader, Socket
<1>4. ASSUME NEW t \in Sockets
      PROVE  /\ event'[t] # None => event'[t].kind # "elsewhere"
             /\ \A x \in Items(inbox'[t].events) : x.kind # "elsewhere"
  <2>1. CASE t = s
    <3>1. event'[t] = e /\ inbox'[t] = q
      BY <1>t, <1>3, <2>1
    <3> QED  BY <1>d, <1>3, <2>1, <3>1
  <2>2. CASE t # s
    <3>1. event'[t] = event[t] /\ inbox'[t] = inbox[t]
      BY <1>t, <1>3, <2>2
    <3> QED  BY <1>d, <3>1
  <2> QED  BY <2>1, <2>2
<1> QED  BY <1>1, <1>2, <1>4 DEF Domestic

\* No delta of the history starts at or after the view it leads to.
LEMMA Below ==
    ASSUME NEW q \in Seq(Deltas), NEW v \in Views, ChainTo(q, v)
    PROVE  \A i \in 1 .. Len(q) : q[i].base < v.revision
<1> SUFFICES ASSUME NEW i \in 1 .. Len(q) PROVE q[i].base < v.revision
  OBVIOUS
<1>1. PICK n : n = Len(q)
  OBVIOUS
<1>2. n \in Nat /\ n # 0 /\ q # <<>> /\ n \in 1 .. n /\ i \in 1 .. n
  BY <1>1
<1>3. \A j \in 1 .. n : q[j].base \in Nat /\ q[j].revision \in Nat /\ q[j].base < q[j].revision
  <2> SUFFICES ASSUME NEW j \in 1 .. n
               PROVE  q[j].base \in Nat /\ q[j].revision \in Nat /\ q[j].base < q[j].revision
    OBVIOUS
  <2>1. q[j] \in Deltas
    BY <1>1, ElementOfSeq
  <2> QED  BY <1>1, <2>1 DEF Deltas, ChainTo
<1>4. q[n].revision = v.revision
  BY <1>1, <1>2 DEF ChainTo
<1>5. i < n => q[i].revision <= q[n].base
  BY <1>1, <1>2 DEF ChainTo
<1> QED  BY <1>2, <1>3, <1>4, <1>5

\* The history after a prune is the appended one, or that without its oldest delta.
LEMMA PrunedSuffix ==
    ASSUME NEW a \in Seq(Deltas), a # <<>>
    PROVE  /\ \A v : ChainTo(a, v) => ChainTo(Pruned(a), v)
           /\ \A c : Follows(c, a) => Follows(c, Pruned(a))
<1>1. CASE Pruned(a) = a
  BY <1>1
<1>2. CASE Pruned(a) = Tail(a)
  <2>1. PICK r : r = Tail(a)
    OBVIOUS
  <2>2. r \in Seq(Deltas) /\ Len(r) = Len(a) - 1 /\ \A i \in 1 .. Len(r) : r[i] = a[i + 1]
    BY <2>1
  <2>3. \A v : ChainTo(a, v) => ChainTo(r, v)
    BY <2>2, Suffix
  <2>4. \A c : Follows(c, a) => Follows(c, r)
    BY <2>2, Suffix
  <2> QED  BY <1>2, <2>1, <2>3, <2>4
<1> QED  BY <1>1, <1>2 DEF Pruned

\* The other sockets' rows are left alone by a step of one.
Alone(s) ==
    /\ \A t \in Sockets \ {s} : pc'[t] = pc[t] /\ task'[t] = task[t] /\ inbox'[t] = inbox[t]
                                /\ client'[t] = client[t]
    /\ UNCHANGED revision

\* Every step of a reader is its own, and keeps who owns the feed.
LEMMA OwnedReader ==
    ASSUME IInv, HistoryTyped, Owned, NEW s \in Sockets, Reader(s), ~ Advance(s)
    PROVE  Owned' /\ Alone(s)
<1>t. /\ pc \in [Sockets -> Phases] /\ task \in [Sockets -> Tasks] /\ inbox \in [Sockets -> Receivers]
      /\ client \in [Sockets -> Views]
  BY DEF IInv, SystemTyped, ReaderTyped, HistoryTyped, Phases, Tasks
<1>n. /\ revision \in Nat /\ feed \in Views \cup {None} /\ s # None
      /\ feed # None => feed.revision \in Nat /\ feed.revision <= revision
  BY NoneAssumption DEF IInv, SystemTyped, ReaderTyped, RevisionsSound, Views
<1>r. UNCHANGED revision
  BY ReaderFrame
<1>1. CASE Fetch(s) \/ Connect(s) \/ Wake(s) \/ Heartbeat(s) \/ Hangup(s) \/ Resync(s)
  <2>1. /\ UNCHANGED <<owner, feed, client>>
        /\ \A t \in Sockets \ {s} : pc'[t] = pc[t] /\ task'[t] = task[t] /\ inbox'[t] = inbox[t]
        /\ task'[s] = "http" \/ pc'[s] \notin {"load", "snapshot", "build", "check"}
    BY <1>t, <1>1 DEF Fetch, Connect, Wake, Heartbeat, Hangup, Resync, feedVars, eventVars
  <2> QED  BY <1>r, <2>1 DEF Owned, Alone
<1>2. CASE ReadHistory(s) \/ ReadSnapshot(s) \/ Store(s)
  <2>1. /\ UNCHANGED <<owner, feed, client, task, inbox>>
        /\ \A t \in Sockets \ {s} : pc'[t] = pc[t]
        /\ pc[s] \in {"load", "snapshot", "build", "check"}
    BY <1>t, <1>2 DEF ReadHistory, ReadSnapshot, Store, feedVars, eventVars
  <2> QED  BY <1>r, <2>1 DEF Owned, Alone
<1>3. CASE Answer(s) \/ Deliver(s)
  <2>1. /\ UNCHANGED <<owner, feed, task, inbox>>
        /\ \A t \in Sockets \ {s} : pc'[t] = pc[t] /\ client'[t] = client[t]
        /\ pc'[s] \in {"off", "idle"}
    BY <1>t, <1>3 DEF Answer, Deliver, feedVars, eventVars
  <2> QED  BY <1>r, <2>1 DEF Owned, Alone
<1>4. CASE Refresh(s)
  <2>1. /\ owner = None /\ UNCHANGED <<feed, client, task, inbox>>
        /\ \A t \in Sockets \ {s} : pc'[t] = pc[t]
        /\ \/ pc'[s] = "deliver" /\ owner' = owner
           \/ owner' = s /\ ~ Current
    BY <1>t, <1>4 DEF Refresh, eventVars
  <2>2. \A t \in Sockets \ {s} : task[t] = "http" \/ pc[t] \notin {"load", "snapshot", "build", "check"}
    BY <2>1, NoneAssumption DEF Owned
  <2>3. ~ Current => feed = None \/ feed.revision < revision
    BY <1>n DEF Current
  <2> QED  BY <1>r, <2>1, <2>2, <2>3 DEF Owned, Alone
<1>5. ASSUME NEW fits \in BOOLEAN, Publish(s, fits) PROVE Owned' /\ Alone(s)
  <2>1. /\ owner' = None /\ UNCHANGED <<client, task, inbox>>
        /\ \A t \in Sockets \ {s} : pc'[t] = pc[t]
        /\ pc[s] = "check" /\ task[s] # "http" /\ pc'[s] = "deliver"
    BY <1>t, <1>5 DEF Publish, eventVars
  <2>2. \A t \in Sockets \ {s} : task[t] = "http" \/ pc[t] \notin {"load", "snapshot", "build", "check"}
    BY <2>1 DEF Owned
  <2> QED  BY <1>r, <2>1, <2>2 DEF Owned, Alone
<1>6. CASE Again(s)
  <2>1. /\ UNCHANGED <<feed, client, task>> /\ pc[s] = "check"
        /\ \A t \in Sockets \ {s} : pc'[t] = pc[t] /\ inbox'[t] = inbox[t]
        /\ \/ pc'[s] = "load" /\ owner' = owner
           \/ pc'[s] \in {"fetch", "off"} /\ owner' = IF owner = s THEN None ELSE owner
    BY <1>t, <1>6 DEF Again
  <2> QED  BY <1>r, <2>1 DEF Owned, Alone
<1> QED  BY <1>1, <1>2, <1>3, <1>4, <1>5, <1>6, Zenon DEF Reader, Socket

\* A step of a reader that shows nobody anything new, except that it may cache
\* the snapshot of the revision.
LEMMA ScreensKept ==
    ASSUME IInv, HistoryTyped, ScreensSound, NEW s \in Sockets, Alone(s),
           UNCHANGED <<feed, log, client>>, pc'[s] # "idle", Watching(s)' => Watching(s),
           \/ cache' = cache
           \/ /\ cache' # None /\ cache'.revision = revision
              /\ cache # None => cache.revision < revision
    PROVE  FeedCached' /\ ChainTo(log, feed)' /\ \A t \in Sockets : ClientSound(t)'
<1>1. ChainTo(log, feed)'
  BY DEF ScreensSound, ChainTo, Silent
<1>t. /\ revision \in Nat /\ (cache # None => cache.revision \in Nat) /\ (feed # None => feed.revision \in Nat)
      /\ \A t \in Sockets : client[t].revision \in Nat
  BY DEF IInv, SystemTyped, ReaderTyped, HistoryTyped, Snapshots, Views
<1>2. FeedCached'
  BY <1>t DEF ScreensSound, FeedCached
<1>3. ASSUME NEW t \in Sockets PROVE ClientSound(t)'
  <2>1. ClientSound(t) /\ (Follows(client[t], log) => Follows(client[t], log)')
    BY DEF ScreensSound, Follows, Silent
  <2>2. Watching(t)' => Watching(t)
    BY DEF Alone, Watching
  <2>3. (pc'[t] = "idle" /\ inbox'[t] = Nothing) => (pc[t] = "idle" /\ inbox[t] = Nothing)
    BY DEF Alone
  <2> SUFFICES ASSUME Watching(t)' PROVE ClientSound(t)'
    BY DEF ClientSound
  <2>4. /\ cache # None /\ client[t].revision <= cache.revision
        /\ client[t].revision = cache.revision => client[t].queue = cache.queue
        /\ (feed # None /\ client[t].revision = feed.revision) => client[t].queue = feed.queue
        /\ Follows(client[t], log)'
        /\ (pc'[t] = "idle" /\ inbox'[t] = Nothing) => client[t].queue = feed.queue
    BY <2>1, <2>2, <2>3 DEF ClientSound
  <2>5. /\ cache' # None /\ client[t].revision <= cache'.revision
        /\ client[t].revision = cache'.revision => client[t].queue = cache'.queue
    BY <1>t, <2>4
  <2>6. client'[t] = client[t] /\ feed' = feed
    OBVIOUS
  <2> QED  BY <2>4, <2>5, <2>6 DEF ClientSound
<1> QED  BY <1>1, <1>2, <1>3

\* What is read and was not overtaken has the queue cached for the revision.
LEMMA ReadIsCached ==
    ASSUME IInv, NEW s \in Sockets, pc[s] = "check", ~ Overtaken(s)
    PROVE  /\ View(s) \in Views /\ View(s).revision = revision
           /\ cache # None /\ cache.revision = revision /\ View(s).queue = cache.queue
<1>1. /\ read[s] \in Readings /\ read[s].built = revision /\ read[s].revision = revision
      /\ cache # None /\ read[s].built <= cache.revision
      /\ read[s].built = cache.revision => read[s].queue = cache.queue
  BY RowFacts DEF SnapshotSound, Overtaken
<1>2. revision \in Nat /\ cache.revision \in Nat /\ cache.revision <= revision
  BY <1>1 DEF IInv, SystemTyped, ReaderTyped, RevisionsSound, Snapshots
<1> QED  BY <1>1, <1>2 DEF View, Views, Readings

\* An answer shows the queue cached for the revision.
LEMMA AnswerScreens ==
    ASSUME IInv, HistoryTyped, ScreensSound, NEW s \in Sockets, Alone(s), Answer(s)
    PROVE  FeedCached' /\ ChainTo(log, feed)' /\ \A t \in Sockets : ClientSound(t)'
<1>1. /\ pc[s] = "check" /\ ~ Overtaken(s) /\ UNCHANGED <<feed, log, cache>>
      /\ client' = [client EXCEPT ![s] = View(s)] /\ pc' = [pc EXCEPT ![s] = "off"]
  BY DEF Answer, feedVars
<1>2. client'[s] = View(s) /\ pc'[s] = "off"
  BY <1>1 DEF HistoryTyped, IInv, ReaderTyped
<1>3. /\ View(s).revision = revision /\ View(s).queue = cache.queue
      /\ cache # None /\ cache.revision = revision /\ revision \in Nat
  BY <1>1, ReadIsCached DEF IInv, SystemTyped
<1>4. ChainTo(log, feed)' /\ FeedCached'
  BY <1>1 DEF ScreensSound, ChainTo, Silent, FeedCached
<1>5. ClientSound(s)'
  <2>1. (feed # None /\ View(s).revision = feed.revision) => View(s).queue = feed.queue
    BY <1>3 DEF ScreensSound, FeedCached
  <2>2. Follows(View(s), log)
    <3> SUFFICES ASSUME NEW i \in 1 .. Len(log), log[i].base = View(s).revision PROVE FALSE
      BY DEF Follows
    <3>1. log # <<>> /\ log \in Seq(Deltas)
      BY DEF HistoryTyped
    <3>2. feed # None /\ feed \in Views
      BY <3>1 DEF ScreensSound, ChainTo, IInv, ReaderTyped
    <3>3. log[i].base < feed.revision /\ feed.revision <= revision
      BY <1>3, <3>1, <3>2, Below DEF ScreensSound, FeedCached
    <3>4. feed.revision \in Nat
      BY <3>2 DEF Views
    <3> QED  BY <1>3, <3>3, <3>4
  <2>3. Follows(View(s), log) => Follows(client[s], log)'
    BY <1>1, <1>2 DEF Follows, Silent
  <2> QED  BY <1>1, <1>2, <1>3, <2>1, <2>2, <2>3 DEF ClientSound
<1>6. ASSUME NEW t \in Sockets, t # s PROVE ClientSound(t)'
  <2>1. ClientSound(t) /\ (Follows(client[t], log) => Follows(client[t], log)')
    BY <1>1, <1>6 DEF ScreensSound, Follows, Silent, Alone
  <2> QED  BY <1>1, <1>6, <2>1 DEF ClientSound, Watching, Alone
<1> QED  BY <1>4, <1>5, <1>6

\* A new view of the feed continues the history for every client.
LEMMA PublishScreens ==
    ASSUME IInv, HistoryTyped, ScreensSound, NEW s \in Sockets, Alone(s),
           NEW fits \in BOOLEAN, Publish(s, fits)
    PROVE  FeedCached' /\ ChainTo(log, feed)' /\ \A t \in Sockets : ClientSound(t)'
<1>1. /\ pc[s] = "check" /\ task[s] # "http" /\ ~ Overtaken(s) /\ UNCHANGED <<client, cache, task>>
      /\ log' = Replaced(View(s), fits) /\ feed' = View(s) /\ pc' = [pc EXCEPT ![s] = "deliver"]
  BY DEF Publish
<1>2. pc'[s] = "deliver"
  BY <1>1 DEF IInv, ReaderTyped
<1>3. /\ View(s) \in Views /\ View(s).revision = revision /\ View(s).queue = cache.queue
      /\ cache # None /\ cache.revision = revision /\ revision \in Nat
  BY <1>1, ReadIsCached DEF IInv, SystemTyped
<1>4. FeedCached'
  BY <1>1, <1>3 DEF FeedCached
<1>5. feed = None \/ (feed \in Views /\ feed.revision < revision)
  BY <1>1, NoneAssumption DEF ScreensSound, Owned, IInv, ReaderTyped
<1>6. log \in Seq(Deltas) /\ ChainTo(log, feed)
  BY DEF HistoryTyped, ScreensSound
<1>7. PICK q : q = log'
  OBVIOUS
<1>8. ChainTo(q, View(s)) /\ \A c : (Follows(c, log) /\ (feed # None /\ c.revision = feed.revision => c.queue = feed.queue))
                                    => Follows(c, q)
  <2>1. CASE feed = None \/ ~ fits
    <3>1. q = <<>>
      BY <1>1, <1>6, <1>7, <2>1 DEF Replaced, ChainTo
    <3>2. 1 .. Len(q) = {}
      BY <3>1
    <3> QED  BY <3>1, <3>2 DEF ChainTo, Follows
  <2>2. CASE feed # None /\ fits
    <3>1. PICK a : a = Append(log, Delta(feed, View(s)))
      OBVIOUS
    <3>2. q = Pruned(a)
      BY <1>1, <1>7, <2>2, <3>1 DEF Replaced
    <3>3. feed \in Views /\ feed.revision < View(s).revision
      BY <1>3, <1>5, <2>2
    <3>4. /\ a \in Seq(Deltas) /\ ChainTo(a, View(s))
          /\ \A c : (Follows(c, log) /\ (c.revision = feed.revision => c.queue = feed.queue)) => Follows(c, a)
      BY <1>3, <1>6, <3>1, <3>3, Longer, ZenonT(60)
    <3>5. a # <<>>
      <4>1. Delta(feed, View(s)) \in Deltas
        BY <1>3, <1>6, <3>3, PrunedTyped DEF HistoryTyped
      <4> QED  BY <1>6, <3>1, <4>1, AppendItems
    <3> QED  BY <2>2, <3>2, <3>4, <3>5, PrunedSuffix
  <2> QED  BY <2>1, <2>2
<1>9. ChainTo(log, feed)'
  <2>1. ChainTo(q, View(s)) => ChainTo(log', feed')
    BY <1>1, <1>7
  <2> QED  BY <1>8, <2>1 DEF ChainTo, Silent
<1>10. ASSUME NEW t \in Sockets PROVE ClientSound(t)'
  <2> SUFFICES ASSUME Watching(t)' PROVE ClientSound(t)'
    BY DEF ClientSound
  <2>1. Watching(t)
    BY <1>1 DEF Watching, Alone
  <2>2. /\ client[t].revision <= cache.revision
        /\ client[t].revision = cache.revision => client[t].queue = cache.queue
        /\ (feed # None /\ client[t].revision = feed.revision) => client[t].queue = feed.queue
        /\ Follows(client[t], log)
    BY <2>1 DEF ScreensSound, ClientSound
  <2>3. Follows(client[t], q)
    BY <1>8, <2>2
  <2>4. Follows(client[t], log)'
    BY <1>1, <1>7, <2>3 DEF Follows, Silent
  <2>5. ~ (pc'[t] = "idle" /\ inbox'[t] = Nothing)
    <3> SUFFICES ASSUME pc'[t] = "idle", inbox'[t] = Nothing PROVE FALSE
      OBVIOUS
    <3>1. t # s /\ pc[t] = "idle" /\ inbox[t] = Nothing
      BY <1>2 DEF Alone
    <3>2. feed # None /\ feed.revision = revision
      BY <3>1, RowFacts DEF AwakeSound
    <3> QED  BY <1>3, <1>5, <3>2
  <2>6. feed'.revision = cache.revision /\ feed'.queue = cache.queue
    BY <1>1, <1>3
  <2> QED  BY <1>1, <1>3, <2>2, <2>4, <2>5, <2>6 DEF ClientSound
<1> QED  BY <1>4, <1>9, <1>10

\* A delivery shows the queue of the feed.
LEMMA DeliverScreens ==
    ASSUME IInv, HistoryTyped, ScreensSound, NEW s \in Sockets, Alone(s), Deliver(s)
    PROVE  FeedCached' /\ ChainTo(log, feed)' /\ \A t \in Sockets : ClientSound(t)'
<1>1. PICK c : c = client[s]
  OBVIOUS
<1>2. PICK chain : chain = {i \in Later(c.revision) : log[i].fields # {}}
  OBVIOUS
<1>3. PICK last : last = IF task[s] = "beat" THEN feed.revision
                         ELSE IF chain = {} THEN c.revision ELSE log[Max(chain)].revision
  OBVIOUS
<1>4. PICK p : p = Patched(c, chain, last)
  OBVIOUS
<1>5. /\ client' = [client EXCEPT ![s] = p] /\ UNCHANGED <<log, feed, cache, task>>
      /\ pc[s] = "deliver" /\ Recoverable(c.revision, feed.revision)
  BY <1>1, <1>2, <1>3, <1>4 DEF Deliver, feedVars
<1>6. feed \in Views /\ feed # None /\ c \in Views /\ log \in Seq(Deltas) /\ task[s] # "http"
  BY <1>1, <1>5, RowFacts DEF AwakeSound, HistoryTyped
<1>7. ClientSound(s) /\ Watching(s) /\ ChainTo(log, feed)
  BY <1>5, <1>6 DEF ScreensSound, Watching
<1>8. Follows(c, log) /\ (c.revision = feed.revision => c.queue = feed.queue)
  BY <1>1, <1>6, <1>7 DEF ClientSound
<1>a. \/ last = feed.revision
      \/ last = IF chain = {} THEN c.revision ELSE log[Max(chain)].revision
  BY <1>3
<1>9. p.queue = feed.queue /\ p.revision <= feed.revision /\ Follows(p, log)
  BY <1>2, <1>a, <1>4, <1>5, <1>6, <1>7, <1>8, Recovered, ZenonT(60)
<1>10. ChainTo(log, feed)' /\ FeedCached'
  BY <1>5 DEF ScreensSound, ChainTo, Silent, FeedCached
<1>11. ASSUME NEW t \in Sockets, t # s PROVE ClientSound(t)'
  <2>1. ClientSound(t) /\ (Follows(client[t], log) => Follows(client[t], log)')
    BY <1>5, <1>11 DEF ScreensSound, Follows, Silent, Alone
  <2> QED  BY <1>5, <1>11, <2>1 DEF ClientSound, Watching, Alone
<1>12. ClientSound(s)'
  <2>1. client'[s] = p
    BY <1>5 DEF HistoryTyped
  <2>2. /\ cache # None /\ feed.revision <= cache.revision
        /\ feed.revision = cache.revision => feed.queue = cache.queue
    BY <1>6 DEF ScreensSound, FeedCached
  <2>3. cache.revision \in Nat /\ feed.revision \in Nat /\ p.revision \in Nat
    <3>1. p \in Views
      BY <1>5, <2>1, HistoryStep DEF HistoryTyped, Reader, Socket
    <3> QED  BY <1>6, <2>2, <3>1 DEF IInv, ReaderTyped, Snapshots, Views
  <2>4. /\ p.revision <= cache.revision
        /\ p.revision = cache.revision => p.queue = cache.queue
    BY <1>9, <2>2, <2>3
  <2>5. Follows(client[s], log)'
    BY <1>5, <1>9, <2>1 DEF Follows, Silent
  <2> QED  BY <1>5, <1>9, <2>1, <2>2, <2>4, <2>5 DEF ClientSound
<1> QED  BY <1>10, <1>11, <1>12

\* Every step of a reader keeps the screens sound.
LEMMA ScreensReader ==
    ASSUME IInv, HistoryTyped, ScreensSound, NEW s \in Sockets, Reader(s)
    PROVE  ScreensSound'
<1>1. Domestic' /\ ~ Advance(s)
  BY DomesticReader DEF ScreensSound
<1>2. Owned' /\ Alone(s)
  BY <1>1, OwnedReader DEF ScreensSound
<1> DEFINE Rest == FeedCached' /\ ChainTo(log, feed)' /\ \A t \in Sockets : ClientSound(t)'
<1> SUFFICES Rest
  BY <1>1, <1>2 DEF ScreensSound
<1>t. pc \in [Sockets -> Phases] /\ task \in [Sockets -> Tasks] /\ AwakeSound(s)
  BY RowFacts DEF IInv, ReaderTyped, Phases, Tasks
<1>3. CASE Fetch(s) \/ Connect(s) \/ Wake(s) \/ Heartbeat(s) \/ Hangup(s) \/ Refresh(s)
           \/ ReadHistory(s) \/ ReadSnapshot(s) \/ Again(s) \/ Resync(s)
  <2>1. UNCHANGED <<feed, log, client, cache>>
    BY <1>3 DEF Fetch, Connect, Wake, Heartbeat, Hangup, Refresh, ReadHistory, ReadSnapshot, Again,
                Resync, feedVars
  <2>2. pc'[s] # "idle" /\ (Watching(s)' => Watching(s))
    <3>1. CASE Fetch(s) \/ Connect(s) \/ Wake(s) \/ Heartbeat(s) \/ Hangup(s) \/ Resync(s)
      BY <1>t, <3>1 DEF Fetch, Connect, Wake, Heartbeat, Hangup, Resync, Watching, AwakeSound
    <3>2. CASE Refresh(s) \/ ReadHistory(s) \/ ReadSnapshot(s)
      BY <1>t, <3>2 DEF Refresh, ReadHistory, ReadSnapshot, Watching, AwakeSound
    <3>3. CASE Again(s)
      BY <1>t, <3>3 DEF Again, Watching
    <3> QED  BY <1>3, <3>1, <3>2, <3>3
  <2> QED  BY <1>2, <2>1, <2>2, ScreensKept
<1>4. CASE Store(s)
  <2>1. UNCHANGED <<feed, log, client, task>> /\ pc[s] = "build" /\ pc'[s] \in {"check", "snapshot"}
    BY <1>t, <1>4 DEF Store
  <2>2. pc'[s] # "idle" /\ (Watching(s)' => Watching(s))
    BY <2>1 DEF Watching
  <2>3. \/ cache' = cache
        \/ /\ cache' # None /\ cache'.revision = revision
           /\ cache # None => cache.revision < revision
    <3>1. CASE read[s].built # revision
      BY <1>4, <3>1 DEF Store
    <3>2. CASE read[s].built = revision
      <4>1. cache' = [revision |-> revision, queue |-> read[s].queue]
        BY <1>4, <3>2 DEF Store
      <4>2. cache # None => cache.revision # revision
        BY <2>1, <3>2, RowFacts DEF SnapshotSound
      <4>3. cache' \in Snapshots
        BY <4>1, RowFacts DEF Snapshots
      <4>4. cache # None => cache.revision <= revision /\ cache.revision \in Nat /\ revision \in Nat
        BY DEF IInv, RevisionsSound, ReaderTyped, SystemTyped, Snapshots
      <4> QED  BY <4>1, <4>2, <4>3, <4>4, NoneAssumption
    <3> QED  BY <3>1, <3>2
  <2> QED  BY <1>2, <2>1, <2>2, <2>3, ScreensKept
<1>5. CASE Answer(s)
  BY <1>2, <1>5, AnswerScreens
<1>6. CASE Deliver(s)
  BY <1>2, <1>6, DeliverScreens
<1>7. CASE \E fits \in BOOLEAN : Publish(s, fits)
  BY <1>2, <1>7, PublishScreens
<1> HIDE DEF Rest
<1> QED  BY <1>1, <1>3, <1>4, <1>5, <1>6, <1>7, Zenon DEF Reader, Socket

\* A client that waits with nothing to report shows the queue of the feed.
LEMMA ScreensAlways ==
    ASSUME "elsewhere" \notin Kinds
    PROVE  Spec => [](IInv /\ ScreensSound)
<1>1. Init => ScreensSound
  <2> SUFFICES ASSUME Init PROVE ScreensSound
    OBVIOUS
  <2>1. Items(<<>>) = {} /\ Len(<<>>) = 0
    BY NoItems
  <2>2. Around = {}
    BY <2>1 DEF Init, Around, OnTheWay, InHand, Claimed
  <2>3. Domestic /\ Owned /\ FeedCached
    BY <2>1, <2>2 DEF Init, Domestic, Owned, FeedCached, Nothing
  <2>4. ChainTo(log, feed)
    BY <2>1 DEF Init, ChainTo
  <2>5. \A s \in Sockets : ClientSound(s)
    BY DEF Init, ClientSound, Watching
  <2> QED  BY <2>3, <2>4, <2>5 DEF ScreensSound
<1>2. IInv /\ HistoryTyped /\ ScreensSound /\ [Next]_vars => ScreensSound'
  <2> SUFFICES ASSUME IInv, HistoryTyped, ScreensSound, [Next]_vars PROVE ScreensSound'
    OBVIOUS
  <2>1. CASE System
    BY <2>1, ScreensSystem
  <2>2. CASE \E s \in Sockets : Reader(s)
    BY <2>2, ScreensReader
  <2>3. CASE UNCHANGED vars
    <3>1. UNCHANGED <<pg, batch, unpublished, revision, inbox, cache, feed, log, owner, pc, task, event, client>>
      BY <2>3 DEF vars, dbVars, listenerVars, eventVars, feedVars, socketVars
    <3>2. Around' = Around
      BY <3>1 DEF Around, OnTheWay, InHand, Claimed
    <3>3. Domestic' /\ Owned' /\ FeedCached' /\ ChainTo(log, feed)'
      BY <3>1, <3>2 DEF ScreensSound, Domestic, Owned, FeedCached, ChainTo, Silent
    <3>4. ASSUME NEW s \in Sockets PROVE ClientSound(s)'
      <4>1. ClientSound(s) /\ (Follows(client[s], log) => Follows(client[s], log)')
        BY <3>1 DEF ScreensSound, Follows, Silent
      <4> QED  BY <3>1, <4>1 DEF ClientSound, Watching
    <3> QED  BY <3>3, <3>4 DEF ScreensSound
  <2> QED  BY <2>1, <2>2, <2>3, StepCases
<1> QED  BY <1>1, <1>2, HistoryTypedAlways, PTL DEF Spec

\* Once everything is announced and delivered, every screen shows the committed
\* queue, for any number of clients, commits, gaps and drops, whatever the limits
\* of the registry, the receivers and the history: a client that fell behind is
\* brought up by the whole chain of deltas or sent back to read everything, and a
\* delta passed over in silence never carried the queue (delivery of
\* live_delta.rs, LiveHistory::recover).  The hypothesis is needed: a colour trial
\* outside the view moves the feed to a revision without reading it, and a client
\* that reads a newer queue under that revision misses a change back.
THEOREM ScreensShowTheQueue ==
    ASSUME "elsewhere" \notin Kinds
    PROVE  Spec => []SettledClientShowsQueue
<1>1. IInv /\ ScreensSound => SettledClientShowsQueue
  <2> SUFFICES ASSUME IInv, ScreensSound, Settled, NEW s \in Sockets
               PROVE  client[s].queue = db.queue
    BY DEF SettledClientShowsQueue
  <2>1. pc[s] = "idle" /\ inbox[s] = Nothing /\ task[s] # "http"
    BY RowFacts DEF Settled, AwakeSound
  <2>2. client[s].queue = feed.queue
    BY <2>1 DEF ScreensSound, ClientSound, Watching
  <2>3. feed # None /\ feed.revision = revision
    BY <2>1, RowFacts DEF AwakeSound
  <2>4. ~ QueueDue
    BY NoItems DEF Settled, QueueDue, OnTheWay, InHand, Claimed
  <2>5. feed.queue = db.queue
    BY <2>3, <2>4 DEF IInv, FeedSound, QueueOK
  <2> QED  BY <2>2, <2>5
<1> QED  BY <1>1, ScreensAlways, PTL

=============================================================================
