------------------------------ MODULE LiveState ------------------------------
(***************************************************************************)
(* The live production view of one server process: how a commit anywhere   *)
(* in the plant reaches the screens connected here.                        *)
(*                                                                         *)
(* A commit is announced twice, by the request that made it (if it ran     *)
(* here and was not dropped) and by PostgreSQL, whose notifications are    *)
(* lost while the listener is disconnected.  Either announcement advances  *)
(* the revision of the process and wakes the sockets.  A socket refreshes  *)
(* the feed it shares with the actor's other sockets: it reads history and *)
(* snapshot, retries when the revision moved under it, and appends the     *)
(* difference to a bounded history from which every socket brings its      *)
(* client up to date.  A client starts from, and falls back to, an HTTP    *)
(* read.  (core/production_map/service.rs, db/.../realtime.rs,             *)
(* http/handlers/admin/production_maps/live_*.rs)                          *)
(*                                                                         *)
(* The data of a view is two bits a commit may flip: the queue part comes  *)
(* from the snapshot cached per revision, the history part (completed      *)
(* orders, completion requests and decisions) is read each time.           *)
(***************************************************************************)
EXTENDS Integers, Sequences, SequencesExt

CONSTANTS
    Sockets,            \* connections of one actor to this process
    None,
    Kinds,              \* the kinds of commits that happen
    MaxCommits, MaxGaps, MaxDrops,      \* bounds
    RegistryLimit,      \* COMMITTED_LIVE_EVENTS_LIMIT
    NotifyCapacity,     \* LIVE_NOTIFY_CAPACITY
    HistoryEntries,     \* HISTORY_ENTRIES
    MaxReads            \* attempts of read_view_consistent

ASSUME BoundsAssumption ==
    {MaxCommits, MaxGaps, MaxDrops, RegistryLimit, NotifyCapacity, HistoryEntries, MaxReads}
        \subseteq Nat

\* The rows, notifications and events of the state below.
AllKinds  == {"state", "colour", "elsewhere", "sequence"}
Bits      == 0 .. 1
Snapshots == [revision : Nat, queue : Bits]
Views     == [revision : Nat, queue : Bits, history : Bits]
Events    == [kind : AllKinds, revision : Nat]
Notes     == [kind : AllKinds, id : Nat]
Pendings  == [stage : {"collect", "moves", "claim"}, moves : Seq(Notes), trials : Seq(Notes),
              fresh : SUBSET Notes, generic : BOOLEAN]

ASSUME KindsAssumption == Kinds \subseteq AllKinds

\* There is a socket; None is none, and no row, event or batch.
ASSUME NoneAssumption ==
    /\ Sockets # {}
    /\ None \notin Sockets \cup Snapshots \cup Views \cup Events
    /\ None \notin Pendings

VARIABLES
    db,             \* [queue, history]: what is committed
    commits, gaps, drops,
    pg,             \* notifications on their way to the listener
    listener,       \* "on", "off", or "gap": connected, invalidation due
    batch,          \* the listener's Pending, or None
    unpublished,    \* commits of this process not yet announced locally
    registry,       \* CommittedLiveEvents.order
    revision,       \* ProductionSnapshotCache.revision
    cache,          \* CachedProductionSnapshot: [revision, queue], or None
    builder,        \* the socket holding rebuild_lock, or None
    feed,           \* StateFeedData.view: [revision, queue, history], or None
    log,            \* LiveHistory.entries
    owner,          \* the socket refreshing the feed (data.lock), or None
    inbox,          \* socket -> [lagged, events]: broadcast receiver
    pc,             \* socket -> where its client or its loop is
    task,           \* socket -> what a view is read for: "http", "live", "beat"
    event,          \* socket -> the colour event that woke it, or None
    read, reads,    \* socket -> the view being read, the attempts made
    client          \* socket -> [revision, queue, history] its client shows

dbVars       == <<db, commits, pg, unpublished>>
listenerVars == <<gaps, listener, batch>>
eventVars    == <<registry, revision, inbox>>
feedVars     == <<cache, builder, feed, log, owner>>
socketVars   == <<pc, task, event, read, reads, drops>>

vars == <<dbVars, listenerVars, eventVars, feedVars, socketVars, client>>

-----------------------------------------------------------------------------

\* A view as it is read: `built` is the revision of its snapshot.
Blank == [revision |-> 0, built |-> 0, queue |-> 0, history |-> 0]

\* A receiver with nothing to report.
Nothing == [lagged |-> FALSE, events |-> <<>>]

Origin == [revision |-> 0, queue |-> 0, history |-> 0]

Init ==
    /\ db = [queue |-> 0, history |-> 0]
    /\ commits = 0 /\ gaps = 0 /\ drops = 0
    /\ pg = <<>> /\ listener = "on" /\ batch = None
    /\ unpublished = {}
    /\ registry = <<>> /\ revision = 0
    /\ cache = None /\ builder = None /\ feed = None /\ log = <<>> /\ owner = None
    /\ inbox = [s \in Sockets |-> Nothing]
    /\ pc = [s \in Sockets |-> "fetch"]
    /\ task = [s \in Sockets |-> "http"]
    /\ event = [s \in Sockets |-> None]
    /\ read = [s \in Sockets |-> Blank]
    /\ reads = [s \in Sockets |-> 0]
    /\ client = [s \in Sockets |-> Origin]

-----------------------------------------------------------------------------
(* Commits and their announcement.                                         *)

\* What a committed transaction writes: an ordinary one, a colour trial on a
\* machine of this view or elsewhere, a sequence move.
Writes == [state     |-> {"queue", "history"},
           colour    |-> {"queue"},
           elsewhere |-> {},
           sequence  |-> {"queue"}]

Scoped == {"colour", "elsewhere"}

\* mini_notify_production_live: the payload is sent with the commit.
Commit(kind, changed, here) ==
    LET n == [kind |-> kind, id |-> commits + 1]
    IN  /\ commits < MaxCommits
        /\ changed \subseteq Writes[kind]
        /\ changed = {} => Writes[kind] = {}
        /\ commits' = commits + 1
        /\ db' = [f \in DOMAIN db |-> IF f \in changed THEN 1 - db[f] ELSE db[f]]
        /\ pg' = IF listener = "off" THEN pg ELSE Append(pg, n)
        /\ unpublished' = IF here THEN unpublished \union {n} ELSE unpublished
        /\ UNCHANGED <<listenerVars, eventVars, feedVars, socketVars, client>>

\* broadcast::send: a receiver that is too slow loses its oldest event and is
\* told so.
Sent(q, e) ==
    LET all == Append(q.events, e)
    IN  IF Len(all) > NotifyCapacity THEN [lagged |-> TRUE, events |-> Tail(all)]
                                     ELSE [q EXCEPT !.events = all]

Subscribed(s) == task[s] # "http" /\ pc[s] \notin {"fetch", "off"}

\* A bump of the revision is sent to every subscriber.
Announce(kind) ==
    /\ revision' = revision + 1
    /\ inbox' = [s \in Sockets |->
         IF Subscribed(s) THEN Sent(inbox[s], [kind |-> kind, revision |-> revision + 1])
                          ELSE inbox[s]]

\* CommittedLiveEvents::remember
Known(n) == Contains(registry, n.id)

Remember(id) ==
    LET all == Append(registry, id)
    IN  registry' = IF Contains(registry, id) THEN registry
                    ELSE IF Len(all) > RegistryLimit THEN Tail(all) ELSE all

\* notify_committed_event_once: claimed and announced in one step, or known.
AnnounceOnce(n) ==
    /\ Remember(n.id)
    /\ IF Known(n) THEN UNCHANGED <<revision, inbox>> ELSE Announce(n.kind)

\* The mutex of the registry is held while a batch claims its trials.
Claiming == batch # None /\ batch.stage = "claim"

\* A local announcement after the commit: once for an event with an identity,
\* always for an ordinary invalidation.
PublishHere(n) ==
    /\ n \in unpublished
    /\ unpublished' = unpublished \ {n}
    /\ \/ n.kind = "state" /\ Announce("state") /\ UNCHANGED registry
       \/ n.kind # "state" /\ ~ Claiming /\ AnnounceOnce(n)
    /\ UNCHANGED <<db, commits, pg, listenerVars, feedVars, socketVars, client>>

\* An identity claimed before the announcement it stands for.
DropClaimed(n) ==
    /\ n \in unpublished /\ drops < MaxDrops
    /\ drops' = drops + 1
    /\ unpublished' = unpublished \ {n}
    /\ Remember(n.id)
    /\ UNCHANGED <<db, commits, pg, listenerVars, revision, inbox, feedVars,
                   pc, task, event, read, reads, client>>

\* The handler is dropped between its commit and its announcement.
DropHere(n) ==
    /\ n \in unpublished /\ drops < MaxDrops
    /\ drops' = drops + 1
    /\ unpublished' = unpublished \ {n}
    /\ UNCHANGED <<db, commits, pg, listenerVars, eventVars, feedVars,
                   pc, task, event, read, reads, client>>

-----------------------------------------------------------------------------
(* The listener.                                                           *)

\* Pending, as a batch begins.
NoPending == [stage |-> "collect", moves |-> <<>>, trials |-> <<>>, fresh |-> {},
              generic |-> FALSE]

\* Pending::add
Added(b, n) ==
    [b EXCEPT !.moves = IF n.kind = "sequence" THEN Append(@, n) ELSE @,
              !.trials = IF n.kind \in Scoped THEN Append(@, n) ELSE @,
              !.generic = @ \/ n.kind = "state"]

Collecting == batch # None => batch.stage = "collect"

\* listen_once: a notification that arrives within the coalescing window.
Receive ==
    /\ listener = "on" /\ pg # <<>>
    /\ Collecting
    /\ batch' = Added(IF batch = None THEN NoPending ELSE batch, Head(pg))
    /\ pg' = Tail(pg)
    /\ UNCHANGED <<db, commits, unpublished, gaps, listener, eventVars, feedVars,
                   socketVars, client>>

\* Pending::publish: first the moves, each on its own, in commit order.
PublishMove ==
    /\ batch # None /\ listener # "off"
    /\ batch.moves # <<>>
    /\ AnnounceOnce(Head(batch.moves))
    /\ batch' = [batch EXCEPT !.stage = "moves", !.moves = Tail(@)]
    /\ UNCHANGED <<dbVars, gaps, listener, feedVars, socketVars, client>>

\* notify_print_preflight_batch: the colour trials are claimed one by one ...
ClaimTrial ==
    /\ batch # None /\ listener # "off"
    /\ batch.moves = <<>> /\ batch.trials # <<>>
    /\ LET n == Head(batch.trials)
       IN  /\ Remember(n.id)
           /\ batch' = [batch EXCEPT !.stage = "claim", !.trials = Tail(@),
                                     !.fresh = IF Known(n) THEN @ ELSE @ \cup {n}]
    /\ UNCHANGED <<dbVars, gaps, listener, revision, inbox, feedVars, socketVars, client>>

\* ... and announced as one event if they are all about one machine, else as
\* an invalidation.
PublishBatch ==
    /\ batch # None /\ listener # "off"
    /\ batch.moves = <<>> /\ batch.trials = <<>>
    /\ LET generic == batch.generic \/ listener = "gap"
           mixed == \E m, n \in batch.fresh : m.kind # n.kind
       IN  \/ (generic \/ mixed) /\ Announce("state")
           \/ ~ generic /\ ~ mixed /\ \E n \in batch.fresh : Announce(n.kind)
           \/ ~ generic /\ batch.fresh = {} /\ UNCHANGED <<revision, inbox>>
    /\ batch' = None
    /\ listener' = "on"
    /\ UNCHANGED <<dbVars, gaps, registry, feedVars, socketVars, client>>

\* The connection breaks: what was on its way is lost.  A batch being collected
\* survives when try_recv reports the gap, and dies with listen_once when it
\* fails; a break while a batch is published is noticed afterwards.
LoseConnection(kept) ==
    /\ listener # "off" /\ gaps < MaxGaps
    /\ Collecting
    /\ gaps' = gaps + 1
    /\ listener' = "off"
    /\ pg' = <<>>
    /\ batch' = IF kept THEN batch ELSE None
    /\ UNCHANGED <<db, commits, unpublished, eventVars, feedVars, socketVars, client>>

Listen ==
    /\ listener = "off"
    /\ listener' = "gap"
    /\ UNCHANGED <<dbVars, gaps, batch, eventVars, feedVars, socketVars, client>>

\* invalidate_after_gap, and one that trusts the new connection.
NoInvalidation ==
    /\ listener = "gap" /\ batch = None
    /\ listener' = "on"
    /\ UNCHANGED <<dbVars, gaps, batch, eventVars, feedVars, socketVars, client>>

InvalidateAfterGap ==
    /\ listener = "gap" /\ batch = None
    /\ Announce("state")
    /\ listener' = "on"
    /\ UNCHANGED <<dbVars, gaps, batch, registry, feedVars, socketVars, client>>

-----------------------------------------------------------------------------
(* The client (external): an HTTP read, then a socket from its revision.   *)

Fetch(s) ==
    /\ pc[s] = "fetch"
    /\ task' = [task EXCEPT ![s] = "http"]
    /\ event' = [event EXCEPT ![s] = None]
    /\ reads' = [reads EXCEPT ![s] = 0]
    /\ pc' = [pc EXCEPT ![s] = "load"]
    /\ UNCHANGED <<dbVars, listenerVars, eventVars, feedVars, read, drops, client>>

\* The socket subscribes before its first read.
Connect(s) ==
    /\ pc[s] = "off"
    /\ pc' = [pc EXCEPT ![s] = "refresh"]
    /\ task' = [task EXCEPT ![s] = "beat"]
    /\ event' = [event EXCEPT ![s] = None]
    /\ inbox' = [inbox EXCEPT ![s] = Nothing]
    /\ UNCHANGED <<dbVars, listenerVars, registry, revision, feedVars,
                   read, reads, drops, client>>

Hangup(s) ==
    /\ pc[s] = "idle" /\ drops < MaxDrops
    /\ drops' = drops + 1
    /\ pc' = [pc EXCEPT ![s] = "off"]
    /\ inbox' = [inbox EXCEPT ![s] = Nothing]
    /\ UNCHANGED <<dbVars, listenerVars, registry, revision, feedVars,
                   task, event, read, reads, client>>

\* events.recv(): an event, or the report of a lag.
Wake(s) ==
    /\ pc[s] = "idle" /\ inbox[s] # Nothing
    /\ \/ /\ inbox[s].lagged
          /\ inbox' = [inbox EXCEPT ![s].lagged = FALSE]
          /\ event' = [event EXCEPT ![s] = None]
       \/ /\ ~ inbox[s].lagged
          /\ inbox' = [inbox EXCEPT ![s].events = Tail(@)]
          /\ LET e == Head(inbox[s].events)
             IN  event' = [event EXCEPT ![s] = IF e.kind \in Scoped THEN e ELSE None]
    /\ task' = [task EXCEPT ![s] = "live"]
    /\ pc' = [pc EXCEPT ![s] = "refresh"]
    /\ UNCHANGED <<dbVars, listenerVars, registry, revision, feedVars,
                   read, reads, drops, client>>

Heartbeat(s) ==
    /\ pc[s] = "idle"
    /\ event' = [event EXCEPT ![s] = None]
    /\ task' = [task EXCEPT ![s] = "beat"]
    /\ pc' = [pc EXCEPT ![s] = "refresh"]
    /\ UNCHANGED <<dbVars, listenerVars, eventVars, feedVars, read, reads, drops, client>>

-----------------------------------------------------------------------------
(* Refreshing the feed, under the feed's lock.                             *)

\* colour_history_unchanged: the event is the one step from the feed's
\* revision to the current one.
OneColourStep(s, now) ==
    /\ event[s] # None /\ feed # None
    /\ event[s].revision = now
    /\ feed.revision + 1 = now

\* preflight_outside_view, after exactly that step.
Unchanged(s) == OneColourStep(s, revision) /\ event[s].kind = "elsewhere"

Current == feed # None /\ feed.revision = revision

\* A history that only grows.
Unpruned(entries) == entries

\* LiveHistory::prune.
Pruned(entries) ==
    IF Len(entries) > HistoryEntries THEN Tail(entries) ELSE entries

\* A delta of the history: what changed from one view to the next.
Delta(before, after) ==
    [base |-> before.revision, revision |-> after.revision,
     fields |-> {f \in {"queue", "history"} : before[f] # after[f]},
     queue |-> after.queue, history |-> after.history]

\* StateFeedData::advance_unchanged: a trial that this view does not show.
Advance(s) ==
    /\ pc[s] = "refresh" /\ owner = None
    /\ ~ Current /\ Unchanged(s)
    /\ LET next == [feed EXCEPT !.revision = revision]
       IN  log' = Pruned(Append(log, Delta(feed, next))) /\ feed' = next
    /\ pc' = [pc EXCEPT ![s] = "deliver"]
    /\ event' = [event EXCEPT ![s] = None]
    /\ UNCHANGED <<dbVars, listenerVars, eventVars, cache, builder, owner,
                   task, read, reads, drops, client>>

\* The view is current, or it is read.
Refresh(s) ==
    /\ pc[s] = "refresh" /\ owner = None
    /\ \/ /\ Current
          /\ pc' = [pc EXCEPT ![s] = "deliver"]
          /\ event' = [event EXCEPT ![s] = None]
          /\ UNCHANGED <<owner, reads>>
       \/ /\ ~ Current /\ ~ Unchanged(s)
          /\ pc' = [pc EXCEPT ![s] = "load"]
          /\ owner' = s
          /\ reads' = [reads EXCEPT ![s] = 0]
          /\ UNCHANGED event
    /\ UNCHANGED <<dbVars, listenerVars, eventVars, cache, builder, feed, log,
                   task, read, drops, client>>

-----------------------------------------------------------------------------
(* read_view_consistent, for a feed or for an HTTP request.                *)

\* The revision first, then the history, or the feed's after exactly one
\* colour step.  (A commit in between is as one before, an announcement in
\* between makes the attempt void.)
ReadHistory(s) ==
    /\ pc[s] = "load"
    /\ read' = [read EXCEPT ![s].revision = revision,
                            ![s].history = IF OneColourStep(s, revision) THEN feed.history
                                           ELSE db.history]
    /\ reads' = [reads EXCEPT ![s] = @ + 1]
    /\ pc' = [pc EXCEPT ![s] = "snapshot"]
    /\ UNCHANGED <<dbVars, listenerVars, eventVars, feedVars, task, event, drops, client>>

\* Then the snapshot (live_snapshot_shared_with_revision): the cached one of
\* the current revision, or one built under rebuild_lock.
Cached == cache # None /\ cache.revision = revision

MayBuildUnlocked == TRUE

MayBuild == builder = None

ReadSnapshot(s) ==
    /\ pc[s] = "snapshot"
    /\ \/ /\ Cached
          /\ read' = [read EXCEPT ![s].queue = cache.queue, ![s].built = revision]
          /\ pc' = [pc EXCEPT ![s] = "check"]
          /\ UNCHANGED builder
       \/ /\ ~ Cached /\ MayBuild
          /\ builder' = s
          /\ read' = [read EXCEPT ![s].queue = db.queue, ![s].built = revision]
          /\ pc' = [pc EXCEPT ![s] = "build"]
    /\ UNCHANGED <<dbVars, listenerVars, eventVars, cache, feed, log, owner,
                   task, event, reads, drops, client>>

\* A snapshot that the revision overtook is built again.
Store(s) ==
    /\ pc[s] = "build"
    /\ builder' = None
    /\ IF read[s].built = revision
       THEN /\ cache' = [revision |-> revision, queue |-> read[s].queue]
            /\ pc' = [pc EXCEPT ![s] = "check"]
       ELSE pc' = [pc EXCEPT ![s] = "snapshot"] /\ UNCHANGED cache
    /\ UNCHANGED <<dbVars, listenerVars, eventVars, feed, log, owner,
                   task, event, read, reads, drops, client>>

\* A view is consistent if the revision was the same from first to last.
Overtaken(s) == read[s].built # read[s].revision \/ read[s].built # revision

\* StateFeedData::replace: a patch that is too large clears the history.
Replaced(next, fits) ==
    IF feed = None THEN log
    ELSE IF ~ fits THEN <<>>
    ELSE Pruned(Append(log, Delta(feed, next)))

\* What a finished reading leaves behind is of no further use.
Forget(s) ==
    /\ read' = [read EXCEPT ![s] = Blank]
    /\ reads' = [reads EXCEPT ![s] = 0]
    /\ event' = [event EXCEPT ![s] = None]

View(s) == [revision |-> read[s].revision, queue |-> read[s].queue, history |-> read[s].history]

Answer(s) ==
    /\ pc[s] = "check" /\ task[s] = "http" /\ ~ Overtaken(s)
    /\ client' = [client EXCEPT ![s] = View(s)]
    /\ pc' = [pc EXCEPT ![s] = "off"]
    /\ Forget(s)
    /\ UNCHANGED <<dbVars, listenerVars, eventVars, feedVars, task, drops>>

Publish(s, fits) ==
    /\ pc[s] = "check" /\ task[s] # "http" /\ ~ Overtaken(s)
    /\ log' = Replaced(View(s), fits)
    /\ feed' = View(s)
    /\ owner' = None
    /\ pc' = [pc EXCEPT ![s] = "deliver"]
    /\ Forget(s)
    /\ UNCHANGED <<dbVars, listenerVars, eventVars, cache, builder, task, drops, client>>

\* Read again; after the last attempt the request or the socket ends with a
\* conflict, and the client begins anew.
Again(s) ==
    /\ pc[s] = "check" /\ Overtaken(s)
    /\ IF reads[s] < MaxReads
       THEN pc' = [pc EXCEPT ![s] = "load"] /\ UNCHANGED <<owner, inbox, read, reads, event>>
       ELSE /\ pc' = [pc EXCEPT ![s] = IF task[s] = "http" THEN "fetch" ELSE "off"]
            /\ owner' = IF owner = s THEN None ELSE owner
            /\ inbox' = [inbox EXCEPT ![s] = Nothing]
            /\ Forget(s)
    /\ UNCHANGED <<dbVars, listenerVars, registry, revision, cache, builder, feed, log,
                   task, drops, client>>

-----------------------------------------------------------------------------
(* Delivery.                                                               *)

\* The positions of the deltas that lead on from a revision.
Later(from) == {i \in DOMAIN log : log[i].revision > from}

\* A recovery that is content with what the history still has.
PartlyRecoverable(from, to) == from <= to

\* LiveHistory::recover: the whole chain from `from` to `to`, or none.
Recoverable(from, to) ==
    \/ from = to
    \/ LET chain == Later(from)
       IN  /\ from < to /\ chain # {}
           /\ log[Min(chain)].base = from
           /\ log[Max(chain)].revision = to

\* A view after the deltas of a chain, applied in their order: of each part,
\* what the last delta with that part says.
Patched(view, chain, to) ==
    LET Part(f) == LET with == {i \in chain : f \in log[i].fields}
                   IN  IF with = {} THEN view[f] ELSE log[Max(with)][f]
    IN  [revision |-> to, queue |-> Part("queue"), history |-> Part("history")]

\* Deltas without content are passed over in silence, except at the first
\* delivery and at a heartbeat.
Deliver(s) ==
    LET from  == client[s].revision
        chain == {i \in Later(from) : log[i].fields # {}}
        last  == IF task[s] = "beat" THEN feed.revision
                 ELSE IF chain = {} THEN from ELSE log[Max(chain)].revision
    IN
    /\ pc[s] = "deliver" /\ owner = None
    /\ Recoverable(from, feed.revision)
    /\ client' = [client EXCEPT ![s] = Patched(@, chain, last)]
    /\ pc' = [pc EXCEPT ![s] = "idle"]
    /\ UNCHANGED <<dbVars, listenerVars, eventVars, feedVars, task, event, read, reads, drops>>

\* state_resync: the client reads again and reconnects.
Resync(s) ==
    /\ pc[s] = "deliver" /\ owner = None
    /\ ~ Recoverable(client[s].revision, feed.revision)
    /\ pc' = [pc EXCEPT ![s] = "fetch"]
    /\ inbox' = [inbox EXCEPT ![s] = Nothing]
    /\ UNCHANGED <<dbVars, listenerVars, registry, revision, feedVars,
                   task, event, read, reads, drops, client>>

-----------------------------------------------------------------------------

Socket(s) ==
    \/ Fetch(s) \/ Connect(s) \/ Wake(s) \/ Advance(s) \/ Refresh(s)
    \/ ReadHistory(s) \/ ReadSnapshot(s) \/ Store(s)
    \/ Answer(s) \/ Again(s) \/ Deliver(s) \/ Resync(s)
    \/ \E fits \in BOOLEAN : Publish(s, fits)

Listener ==
    \/ Receive \/ PublishMove \/ ClaimTrial \/ PublishBatch \/ Listen \/ InvalidateAfterGap

Next ==
    \/ \E kind \in Kinds, changed \in SUBSET DOMAIN db, here \in BOOLEAN :
          Commit(kind, changed, here)
    \/ \E n \in unpublished : PublishHere(n) \/ DropHere(n)
    \/ \E kept \in BOOLEAN : LoseConnection(kept)
    \/ Listener
    \/ \E s \in Sockets : Socket(s) \/ Heartbeat(s) \/ Hangup(s)

\* The listener task, the request that committed and the sockets' tasks are
\* run by the server; commits, failures and heartbeats need not happen.
Fairness ==
    /\ WF_vars(Listener)
    /\ WF_vars(\E n \in unpublished : PublishHere(n))
    /\ \A s \in Sockets : WF_vars(Socket(s))

Spec == Init /\ [][Next]_vars /\ Fairness

-----------------------------------------------------------------------------
(* Properties.                                                             *)

\* Every variable has its type; the registry of announced events and the
\* history of the feed stay within their limits (CommittedLiveEvents, LiveHistory).
TypeOK ==
    /\ db \in [{"queue", "history"} -> 0 .. 1]
    /\ listener \in {"on", "off", "gap"}
    /\ Len(registry) <= RegistryLimit /\ Len(log) <= HistoryEntries
    /\ revision \in Nat
    /\ builder \in Sockets \union {None} /\ owner \in Sockets \union {None}
    /\ pc \in [Sockets -> {"fetch", "off", "idle", "refresh", "load", "snapshot",
                           "build", "check", "deliver"}]
    /\ task \in [Sockets -> {"http", "live", "beat"}]
    /\ client \in [Sockets -> Views]

\* Every announcement has been made and every socket has taken note of it.
Settled ==
    /\ listener = "on" /\ pg = <<>> /\ batch = None /\ unpublished = {}
    /\ \A s \in Sockets : pc[s] = "idle" /\ inbox[s] = Nothing

\* No commit is lost on its way to the feed: not one whose request died
\* before it announced it, not one made while the listener was disconnected,
\* not one overtaken by another, coalesced with another or announced again
\* after its identity was forgotten (notify_committed_event_once: "Eviction
\* permits an extra invalidation, never loss").
NothingIsLost == Settled => /\ feed.queue = db.queue
                            /\ feed.history = db.history

\* A revision names one snapshot: whoever reads it, over HTTP or for a feed,
\* gets the queue that is cached for it, although a commit may land between
\* two builds at one revision (live_snapshot_shared_with_revision).
SameRevisionSameQueue ==
    cache # None => \A s \in Sockets :
        /\ pc[s] = "check" /\ read[s].built = cache.revision => read[s].queue = cache.queue
        /\ pc[s] = "off" /\ task[s] = "http" /\ client[s].revision = cache.revision
              => client[s].queue = cache.queue

\* The feed catches up with the last commit, also when the request that made it
\* was dropped before it announced it and only the listener knows of it
\* (Pending of realtime.rs, the refresh loop of live_feed.rs).
FeedCatchesUp == <>[](feed # None /\ feed.queue = db.queue /\ feed.history = db.history)

\* Once everything is announced and delivered, a client shows the committed
\* queue, whether it was brought up by a chain of deltas, passed over in silence
\* or sent back to read everything (delivery of live_delta.rs, and "Returns the
\* entire proven chain or no chain" of LiveHistory::recover).
SettledClientShowsQueue == Settled => \A s \in Sockets : client[s].queue = db.queue

\* Once everything is announced and delivered, a client shows what is
\* committed ("clients can detect a missed update and resync instead of
\* sitting on stale state", live_snapshot_shared_with_revision).
SettledClientIsCurrent ==
    Settled => \A s \in Sockets : client[s].queue = db.queue /\ client[s].history = db.history

=============================================================================
