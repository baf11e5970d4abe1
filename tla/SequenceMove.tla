---------------------------- MODULE SequenceMove ----------------------------
(***************************************************************************)
(* Reordering the queue of one apparatus over an unreliable connection     *)
(* (core/production_map/sequence_move.rs and its PostgreSQL store).        *)
(*                                                                         *)
(* An administrator drags an order on a screen and sends the move with the *)
(* version the screen shows and an idempotency key.  The store reads the   *)
(* orders it must lock, takes the locks, and then decides everything in    *)
(* one transaction: a receipt of the same command is returned as it is, a  *)
(* stale version is a conflict, otherwise the saved sequence, its revision,*)
(* the outbox event and the receipt are written together.  Answers may be  *)
(* lost, servers may die and the client repeats its command; meanwhile     *)
(* other requests of any process start, finish, stop, release, add and     *)
(* delete orders, some of them without a new revision.                     *)
(*                                                                         *)
(* The SHA-256 version is the value it digests.  Advisory locks are held   *)
(* from the second read to the commit, so Commit is one step.              *)
(***************************************************************************)
EXTENDS QueueRules, FiniteSets

CONSTANTS
    Orders, Admins, Keys,
    MapsAtStart,    \* the orders already on the apparatus, oldest first
    NoOrder, Nothing,
    MaxAttempts,    \* commit attempts of one request (3 in the code)
    MaxRevision,    \* bounds: on the saved sequences,
    MaxChanges,     \* on the moves asked for and the changes of others,
    MaxLosses       \* and on the lost answers

\* What is digested into a version, an outbox event with its operation, the
\* outcome of a move, and the receipt that keeps it.
Lines ==
    [order_ids : Seq(Orders),
     states    : UNION {[shown -> QueueStates] : shown \in SUBSET Orders},
     frozen    : SUBSET Orders]

Neighbours == Orders \union {NoOrder}

Events ==
    [op : [order : Orders, before : Neighbours, after : Neighbours],
     base_version : Lines, version : Lines]

Results == [version : Lines, event : Events \union {Nothing}]

Requests == [order : Orders, before : Neighbours, after : Neighbours, expected : Lines]

Receipts == [request : Requests, result : Results]

ASSUME OrdersAssumption ==
    /\ MapsAtStart \in Seq(Orders) /\ IsInjective(MapsAtStart)
    /\ NoOrder \notin Orders
ASSUME NothingAssumption == Nothing \notin Events /\ Nothing \notin Receipts
ASSUME BoundsAssumption == MaxAttempts \in Nat \ {0} /\ MaxRevision \in Nat \ {0}

VARIABLES
    maps,           \* orders whose map selects this apparatus, least recently saved first
    stored,         \* order_ids of mini_queue_sequences
    revision,       \* its revision; 0 while there is no row
    states,         \* mini_queue_states of the apparatus
    frozen,         \* orders with control state frozen
    events,         \* revision -> event of mini_queue_events
    receipts,       \* mini_queue_reorder_commands
    screen,         \* admin -> [list, version, revision] on display
    pc, command, attempt, locked,       \* the admin's request in flight
    answer,         \* what the server answered, on its way
    moves,          \* the moves that took effect, as the outbox shows them
    changes, losses

db == <<maps, stored, revision, states, frozen, events, receipts, moves>>
request == <<pc, command, attempt, locked, answer>>
vars == <<db, screen, request, changes, losses>>

-----------------------------------------------------------------------------
(* The state of the apparatus and its version.                             *)

Visible == ToSet(maps)

\* SequenceMoveState::from_visible.
Line ==
    LET stopped == {o \in Visible : o \in frozen \/ states[o] = "frozen"}
        ids     == EffectiveSequence(stored, maps, stopped)
    IN  [order_ids |-> ids,
         states    |-> [o \in ToSet(ids) |-> Parsed(states[o])],
         frozen    |-> stopped]

Shown == [list |-> Line.order_ids, version |-> Line, revision |-> revision]

Running(line) == {o \in DOMAIN line.states : line.states[o] \in ActiveStates}

-----------------------------------------------------------------------------
(* SequenceMoveState::apply.                                               *)

Commands(c) ==
    [order : Orders, before : Neighbours, after : Neighbours,
     expected : {screen[c].version}]

\* SequenceMove::validate.
Valid(m) ==
    /\ m.before = NoOrder \/ m.after = NoOrder
    /\ m.order \notin {m.before, m.after}

NeighbourKnown(m, ids) ==
    \A n \in {m.before, m.after} : n = NoOrder \/ Contains(ids, n)

\* The slot the command names once its order is taken out.
Wish(m, rest) ==
    IF m.before # NoOrder THEN Position(rest, m.before)
    ELSE IF m.after # NoOrder THEN Position(rest, m.after) + 1
    ELSE Len(rest) + 1

Refusal(m, line) ==
    IF m.order \in line.frozen THEN "frozen"
    ELSE IF \/ m.expected # line
            \/ ~ Contains(line.order_ids, m.order)
            \/ ~ NeighbourKnown(m, line.order_ids) THEN "conflict"
    ELSE IF AllowedSlots(line.order_ids, m.order, Running(line)) = {} THEN "blocked"
    ELSE "none"

Moved(m, line) ==
    [line EXCEPT !.order_ids =
        NearestAllowed(@, m.order, Wish(m, Without(@, m.order)), Running(line))]

\* An event that names its neighbours the wrong way round.
DeltaSwapped(before, after, o) ==
    LET i == Position(after, o)
    IN  [order |-> o,
         before |-> IF i > 1 THEN after[i - 1] ELSE NoOrder,
         after |-> IF i < Len(after) THEN after[i + 1] ELSE NoOrder]

\* compute_canonical_sequence_delta.
Delta(before, after, o) ==
    LET i == Position(after, o)
    IN  [order |-> o,
         before |-> IF i < Len(after) THEN after[i + 1] ELSE NoOrder,
         after |-> IF i > 1 THEN after[i - 1] ELSE NoOrder]

Result(m, line) ==
    LET next == Moved(m, line)
    IN  [version |-> next,
         event |-> IF next = line THEN Nothing
                   ELSE [op |-> Delta(line.order_ids, next.order_ids, m.order),
                         base_version |-> m.expected, version |-> next]]

-----------------------------------------------------------------------------

NoCommand == [order |-> NoOrder]

Init ==
    /\ maps = MapsAtStart
    /\ \/ stored = <<>> /\ revision = 0
       \/ stored = maps /\ revision = 1
    /\ states = [o \in Orders |-> "none"]
    /\ frozen = {}
    /\ events = <<>>
    /\ receipts = [c \in Admins |-> [k \in Keys |-> Nothing]]
    /\ screen = [c \in Admins |-> Shown]
    /\ pc = [c \in Admins |-> "idle"]
    /\ command = [c \in Admins |-> NoCommand]
    /\ attempt = [c \in Admins |-> 0]
    /\ locked = [c \in Admins |-> {}]
    /\ answer = [c \in Admins |-> Nothing]
    /\ moves = <<>>
    /\ changes = 0 /\ losses = 0

\* The client sends a move of what it sees, under a key of its choice.
Ask(c, k, m) ==
    /\ pc[c] = "idle"
    /\ Valid(m)
    /\ changes < MaxChanges
    /\ changes' = changes + 1
    /\ {m.order, m.before, m.after} \ {NoOrder} \subseteq ToSet(screen[c].list)
    /\ pc' = [pc EXCEPT ![c] = "read"]
    /\ command' = [command EXCEPT ![c] = [key |-> k, request |-> m]]
    /\ attempt' = [attempt EXCEPT ![c] = 1]
    /\ UNCHANGED <<db, screen, locked, answer, losses>>

\* commit_once up to the advisory locks: the candidate orders are read
\* before the wait.
ReadCandidates(c) ==
    /\ pc[c] = "read"
    /\ LET m == command[c].request
       IN  locked' = [locked EXCEPT ![c] =
                Visible \union ({m.order, m.before, m.after} \ {NoOrder})]
    /\ pc' = [pc EXCEPT ![c] = "locked"]
    /\ UNCHANGED <<db, screen, command, attempt, answer, changes, losses>>

Answer(c, a) ==
    /\ answer' = [answer EXCEPT ![c] = a]
    /\ pc' = [pc EXCEPT ![c] = "answered"]
    /\ attempt' = [attempt EXCEPT ![c] = 0]

\* One attempt too many.
ConflictOnceMore(c) ==
    IF attempt[c] <= MaxAttempts
    THEN /\ pc' = [pc EXCEPT ![c] = "read"]
         /\ attempt' = [attempt EXCEPT ![c] = @ + 1]
         /\ UNCHANGED answer
    ELSE Answer(c, Nothing)

\* A conflict is tried again, with the locks of the orders seen by then.
Conflict(c) ==
    IF attempt[c] < MaxAttempts
    THEN /\ pc' = [pc EXCEPT ![c] = "read"]
         /\ attempt' = [attempt EXCEPT ![c] = @ + 1]
         /\ UNCHANGED answer
    ELSE Answer(c, Nothing)

\* The outbox insert, under the new revision.
NewEvent(e) ==
    events' = [r \in DOMAIN events \union {revision + 1} |->
                  IF r \in DOMAIN events THEN events[r] ELSE e]

\* A retry that is taken for a new command.
NoReceipt(c) == FALSE

HasReceipt(c) == receipts[c][command[c].key] # Nothing

\* commit_once under the locks: the receipt, then the state, then the writes.
Commit(c) ==
    LET k == command[c].key
        m == command[c].request
        receipt == receipts[c][k]
        result == Result(m, Line)
    IN
    /\ pc[c] = "locked"
    /\ IF HasReceipt(c)
       THEN /\ Answer(c, IF receipt.request = m THEN receipt.result ELSE Nothing)
            /\ UNCHANGED db
       ELSE IF ~ Visible \subseteq locked[c] \/ Refusal(m, Line) = "conflict"
       THEN Conflict(c) /\ UNCHANGED db
       ELSE IF Refusal(m, Line) # "none"
       THEN Answer(c, Nothing) /\ UNCHANGED db
       ELSE /\ Answer(c, result)
            /\ receipts' = [receipts EXCEPT ![c][k] = [request |-> m, result |-> result]]
            /\ IF result.event = Nothing
               THEN UNCHANGED <<stored, revision, events, moves>>
               ELSE /\ revision < MaxRevision
                    /\ stored' = result.version.order_ids
                    /\ revision' = revision + 1
                    /\ NewEvent(result.event)
                    /\ moves' = Append(moves, <<c, k>>)
            /\ UNCHANGED <<maps, states, frozen>>
    /\ locked' = [locked EXCEPT ![c] = {}]
    /\ UNCHANGED <<screen, command, changes, losses>>

-----------------------------------------------------------------------------
(* The connection and the client (external).                               *)

\* The event's operation on a list: after its new predecessor, else before
\* its new successor.
Applied(list, op) ==
    LET rest == Without(list, op.order)
        slot == IF op.after # NoOrder THEN Position(rest, op.after) + 1
                ELSE IF op.before # NoOrder THEN Position(rest, op.before) ELSE 1
    IN  InsertAt(rest, slot, op.order)

\* An event applies to the exact version it was computed from.
Follow(view, e, rev) ==
    [list |-> Applied(view.list, e.op), version |-> e.version, revision |-> rev]

Deliver(c) ==
    /\ pc[c] = "answered"
    /\ pc' = [pc EXCEPT ![c] = "idle"]
    /\ answer' = [answer EXCEPT ![c] = Nothing]
    /\ command' = [command EXCEPT ![c] = NoCommand]
    /\ UNCHANGED <<db, screen, attempt, locked, changes, losses>>

\* The answer is lost, or the server dies before or after the commit; the
\* client sends the same command again.
Lose(c) ==
    /\ pc[c] \in {"locked", "answered"} /\ losses < MaxLosses
    /\ losses' = losses + 1
    /\ pc' = [pc EXCEPT ![c] = "read"]
    /\ attempt' = [attempt EXCEPT ![c] = 1]
    /\ answer' = [answer EXCEPT ![c] = Nothing]
    /\ locked' = [locked EXCEPT ![c] = {}]
    /\ UNCHANGED <<db, screen, command, changes>>

\* Reading a screen commutes with the request its client has in flight.
Look(c) ==
    /\ pc[c] = "idle"
    /\ screen[c] # Shown
    /\ screen' = [screen EXCEPT ![c] = Shown]
    /\ UNCHANGED <<db, request, changes, losses>>

\* queue_events_replay: the next event, if the screen is what it is about.
Replay(c) ==
    LET next == screen[c].revision + 1
    IN  /\ pc[c] = "idle"
        /\ next \in DOMAIN events
        /\ events[next] # Nothing
        /\ events[next].base_version = screen[c].version
        /\ screen' = [screen EXCEPT ![c] = Follow(@, events[next], next)]
        /\ UNCHANGED <<db, request, changes, losses>>

-----------------------------------------------------------------------------
(* Other requests on the same apparatus.                                   *)

Other ==
    /\ changes < MaxChanges
    /\ changes' = changes + 1
    /\ UNCHANGED <<receipts, moves, screen, request, losses>>

\* A saved sequence that forgets the outbox.
SaveSilently(list) ==
    /\ revision < MaxRevision
    /\ stored' = list
    /\ revision' = IF stored = list THEN revision ELSE revision + 1
    /\ UNCHANGED events

\* save_apparatus_sequence_tx: a new revision only for a new list, with an
\* event that carries no operation.
Save(list) ==
    IF revision > 0 /\ stored = list
    THEN UNCHANGED <<stored, revision, events>>
    ELSE /\ revision < MaxRevision
         /\ stored' = list
         /\ revision' = revision + 1
         /\ NewEvent(Nothing)

\* put_map_inner_tx: a new or an edited map becomes the newest.
PutMap(o) ==
    /\ maps' = Append(Without(maps, o), o)
    /\ UNCHANGED <<stored, revision, states, frozen, events>>
    /\ Other

\* delete_map_by_id: the saved list shrinks and keeps its revision.
DeleteMap(o) ==
    /\ o \in Visible
    /\ maps' = Without(maps, o)
    /\ stored' = Without(stored, o)
    /\ states' = [states EXCEPT ![o] = "none"]
    /\ UNCHANGED <<revision, frozen, events>>
    /\ Other

QueueStep(o, act) ==
    /\ o \in Visible \ frozen
    /\ MayMove(Parsed(states[o]), act)
    /\ act = "start" => MayTakeSlot(TRUE, Line.order_ids, states, o)
    /\ states' = [states EXCEPT ![o] = NextState(Parsed(@), act)]
    /\ UNCHANGED <<maps, stored, revision, frozen, events>>
    /\ Other

\* A frozen order leaves the saved sequence; a released one goes to its tail.
\* The sequence is the incoming one while there is no row.
Freeze(o) ==
    /\ o \in Visible \ frozen /\ Parsed(states[o]) = "pending"
    /\ frozen' = frozen \union {o}
    /\ Save(Without(IF revision = 0 THEN Line.order_ids ELSE stored, o))
    /\ UNCHANGED <<maps, states>>
    /\ Other

Release(o) ==
    /\ o \in frozen
    /\ frozen' = frozen \ {o}
    /\ Save(Append(Without(IF revision = 0 THEN Line.order_ids ELSE stored, o), o))
    /\ UNCHANGED <<maps, states>>
    /\ Other

Next ==
    \/ \E c \in Admins :
          \/ \E k \in Keys, m \in Commands(c) : Ask(c, k, m)
          \/ ReadCandidates(c) \/ Commit(c) \/ Deliver(c) \/ Lose(c)
          \/ Look(c) \/ Replay(c)
    \/ \E o \in Orders :
          \/ PutMap(o) \/ DeleteMap(o) \/ Freeze(o) \/ Release(o)
          \/ \E act \in {"start", "complete"} : QueueStep(o, act)

Spec == Init /\ [][Next]_vars

-----------------------------------------------------------------------------
(* Properties.                                                             *)

\* Every variable has its type; a request is tried MaxAttempts times at most
\* before it is answered (the retry loop of the store).
TypeOK ==
    /\ maps \in Seq(Orders) /\ frozen \subseteq Orders
    /\ stored \in Seq(Orders)
    /\ revision \in 0 .. MaxRevision
    /\ states \in [Orders -> QueueStates]
    /\ pc \in [Admins -> {"idle", "read", "locked", "answered"}]
    /\ attempt \in [Admins -> 0 .. MaxAttempts]
    /\ DOMAIN events \subseteq 1 .. revision

Contract == INSTANCE ReorderContract WITH
    line <- Line, done <- receipts, told <- answer

\* Through lost answers, retries, reused keys, dying servers and concurrent
\* changes, commit_once keeps the promise of ReorderContract: every command
\* takes effect at most once, on the version its author saw, moves only its
\* order, and an author is told that effect or nothing.
MoveContract == Contract!Spec

\* A screen that follows the operations of mini_queue_events instead of
\* reading the whole queue shows exactly the queue of the version it claims
\* (compute_canonical_sequence_delta, queue_events_replay).
ReplayShowsTheVersion ==
    \A c \in Admins : screen[c].list = screen[c].version.order_ids

\* The outbox has no hole a replay would stop at: once a sequence row has a
\* revision above its first, every later revision has its event
\* (the upsert and the outbox insert are one transaction).
OutboxHasNoHole == \A r \in 2 .. revision : r \in DOMAIN events

=============================================================================
