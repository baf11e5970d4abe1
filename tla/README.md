# Formal model of the Accord MES production backend

TLA+ models of the backend in `src/` (Rust: Axum, Tokio, SQLx on PostgreSQL,
LMDB), the TLC configurations that check them on small instances, and TLAPS
proofs of the results that matter most.

1. [The system](#1-the-system)
2. [Inventory](#2-inventory)
3. [What is hard here](#3-what-is-hard-here)
4. [Modules](#4-modules)
5. [Runs](#5-runs)
6. [Findings](#6-findings)
7. [Proofs](#7-proofs)
8. [Simplifications](#8-simplifications)
9. [Plan](#9-plan)

To check: `tlc -workers 2 -config QueueServers.cfg MCProductionQueue` (the
module of each run is in `PROJECT.json`), `tlapm ProductionQueueProofs.tla`
(likewise the other modules named `…Proofs`).

## 1. The system

Orders travel through apparatuses (printing, lamination, cutting). Each
apparatus has a queue; in it each order has a state. Workers act on a queue
from their phones (start, pause, resume, complete), printing machines may run
a colour trial before production, administrators reorder queues, stop orders
and release or close them, and every screen follows over a websocket.

The authority is PostgreSQL. A mutation runs in three layers:

- an HTTP handler, which does some checks of its own;
- the production-map service, which takes an in-process *mutation guard*,
  reads what it needs outside any transaction, decides, and prepares a write
  together with witnesses of what it read;
- the store, which opens one transaction, takes row locks, compares the
  witnesses with the rows and writes all the tables the action concerns.

The guard belongs to one process. Nothing in the code limits a deployment to
one process, so the transactions have to be right without it. Some
administrative operations are a chain of several transactions.

Beside the queues the same process keeps the printing molds ("qolip") of the
tool store and the weighing of raw material: both are warehouses whose commands
are single transactions, used by requests that last for seconds.

## 2. Inventory

| Component | State | Operations | Talks to | Correct when |
| --- | --- | --- | --- | --- |
| mutation locks (`service_mutation_guard.rs`) | barrier, registry of weak mutexes, leases | scoped and exclusive guard, release, cancellation | every mutation below | overlapping guards exclude each other, a resource has one mutex, nobody waits for ever |
| queue rules (`queue/*`) | none | next state, effective sequence, first actionable order, reorder barrier | queue actions, sequence moves | one occupant, running work is not overtaken |
| queue actions (`queue/execution.rs`, `postgres_production_map.rs`) | `mini_queue_states`, `mini_order_run_sessions`, `mini_queue_sequences` | start, resume, pause, complete, freeze | holds, stops, capacity, materials, tooling | row and session agree, slot taken once, no work after a stop |
| colour trials (`print_preflight.rs`) | `mini_print_preflight_holds` with revision | begin, pass, fail, cancel, reopen, consume | queue actions, stops | decided once on what was seen, row and trial together |
| order stops (`order_control/service.rs`) | `mini_order_control_states`, freeze requests | freeze, request, acknowledge, early close, cancel, unfreeze | all queues of the order | frozen means quiet, released work can go on, a request can be answered |
| stage-scoped stops (`order_control/scoped.rs`) | scoped records | as above, for one stage | order stops | settled before the whole-order stop |
| execution capacity (`capacity/*`) | reservations | check, reserve, schedule | queue actions | slots are not exceeded |
| sequence moves (`sequence_move.rs`) | sequence revision, receipts | move, replay | live feed | retries move once, clients converge |
| live state (`live_delta.rs`, `live_feed.rs`, `live_hub.rs`, `realtime.rs`) | snapshot revision, history ring, seen events | notify, refresh, deliver, reconnect | every mutation | a client that keeps up shows the committed state |
| temporary pause, re-pause, cancel start, reactivation, transfer | sessions, checkpoints | corrections of committed actions | queue actions | only the latest action is undone, once |
| stage execution, WIP, paddons, remainders | batches, lineage | record, split, receive | queue actions | quantities conserved |
| materials, warehouses, inventory movements | stock rows | assign, receive, consume, move | queue actions, RPS | no negative or double consumption |
| tooling (`qolip`) | shelf quantities, checkouts, reworks, pallet members, archive | issue, return, rework, pack, archive, acquire at start, release at freeze and completion | queue actions | a mold is in one place and has one owner, work goes on only with its molds |
| chat, chat media | messages, delivery marks, uploads | send, deliver, read, upload, process | push | in order, once |
| RPS batches, GScale | the owner's batch, its history, receipts, stock | start, update, stop, prepare, print, confirm, record, fail | printer, stock | every answered print is listed, stock says what the label says, a retry books nothing again |
| sessions, auth, authz | LMDB sessions, credentials | log in, refresh, revoke | every handler | revoked stays revoked |
| orders, calculations, compiler, catalog, customers, workers, admin | master data | edit | production map | no concurrency of their own |
| telegram, push, sheets, doctor, metrics, backups, MCP, gateway, training | outgoing and operational | notify, observe, forward | external services | outside the core |

`PROJECT.json` lists each with its sources and status. Modelled in full: the
mutation locks, sequence moves, RPS batches. Modelled in their main operations:
queue rules, queue actions, colour trials, whole-order stops, the capacity
check, the live state feed, receipts and stock of labels, tooling.

## 3. What is hard here

- *Check to commit.* A request reads under the guard of its process and
  commits later; another process may commit in between. Start and Resume carry
  the states and the sequence they saw; Pause and Complete carry the row; a
  decision carries a revision; a stop carries a record checked by a transition
  table. Beginning a trial rechecks the queue, but not the stop record.
- *Checks before the guard.* The handler of a queue action checks the colour
  trial before it waits for the guard.
- *Chains of transactions.* A stop with passed trials and a release are
  several transactions; a crash, a dropped connection or a refusal in the
  middle leaves an intermediate state that the next request starts from.
- *Settling.* A stop of a whole order is settled by whichever transaction
  stops its last machine, a worker's or the administrator's.
- *Late clients.* Decisions arrive on trials that were passed, reopened and
  passed again.
- *Lost answers.* A reordering and a confirmed label are repeated by a client
  that got no answer, when the world has moved on.
- *Announcements.* A commit is announced by its request, which may be dropped,
  and by PostgreSQL, whose notifications are lost while the listener is away;
  either may come first, and both must count once.
- *Look-up to commit.* A start looks its molds up and commits later, while the
  tool store issues, takes back, reworks, packs and archives the same molds.
- *Long operations.* A print checks its batch, prints, draws up a receipt,
  books it and records the print, each a statement of its own; other operations
  on the batch, a failure or a restart come in between.
- *Destructors.* A lease of a lock is dropped in two steps, one of them
  outside the registry lock.

Each of these is a hazard in `PROJECT.json`, at its line, with the property
that would catch it going wrong.

## 4. Modules

| Module | Models | Lines of the repository |
| --- | --- | --- |
| `MutationLocks` | the lock manager | `service_mutation_guard.rs`, guards of `service.rs` |
| `QueueRules` | pure rules on lists and states, no variables | `queue/state.rs`, `actions.rs`, `sequence.rs`, `support.rs` |
| `ProductionQueue` | requests, queues, sessions, trials, stops | `queue/execution.rs`, `print_preflight.rs` (core and db), `order_control/*`, `postgres_production_map.rs`, `capacity/service.rs`, `temporary_pause.rs` (witness check), `sequence_move.rs` |
| `ReorderContract` | what reordering promises (abstract) | `sequence_move.rs` (core) |
| `SequenceMove` | reordering, receipts, outbox, replay | `sequence_move.rs` (core and db) |
| `SequenceEdit` | the edit script between two lists | `sequence_delta.rs` |
| `LiveState` | commits, announcements, snapshot cache, feed, sockets | `service.rs`, `realtime.rs`, `live_delta.rs`, `live_feed.rs`, `live_hub.rs` |
| `Weighing` | batches, labels, receipts, stock | `rps_batch/*`, `postgres_rps_batch.rs`, `postgres_gscale_receipt*`, `crates/mini_rs_gscale_domain`, `handlers/rps_batch.rs` |
| `Tooling` | molds, the tool store, mold ownership of orders | `core/qolip`, `db/postgres_qolip`, `postgres_production_map/qolip`, `queue_action_*`, migrations 0165 and 0174 |
| `MutationLocksProofs`, `QueueRulesProofs`, `ProductionQueueProofs`, `SequenceMoveProofs`, `SequenceEditProofs`, `LiveStateProofs`, `WeighingProofs`, `ToolingProofs` | proofs | |
| `MCProductionQueue`, `MCSequenceMove`, `MCWeighing`, `MCTooling` | plants, sets and symmetry for TLC | |

`SequenceMove` uses `QueueRules` and instantiates `ReorderContract`;
`ProductionQueue` uses `QueueRules` and states what it needs of the locks
(`ScopedGuard`, `ExclusiveGuard`); `Tooling` takes from `ProductionQueue` what it
shows of one machine, that its queue actions come one after the other.

### MutationLocks

`pc` is where a request is: `queued` at the barrier, `entered`, `locking` its
mutexes in key order, `held`, then the destructors in field order
(`unlocking`, `retiring`). `registry` is the map of weak references, `lease`
the strong ones. `DropLease` is the body of `Drop::drop` under the registry
lock, `DropReference` the decrement that follows outside it. `CancelQueued`
and `CancelLocking` drop the future at an await. Tokio's locks are external:
first come, first served.

### ProductionQueue

| Variable | Table or object |
| --- | --- |
| `queue[a][o]` | `mini_queue_states`; `"none"` is an absent row, read as pending (`Parsed`) |
| `session[a][o]` | status of the order's latest run session on the apparatus |
| `seq[a]` | `mini_queue_sequences` |
| `hold[h]` | `mini_print_preflight_holds` |
| `control[o]` | `mini_order_control_states` with its freeze request and early close |
| `pc[r]`, `write[r]` | a request and the write it has prepared, witnesses included |

A worker's action is `Prepare…` (guard, reads, checks) and `Commit` (the
transaction: all tables of `apply_queue_progress_tx` in one step, or a refusal
that changes nothing). `AskStart` and `AskDecision` are the part before the
guard. `StopBegin` reads and decides; `StopDirect` is a stop of one
transaction, `StopPublish`, `StopTrial`, `StopTrialsDone`, `StopStage`,
`StopSettle` are the chain of `request_order_stop`. `RestoreBegin`,
`RestoreOne`, `RestoreDone` are the release. `UpgradeToClose` and
`MoveSequence` are single transactions under the exclusive guard. `Crash(r)`
cuts a request short between two steps: a dead process or a dropped handler.

`ScopedGuard` and `ExclusiveGuard` state what `MutationLocks` guarantees: of
the requests of one process, those on the same apparatus exclude each other and
an exclusive one is alone (`Exclusion`, proved there for any number of
requests). Requests of different processes ignore each other's guards.

### SequenceMove, ReorderContract, SequenceEdit

`Ask` is the drag on a screen: the command carries the version the screen shows
and a key. `ReadCandidates` is the first read of the store, which decides the
locks to take; `Commit` is the transaction, in which a receipt of the same
command is the answer, a stale version or a changed set of orders to lock is a
conflict (`Conflict`: tried again, `MaxAttempts` times), and otherwise sequence,
revision, outbox event and receipt are written together. `Deliver` and `Lose`
are what becomes of the answer, `Look` reads the whole queue, `Replay` follows
the outbox. `Save`, `PutMap`, `DeleteMap`, `QueueStep`, `Freeze` and `Release`
are the others who change the queue. The SHA-256 version is the value it
digests.

`ReorderContract` is the promise: a command takes effect at most once, on the
queue its author saw, moves one order and nothing else, and its author is told
that effect or nothing. `SequenceMove` implements it with `line <- Line`,
`done <- receipts`, `told <- answer` (property `MoveContract`).

`SequenceEdit` is the loop that describes a new list as copies of the old one
and literals, one round per step, checked against its meaning (`Rebuild`).

### LiveState

| Variable | Object |
| --- | --- |
| `db` | what is committed: a queue bit and a history bit |
| `unpublished` | commits whose request has yet to announce them |
| `pg`, `listener`, `batch` | notifications, the listener's connection, `Pending` |
| `registry` | `CommittedLiveEvents` |
| `revision`, `cache`, `builder` | `ProductionSnapshotCache`, its snapshot, `rebuild_lock` |
| `feed`, `log`, `owner` | `StateFeedData`: view, history ring, lock |
| `inbox`, `pc`, `task`, `event`, `read`, `reads` | a socket's receiver and loop |
| `client` | what the client shows |

`Commit` writes; `PublishHere` and `DropHere` are the request announcing it or
dying first; `Receive`, `PublishBatch`, `LoseConnection`, `Listen`,
`InvalidateAfterGap` are the listener; `Fetch`, `Connect`, `Wake`, `Heartbeat`,
`Refresh`, `ReadHistory`, `ReadSnapshot`, `Store`, `Publish`, `Again`, `Answer`,
`Deliver`, `Resync` and `Hangup` the socket and its client. `Later` is the part
of the history beyond a revision, `Recoverable` the condition of
`LiveHistory::recover` (an unbroken chain to the feed's revision, or none at
all), `Patched` what a client shows after the chain: of each part the last delta
that carries it.

### Weighing

`current` is the owner's row of `mini_rps_batches`, `history` and `identities`
the tables beside it. `WriteLock` is the lifecycle lock held for writing;
an operation holds it for reading while `op[p].pc # "idle"`. `Prepare` and
`Confirm` are the client's print, `AskDriver` and `DriverPrints` the server's;
`ReadDraft` to `Submit` are the statements of
`record_confirmed_material_receipt`, `Record` and `FailBatch` the end.
`DirectPrint` to `TaskFails` are the print without a batch and the task that
records it. `Drop`, `StoreFails`, `DriverFails` and `Restart` are the faults.
`answered` and `shared` are history variables.

### Tooling

| Variable | Table |
| --- | --- |
| `shelf[m]` | quantity in `mini_qolip_locations` |
| `issued[m][w]` | open rows of `mini_qolip_checkouts` |
| `away`, `stored[m]`, `pallet` | open reworks; pallet membership and archive entries; the pallet |
| `session[o]` | the order's run session: status, worker, `qolip_lock_owner`, why the molds were released |
| `first` | the orders at the head of their machine's queue |
| `req[o]` | the queue action under way on the order |

`Issue`, `Return`, `Send`, `Receive`, `Pack` … `Restore` are the commands of the
tool store, one transaction each. A start or resume is `Prepare` (the look-up,
`prepare_qolips_for_bosma_start`), `Read` (the session as it will be written)
and `Commit` (all checks and writes of the transaction that concern molds);
`Abandon` is a refusal or a dropped request. `Pause`, `Complete` and `Freeze` are
the worker's, `ReadFreeze`, `CommitFreeze` and `Unfreeze` the administrator's.
`Overtaken` and `ComesFirst` are what other work does to the head of the queue,
which decides whether a paused order's molds may be taken back.

## 5. Runs

Every run finishes within about three minutes on two workers.

| Run | Instance | Distinct states | Shows |
| --- | --- | --- | --- |
| `locks` | 2 requests, 3 resources, fairness | 0.15 M | `Exclusion`, `NoSplitMutex` through cancellation at every await; every queued request is served or cancelled |
| `queue_shift` | 1 request at a time, 2 orders, 1 free-pick printing machine with one slot, 1 trial, 1 crash | 0.5 M | `StopHasAWayOut`, `WorkCanResume`, `CapacityRespected`, `TrialMatchesQueue`, tail and barrier rules over whole shifts |
| `queue_servers` | 2 processes, 2 orders, 1 strict machine | 1.0 M | `OneOccupant`, `WorkMatchesQueue`, `ClosedStaysOut`, `StoppedMachineIsQuiet`, `NoWorkAfterStop` |
| `queue_trials` | 2 requests of one process, 1 order, a printing and a plain machine, 1 trial, 1 crash | 0.4 M | `StoppedIsQuiet`, `TrialRowIsDecidable`, `TrialsAreDecidedOnce` |
| `sequence_retry` | 2 administrators, 2 orders, 3 attempts, 1 lost answer | 0.3 M | the contract, a gapless outbox, replay shows the version |
| `sequence_edit` | all pairs of lists of up to 4 of 4 identifiers and a blank | 1.3 M | the edit rebuilds the list; when it is given up |
| `live_events` | 2 commits, 1 gap of the listener, 1 socket, registry of 1 | 4.6 M | nothing is lost on the way to the feed |
| `live_views` | 2 sockets, 1 commit, 1 dropped request, fairness | 0.1 M | a revision names one snapshot; settled screens show the committed queue; the feed catches up |
| `weighing` | 2 batches, 2 labels, 2 operations, 2 kinds of goods | 1.5 M | the batch of an operation, listed prints, stock and label, no second booking |
| `tooling` | 2 orders sharing one of 2 molds, 2 workers, a strict and a free-pick machine | 0.5 M | owners, places and conservation of molds; resumption and running work |
| `queue_trial_race`, `live_stale` | as small as the counterexample needs | | findings, section 6 |

*Bounds.* Two orders are enough for every property that relates orders (each
speaks of a pair), two machines for a stop that spans stages, two requests for
a race of two. `MaxStops` of 1 allows a full cycle of stop, release and
resumption; `MaxRevision` of 1 or 2 allows a trial to be decided, reopened and
decided again; `MaxCrashes` bounds cut-short requests. Three mutexes suffice in
`MutationLocks`: a key needs one allocation per lease that can be live at once.
`SequenceMove` bounds the changes of others, enough for a conflict on every
attempt. `LiveState` runs with a registry and a ring of one or two entries
instead of 2048 and 64, so that forgetting and pruning happen at once.
`Weighing` bounds only the updates of a batch. `Tooling` has no bound beside its
sets: its states are finite because molds are conserved. What depends on more
processes, orders, machines, molds or workers is proved where section 7 says so.

*Symmetry.* Requests are interchangeable: the specification only compares
`Server[q] = Server[r]`, which is all or none of the pairs in every instance.
Hold identities, administrators, batches, goods, operations and workers are
interchangeable in the instances that permute them. Orders and apparatuses are
not permuted (orders have an arrival, machines have policies). The runs with
liveness use no symmetry.

*Deadlock* is checked for the locks, `Weighing` and `Tooling`. Elsewhere the
bounds end the behaviour: with `MaxStops` used up and every order completed or
closed the plant may stop; the same holds for the bounded changes of
`SequenceMove`, the commits of `LiveState` and the loop of `SequenceEdit`.

*Fairness.* Two properties need it. `Served` (`locks`): weak fairness of each
request's own steps. Tokio wakes waiters of its locks in order, destructors run,
and a holder finishes its work since every await inside a guard is a database
call with a result or an error; nobody is obliged to send or to cancel a
request. `FeedCatchesUp` (`live_views`): weak fairness of the listener task, of
the request that committed, and of each socket's task, which Tokio polls when
they are woken; commits, disconnections, dropped requests and heartbeats need
not happen.

*Per process or for all.* `ReleasedGoToTheTail`, `StopHasAWayOut`,
`WorkCanResume` and `StoppedIsQuiet` rely on the guard and are checked for one
process; the first and the last are proved for one. Across processes they fail:
a release computes the tail, a stop its evidence, from reads the other process
may invalidate, and `put_with_event` does not read the stop record again.
Where there are colour trials, `StopHasAWayOut`, `WorkCanResume` and
`TrialMatchesQueue` moreover want requests one at a time: a start that passed
the handler's check before a trial began breaks the last (section 6). Without
colour trials the first two hold for concurrent requests of one process. Under
these conditions all three are proved.
`OneOccupant`, `CapacityRespected`,
`NoWorkAfterStop`, `WorkMatchesQueue`, `TrialsAreDecidedOnce`,
`StoppedMachineIsQuiet`, `ClosedStaysOut`, `TrialRowIsDecidable`,
`NobodyOvertakesRunningWork`, the contract of `SequenceMove` and the properties
of `Tooling` hold however many processes there are. `LiveState` is one process
among others, whose commits reach it through PostgreSQL. `Weighing` is one
process: its two locks live there.

`StopHasAWayOut` also needs a chain that is not cut short on several machines:
an early close of an order with a passed trial that dies between publishing the
request and settling it can leave a request that no worker can acknowledge and
that, being a close, cannot be withdrawn.

## 6. Findings

Shown by a run:

- `queue_trial_race`: a Start checked before the guard commits in the middle
  of a colour trial that began while it waited; the trial and an active run
  session of the same order coexist, and the decision on the trial later
  overwrites the row of the running work.
- `live_stale`: the history lists of a view (completed orders, completion
  requests and decisions) are read for each view, the snapshot is cached per
  revision. A client reads at revision *r*; a commit lands, not yet announced;
  the feed is built at the same *r* with the new lists; the deltas that follow
  leave the lists out, since the feed had them, and the client keeps the old
  ones at the newest revision. The queue itself is safe on every screen
  (`SettledClientShowsQueue`), with the exception below.

Met while modelling, each seen in a trace of TLC:

- A colour trial on a machine outside the view moves the feed to the next
  revision without reading anything (`preflight_outside_view`). If a commit that concerns
  the view has landed and is not announced yet, a client that reads over HTTP at
  that revision has the new queue, the feed the old one; should the queue then
  change back, the next delta leaves it out and that client keeps what it read.
  A further change heals it. The proof of `ScreensShowTheQueue` led to this case;
  it is the hypothesis there.
- Freezing an order paused on two machines (`order_control/service.rs:690`)
  picks no session: `prepare_direct_freeze_queue_write` freezes the first paused
  row without it. The release makes that row pending, but finds no frozen
  session to requeue; that machine can then neither resume nor start the order.
- A release of an order stopped on several machines restores one machine after
  the other, and a stop half way can be withdrawn: `restore_one_frozen_queue`
  sends the order to the tail of a queue, also where it never stopped and still
  runs. No other step puts waiting work ahead of running work; an attempt to
  prove that no step at all does came upon this one.
  `NobodyOvertakesRunningWork` exempts an order's own release (`IsReleased`).
- Two leases of one key dropped at the same time on two threads both see a
  strong count of two; neither removes the registry's entry
  (`service_mutation_guard.rs`). The entry stays until the key is used again:
  a leak, without effect on exclusion.
- Two overlapping confirmations of one EPC (`postgres_gscale_receipt_store.rs:60`):
  both read neither receipt nor stock; the first draws up, submits and records;
  the roll is put to use; the second one's upsert makes the receipt a draft
  again and its submission makes the roll available. `BookedOnce` excludes codes
  two operations worked on at once.
- The direct print answers success when the label came out, though the task
  that records its receipt may have failed; only the log tells.
- Freezing an order whose molds the warehouse took back: order *p* is paused,
  not at the head of its queue; the warehouse takes one of its molds back, which
  releases all of them; the same worker starts order *o* with the shared mold;
  an administrator freezes *p*. `put_order_run_session_tx` asks only whether an
  earlier *freeze* released the molds, so the checkout of *o* is closed and the
  mold is on the shelf while *o* prints. The comment there says "A repeated
  freeze must not return a later checkout of the same molds"; this is the case
  of a return in its place. `RunningOrderKeepsItsMolds` names it as its one
  exception (`FreezesReturned`), and the proof shows there is no other.
- A start finds a mold issued to its worker, the warehouse takes it back, the
  start commits: the order runs and owns a mold that is on the shelf. A resume
  checks this again in its transaction (`validate_reacquired_qolip_checkouts_tx`),
  a start does not.
- An order started by one worker and completed or frozen by another returns the
  second one's checkouts only. The first worker's stay open; the next start by
  a third is refused until the warehouse takes the mold back by hand.

## 7. Proofs

`MutationLocksProofs` proves `TypeOK`, `Exclusion` and `NoSplitMutex` for any
sets of requests, keys and mutexes. The inductive invariant `IInv` adds who is
inside the barrier at each program point (`BarrierInv`), when leases exist and
that only wanted keys are leased (`LeaseInv`), that a held guard is complete
(`LockedInv`) and that a mutex has one guard (`MutexInv`); `Exclusion` then
follows because two holders of a key would, by `NoSplitMutex`, be on the same
mutex. Assumptions: keys and mutexes are natural numbers, zero excluded for
mutexes (`KeysAssumption`, `MutexesAssumption`).

`QueueRulesProofs` holds the facts about lists the other proofs need, for lists
of any length: what `Keep` and `Without` return, where an element stands, that
the nearest allowed slot is allowed and keeps running work in its place
(`NearestIsAllowed`, about `nearest_allowed_sequence`), that the executable
sequence lists every visible order that is not stopped, once
(`EffectiveElements`). `Keep` and `Without` are recursive functions for the sake
of these proofs: the provers do not know `SelectSeq`. Induction goes through a
least counterexample (`Smallest`, `SeqInduct`), with the claim as a set.

`ProductionQueueProofs` proves, for any plant and any number of orders,
requests and trials, from `RoutesAssumption`:

| Theorem | Property | Hypothesis |
| --- | --- | --- |
| `SlotGivenOnce` | `CapacityRespected` | |
| `StopIsRespected` | `NoWorkAfterStop` | |
| `DecidedOnce` | `TrialsAreDecidedOnce` | |
| `RecordsAgree` | `WorkMatchesQueue` | |
| `FrozenMachinesRest` | `StoppedMachineIsQuiet` | |
| `TypeCorrect` | `TypeOK` | |
| `ClosedForGood` | `ClosedStaysOut` | |
| `TrialRowsDecidable` | `TrialRowIsDecidable` | |
| `NobodyOvertakes` | `NobodyOvertakesRunningWork` | |
| `OneAtATime` | `OneOccupant` | no colour trials on strict machines |
| `StoppedOrdersRest` | `StoppedIsQuiet` | one process |
| `ReleasedLast` | `ReleasedGoToTheTail` | one process |
| `OneTrialPerMachine` | | |
| `RowsMatchTrials` | `TrialMatchesQueue` | requests one at a time |
| `PlainRunsKeepTheirRows` | | |
| `RunsKeepTheirRows` | | `Serial` |
| `OpenWorkResumes` | `WorkCanResume` | `Serial`, one machine |
| `StopsAreAnswered` | `StopHasAWayOut` | `Serial`, one machine |

`Serial`: requests come one at a time, or one process serves any number of them
and no machine makes colour trials.

The hypotheses are needed, not convenient: a trial may begin on an order that
is being stopped, which the sequence no longer shows, so that another order is
first on the same machine; section 5 says what two processes do,
`queue_trial_race` what two requests do to a trial and its row, and section 6
what a stop does to an order paused on two machines.

The argument has four parts. `Effects`: whatever action is taken, the tables
change in one of few ways (a record saved, work moved by a worker, a machine
stopped, a machine released, a trial begun, a trial decided), each with the
facts its transaction has just rechecked. `Inductive`: the invariant `Inv` says
that tables have a row per key, that trials run on printing machines on orders
that were waiting, and what a request carries between check and commit
(`Carried`): Start and Resume a picture of the queue with no other order in
progress on a finite machine, a decision a revision that is either the trial's,
and then the decision is permitted in its present state, or older (`Fresh`).
Without `Fresh` the theorem on trials is not inductive: the transaction compares
only the revision, not the status. `RowEffect`: only a worker's action puts an
order to work, pauses or completes it. `SafeAlways`: the invariant `Safe` adds
the types, the order each trial is of, and what a record in flight is about
(`Bounds`: a stop that has published its request carries the record of the order
it stops, a decision the trial it looked up); `ClosedStaysOut` and
`TrialRowIsDecidable` are inductive only together with it. Each theorem then
looks at the effects that concern it.

For one process two more invariants say what the guard gives. `Alike`: whoever
stops or releases an order is alone, so a trial about to begin is of an order
nobody has stopped since it was checked. `Orderly`: a frozen row belongs to an
order whose stop is recorded, and what a release found (the frozen machines of
its order) nobody has changed since; without it a release could put an order at
the tail that another request has moved.

That a machine has at most one live trial needs no hypothesis: the transaction
that begins one looks at them all. Under `Serial` `InStep` adds that
the row of a live trial is in trial, that a prepared resume, pause or completion
is never of a row in trial and a stop of one takes the trial with it, and that a
start without a trial found none on its machine. The last is what a second
request breaks. The proof covers any number of machines, the run one. For
concurrent requests of one process without trials the question is what a stop
or a release finds when it commits: `Holders` says that only a request which
holds the guard changes rows, sessions or trials, and `AloneUndisturbed` that,
while one stops or releases an order, no other does, so that it commits on the
rows it read. A second process has a guard of its own, and with it the
hypothesis is needed.

`PlainRunsKeepTheirRows` asks nothing of the requests: on a machine without
colour trials each transaction alone keeps a frozen run with a frozen row and a
released run with a pending one. What it does not say, and what two processes
break, is that a paused run keeps a row from which it can go on.

On it rests `Fitting`: an active run has its row in progress, a frozen one its
row frozen, a requeued one its row pending (any number of machines,
`RunsKeepTheirRows`), and on one machine a paused one its row paused. The writes
that touch a row and not its session are a trial begun, decided or cancelled and
a stop without a session; `LeavesOpen` says what each of them has found of the
session. `WorkCanResume` follows with `Orderly`: a frozen row is of an order
whose stop is recorded. `Answerable` says of every stop that waits that its
machine runs the order, or a colour trial of it, and that the record names that
machine (`WaitsFor`); on one machine it follows from `StopRecord` and `Fitting`
that a stop which waits never needs more than one transaction (`StopsShort`), so
none can be cut short in between. `StopsAreAnswered` proves more than the
property: the worker can act in every state, and also where the administrator
could withdraw the stop.

`SequenceMoveProofs` proves `TypeOK`, `OutboxHasNoHole`, `ReplayShowsTheVersion`
and that `SequenceMove` implements `ReorderContract` (`Implements`: property
`MoveContract`), for any orders, administrators and keys and any bounds on
attempts and revisions. The invariant `IInv` says that no list names an order
twice, that every event of the outbox with an operation turns the list of its
base version into that of its version, that screens show the version they name,
and that a request still waiting has a valid command and no answer. The
refinement is by steps: a commit with a receipt is `Tell`, one without is
`Effect`, where `RemoveAt` of the old and new places gives the same list; a
delivered or lost answer is `Hear`; the others either change the line
(`Elsewhere`) or stutter. Assumptions: the initial list names orders, each once;
`Nothing` is no order, event or receipt; the bounds are positive.

`SequenceEditProofs` proves `EditRebuildsTheList` and `GivesUpOnlyOnBadLists` for
lists of any length over any identifiers (the run stops at `MaxLen`). The
invariant: the operations so far rebuild what the cursor has passed.

`LiveStateProofs` proves, for any number of sockets, commits, losses of the
connection and dropped requests, and any limits of the registry, the receivers
and the history:

| Theorem | Property | Hypothesis |
| --- | --- | --- |
| `NothingGetsLost` | `NothingIsLost` | |
| `OneSnapshotPerRevision` | `SameRevisionSameQueue` | |
| `TypeCorrect` | `TypeOK` | |
| `ScreensShowTheQueue` | `SettledClientShowsQueue` | no colour trials outside the view |

`IInv` says that a
view labelled with the current revision, wherever it is kept (feed, cache, a
reading under way), shows what is committed *or* an announcement of that part is
due (`QueueDue`, `HistoryDue`: somebody still has the commit to announce); that a
colour event one revision beyond the feed leaves the feed's history true
(`EventSound`); that a socket with nothing to read has seen the current feed
(`AwakeSound`); that one builder fills the cache (`SnapshotSound`). `HistoryTyped`
adds the types of the clients and of the history, which never exceeds its limit:
a delta is appended and the oldest dropped in the same step.

`ScreensShowTheQueue` follows a client from the answer it read to the last delta.
Its invariant `ScreensSound` says: the feed has the queue that is cached for its
revision (`FeedCached`) and whoever is about to publish owns its lock (`Owned`);
the history is a chain that ends at the feed, in which a queue no delta carries
is the same before and after (`ChainTo`); a client at the base of a delta has the
queue that holds after any run of deltas silent about it (`Follows`), and at the
feed's revision the feed's queue (`ClientSound`). `Follows` is what makes it
inductive: it is stated for every place of the chain, because a client may skip
deltas without a word and be patched from the middle, and because dropping the
oldest delta (`Suffix`) and appending one (`Longer`) both keep it. `Recovered`
then shows that the last delta with the queue, found by the greatest position,
gives the client the queue of the feed. The hypothesis (`Domestic`: no such
announcement is on its way) is needed; section 6 has the counterexample.

`WeighingProofs` proves the types and all four properties of `Weighing` for any batches
(finitely many), labels, operations and goods: `TypeCorrect` (`TypeOK`),
`KeepsItsBatch` (`OperationKeepsItsBatch`), `PrintsListed`
(`EveryPrintIsListed`), `StockMatches` (`StockMatchesItsLabel`),
`NeverBookedTwice` (`BookedOnce`). `IInv` says that the next batch code is new
(`CodesSound`, counted over the ids in use), that an answered print is listed in
the batch or its history, what draft, receipt and stock of a label may be at each
point of the operation at work on it (`HandlerSound`, `ReceiptSound`,
`StockSound`, `TaskSound`), and that a code not shared has one operation (`Alone`).

`ToolingProofs` proves all six properties of `Tooling` for any molds, orders,
workers and sets, from `ToolingAssumption` (a set of molds per order, a quantity
of 0 or 1 per mold, strict machines among the orders'):

| Theorem | Property |
| --- | --- |
| `TypeCorrect` | `TypeOK` |
| `OneOwnerOnly` | `OneOwner` |
| `OwnedStaysAvailable` | `OwnedIsAvailable` |
| `Conservation` | `MoldsConserved` |
| `ResumptionHasMolds` | `ResumesWithItsMolds` |
| `RunningKeepsMolds` | `RunningOrderKeepsItsMolds` |

The invariants are restated pointwise (`Kept`, `Unshared`, `OwnedIsWritable`)
and strengthened by what holds of a session (`SessionSound`: molds given up are
not owned, a running order has not given them up) and of what a request carries
(`Carried`): a request that read a session whose molds were released by a freeze
reacquires them, the session it will write has its molds unless the warehouse
took them back since, and a freeze under way returns molds only of an order that
owned them or had given them up. Without the second part a resume could write
stale ownership back; the transaction looks only at returns, since no freeze can
come between on the same machine. `SessionEffect` and `RequestEffect` say in
which four ways a step changes a session and in which a request;
`WritableEffect`, `OwnsEffect` and the `Kept` lemmas do the same for molds.

Model-checked only:

- liveness (`Served`, `FeedCatchesUp`) and whatever speaks of `ENABLED`, which
  the prover does not reach;
- `SettledClientShowsQueue` where colour trials of machines outside the view come
  in between: there it does not hold.

## 8. Simplifications

`ProductionQueue`:

- Every order is routed through every apparatus, has one stage on each, and
  sequence rows exist from the start. Whether the previous stage has delivered
  is not a guard: the model allows every order in which stages can be worked.
- Roll numbers, quantities, batches, materials, labels, actors and times are
  left out. DetachRoll is Pause; Merge and RollComplete leave the queue
  untouched. A stage with inputs left is pending again when a roll completes
  (`Reported`), both outcomes are allowed.
- `Closing` allows the completion of any paused roll of a printing machine,
  the code only that of a detached one.
- The trial status Held, written by older versions, is left out. A legacy
  client that sends no revision is one that sends revision 0.
- Reservations in the capacity check, stage-scoped controls, freezing with an
  issue report, temporary pause, re-pause, cancel start, reactivation, transfer
  and replacing a whole sequence are not modelled.
- A read and the transaction that follows it in one step of a stop or release
  chain are one action, as are `UpgradeToClose` and `MoveSequence`; they run
  under the exclusive guard, so only another process could come between.
- Replays of an event already committed return the stored result and change
  nothing; they are not modelled.

`SequenceMove`: one apparatus; the advisory locks make the second read and the
writes one step; that a request ends is the bound on its attempts, part of
`TypeOK`.

`LiveState`: begins after startup with the listener connected; announcing is one
step (registry, revision, wake-up); a client told to resync reads again over
HTTP; worker scopes, time limits, expiry of feeds and the sequence-only delta
are left out.

`Weighing`: one owner and one process; `Goods` stands for item, warehouse and
dimensions; quantities and order assignments are left out; a roll in use and a
consumed one are "used"; the client confirms what it prepared, under the
revision it prepared it in, which covers the item and warehouse a request
repeats; refused requests change nothing. The file store keeps the same rows and
is not modelled apart; `record_late_error` has no caller.

`Tooling`: one set of molds per order and one pallet; the look-ups of one
request are one read; a detached roll is a paused order; an order is frozen
directly when it is paused and by its worker when it runs; the early check
`enforce_qolip_start_boundary` may only refuse, which `Abandon` covers. Transfer
and composition of a product's molds, alternative sets, the replay of a repeated
warehouse request, mileage, cells and label printing are left out.

*Not modelled*, with the reason, in `PROJECT.json`: the largest parts are the
data side of a stage (batches, lineage, quantities, remainders), the pure
translations (map compiler, catalog, formulas, costing), the single-statement
administration of records, and the outgoing integrations. They have no order of
events a model checker could vary; what is worth checking there is arithmetic
over records, which the repository's tests reach.

## 9. Plan

Done: `MutationLocks`, `QueueRules`, `ProductionQueue`, `SequenceMove` with its
contract, `SequenceEdit`, `LiveState`, `Weighing`, `Tooling`; the proofs of
section 7.

Next:

1. Corrections: re-pause, cancel start, reactivation, transfer and temporary
   pause as actions on the tables of `ProductionQueue`; stage-scoped stops.
2. Chat delivery with uploads; sessions; a ledger of raw-material stock.
