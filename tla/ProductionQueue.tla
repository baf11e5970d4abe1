---------------------------- MODULE ProductionQueue ----------------------------
(***************************************************************************)
(* The execution core of the production map: apparatus queues, run         *)
(* sessions, colour-trial holds and whole-order stops, as the requests of  *)
(* one or several server processes change them.                            *)
(*                                                                         *)
(* A request reads and decides under its process's mutation guard (module  *)
(* MutationLocks), then commits one PostgreSQL transaction that rechecks   *)
(* what it read; a stop or a release may be several transactions, and the  *)
(* process may die between two of them.                                    *)
(*                                                                         *)
(* Every order is routed through every apparatus, and has one stage on it. *)
(***************************************************************************)
EXTENDS QueueRules, FiniteSets

CONSTANTS
    Orders, Apparatuses,
    Printing,       \* the apparatuses that may run a colour trial first
    Strict,         \* the apparatuses with the strict-sequence policy
    Finite,         \* the apparatuses whose one capacity slot is enforced
    Arrival,        \* the orders, oldest first
    HoldIds,        \* identities of colour-trial holds
    Requests, Servers, Server,   \* Server[r]: the process that serves r
    MaxRevision,    \* bound: revision of a hold at which clients stop
    MaxStops,       \* bound: stop requests on one order
    MaxCrashes      \* bound: requests cut short between transactions

NoOrder == "no_order"
NoApparatus == "no_apparatus"
NoHold == "no_hold"

ASSUME RoutesAssumption ==
    /\ Printing \subseteq Apparatuses
    /\ Strict \subseteq Apparatuses
    /\ Finite \subseteq Apparatuses
    /\ Arrival \in Seq(Orders) /\ \A o \in Orders : Contains(Arrival, o)
    /\ Server \in [Requests -> Servers]
    /\ MaxRevision \in Nat /\ MaxStops \in Nat /\ MaxCrashes \in Nat
    /\ NoHold \notin HoldIds /\ NoApparatus \notin Apparatuses

VARIABLES
    queue,      \* apparatus -> order -> state      (mini_queue_states)
    session,    \* apparatus -> order -> run status (mini_order_run_sessions)
    seq,        \* apparatus -> saved sequence      (mini_queue_sequences)
    hold,       \* hold id -> colour trial          (mini_print_preflight_holds)
    control,    \* order -> stop record             (mini_order_control_states)
    pc,         \* where each request is
    write,      \* what each request has read and means to write
    stops,      \* order -> stop requests made for it, up to MaxStops
    crashes     \* requests cut short so far, up to MaxCrashes

store == <<queue, session, seq, hold, control>>
vars == <<store, pc, write, stops, crashes>>

SessionStates == {"none", "active", "paused", "requeued", "frozen", "completed"}
HoldStates == {"free", "running", "passed", "failed", "cancelled", "consumed"}

\* A session the one-open-session index counts.
Open(s) == s \in {"active", "paused", "requeued", "frozen"}

NoControl == [state |-> "active", status |-> "none", target |-> NoApparatus,
              bySession |-> FALSE, request |-> 0, close |-> "no"]

NoQueue == [o \in Orders |-> "none"]

NoWrite == [act |-> "none", a |-> NoApparatus, o |-> NoOrder, h |-> NoHold,
            from |-> "none", to |-> "none", rev |-> 0, seen |-> NoQueue,
            line |-> <<>>, ctl |-> NoControl, trials |-> {}, stages |-> {},
            working |-> FALSE]

FreeHold == [status |-> "free", order |-> NoOrder, apparatus |-> NoApparatus,
             previous |-> "none", revision |-> 0]

Init ==
    /\ queue = [a \in Apparatuses |-> NoQueue]
    /\ session = [a \in Apparatuses |-> [o \in Orders |-> "none"]]
    /\ seq = [a \in Apparatuses |-> Arrival]
    /\ hold = [h \in HoldIds |-> FreeHold]
    /\ control = [o \in Orders |-> NoControl]
    /\ pc = [r \in Requests |-> "idle"]
    /\ write = [r \in Requests |-> NoWrite]
    /\ stops = [o \in Orders |-> 0]
    /\ crashes = 0

-----------------------------------------------------------------------------
(* What a request reads.                                                   *)

Live(h) == hold[h].status \in {"running", "passed"}

LiveOn(a) == {h \in HoldIds : Live(h) /\ hold[h].apparatus = a}

\* The trials of an order whose queue row says so.
TrialsOf(o) == {h \in HoldIds : /\ Live(h) /\ hold[h].order = o
                                /\ queue[hold[h].apparatus][o] = "print_preflight"}

FrozenOrders == {o \in Orders : control[o].state = "frozen"}

\* A queue that still lists the orders under a stop.
LineWithStopped(a) == EffectiveSequence(seq[a], Arrival, {})

Line(a) == EffectiveSequence(seq[a], Arrival, FrozenOrders)

SessionsIn(o, S) == {a \in Apparatuses : session[a][o] \in S}

\* Evidence that takes a trial that passed for work in progress.
WorkingAnyTrial(o) ==
    \/ \E a \in Apparatuses : session[a][o] = "active" \/ queue[a][o] = "in_progress"
    \/ \E h \in HoldIds : hold[h].order = o /\ Live(h)

\* order_flow_evidence(..).has_active_work.
Working(o) ==
    \/ \E a \in Apparatuses : session[a][o] = "active" \/ queue[a][o] = "in_progress"
    \/ \E h \in HoldIds : hold[h].order = o /\ hold[h].status = "running"

Started(o) ==
    \E a \in Apparatuses : Parsed(queue[a][o]) # "pending" \/ session[a][o] # "none"

Finished(o) == \A a \in Apparatuses : queue[a][o] = "completed"

\* Capacity left to the sequence policy.
CapacityFreeUnread(a, o) == TRUE

\* ensure_apparatus_execution_capacity: a colour trial takes no slot.
CapacityFree(a, o) ==
    a \in Finite => \A p \in Orders \ {o} :
                        queue[a][p] # "in_progress" /\ session[a][p] # "active"

-----------------------------------------------------------------------------
(* The mutation guard of one process.                                      *)

Holding(r) == pc[r] \notin {"idle", "asked"}

Alone(act) == act \in {"freeze", "stop", "restore"}

OthersOf(r) == {q \in Requests \ {r} : Server[q] = Server[r] /\ Holding(q)}

ScopedGuard(r, a) == \A q \in OthersOf(r) : ~ Alone(write[q].act) /\ write[q].a # a

\* A stop that waits for nobody.
ExclusiveGuardSkipped(r) == TRUE

ExclusiveGuard(r) == OthersOf(r) = {}

Enter(r, at, w) == pc' = [pc EXCEPT ![r] = at] /\ write' = [write EXCEPT ![r] = w]

Leave(r) == Enter(r, "idle", NoWrite)

-----------------------------------------------------------------------------
(* Parts of a transaction.                                                 *)

IsRunning(o, q, s, hd) ==
    \/ \E a \in Apparatuses : s[a][o] = "active" \/ q[a][o] \in ActiveStates
    \/ \E h \in HoldIds : hd[h].order = o /\ hd[h].status = "running"

\* validate_freeze_transition and the status table of save_freeze_request_tx.
TransitionAllowed(old, new) ==
    LET same == old.request \in {0, new.request}
        replay == old.request = new.request
        before == IF replay THEN old.status ELSE "none"
    IN  CASE new.status = "pending" ->
               /\ new.state = "freeze_requested"
               /\ old.state = "active" \/ (replay /\ old.state = "freeze_requested")
               /\ before \in {"none", "pending"}
          [] new.status = "frozen" ->
               /\ new.state = "frozen"
               /\ old.state = "active" \/ same
               /\ before \in {"none", "pending", "frozen"}
          [] new.status = "cancelled" ->
               /\ new.state = "active" /\ replay
               /\ old.state \in {"freeze_requested", "active"}
               /\ before \in {"pending", "cancelled"}
          [] new.status = "unfrozen" ->
               /\ new.state = "active" /\ same
               /\ old.state = "frozen" \/ (replay /\ old.state = "active")
               /\ before \in {"none", "frozen", "unfrozen"}

\* A stop recorded on what the service read, without looking again.
SaveAllowedUnchecked(o, c, q, s, hd) ==
    /\ c.request # 0 => TransitionAllowed(control[o], c)

\* save_order_control_state_tx: nothing of a frozen order may be running.
SaveAllowed(o, c, q, s, hd) ==
    /\ c.state = "frozen" => ~ IsRunning(o, q, s, hd)
    /\ c.request # 0 => TransitionAllowed(control[o], c)

FrozenNow(c) ==
    [c EXCEPT !.state = "frozen", !.status = "frozen",
              !.close = IF @ = "asked" THEN "closed" ELSE @]

\* finalize_global_stop_tx: a request without a target machine is settled by
\* the transaction that stops the last one.
Finalized(o, c, q, s, hd) ==
    IF /\ c.state = "freeze_requested" /\ c.request # 0
       /\ c.target = NoApparatus /\ ~ IsRunning(o, q, s, hd)
    THEN FrozenNow(c) ELSE c

WithoutOrder(sq, o) == [a \in Apparatuses |-> Without(sq[a], o)]

AtTail(sq, o) == [a \in Apparatuses |-> Append(Without(sq[a], o), o)]

\* put_order_control_state with apply_early_close_tx.
PutControl(o, c) ==
    /\ SaveAllowed(o, c, queue, session, hold)
    /\ control' = [control EXCEPT ![o] = c]
    /\ seq' = IF c.close = "closed" THEN WithoutOrder(seq, o) ELSE seq
    /\ UNCHANGED <<queue, session, hold>>

HoldAfter(h, status) ==
    IF h = NoHold THEN hold
    ELSE [hold EXCEPT ![h].status = status, ![h].revision = @ + 1]

\* The writes of apply_queue_progress_tx, in its order.
QueueTx(a, o, to, sess, hd, c, sq) ==
    LET q == [queue EXCEPT ![a][o] = to]
        s == [session EXCEPT ![a][o] = sess]
        final == Finalized(o, c, q, s, hd)
    IN  /\ queue' = q
        /\ session' = s
        /\ hold' = hd
        /\ control' = [control EXCEPT ![o] = final]
        /\ seq' = IF final.close = "closed" THEN WithoutOrder(sq, o) ELSE sq

\* A Freeze write: the stop record is saved in the same transaction.
FreezeAllowed(a, o, sess, hd, c) ==
    /\ control[o].state # "frozen"
    /\ SaveAllowed(o, c, [queue EXCEPT ![a][o] = "frozen"],
                   [session EXCEPT ![a][o] = sess], hd)

FreezeTx(a, o, sess, hd, c) ==
    /\ FreezeAllowed(a, o, sess, hd, c)
    /\ QueueTx(a, o, "frozen", sess, hd, c, WithoutOrder(seq, o))

-----------------------------------------------------------------------------
(* Worker actions: Start, Resume, Pause, Complete, and the Freeze by which *)
(* a worker acknowledges a stop.                                           *)

Command(act, a, o, h) == [NoWrite EXCEPT !.act = act, !.a = a, !.o = o, !.h = h]

\* validate_print_preflight_start.
TrialAllowsStart(a, o, h) ==
    a \in Printing =>
        IF h = NoHold THEN LiveOn(a) = {}
        ELSE /\ hold[h].status = "passed"
             /\ hold[h].order = o /\ hold[h].apparatus = a

\* The HTTP handler asks before it waits for the guard.
AskStart(r, a, o, h) ==
    /\ pc[r] = "idle"
    /\ h # NoHold => a \in Printing
    /\ TrialAllowsStart(a, o, h)
    /\ Enter(r, "asked", Command("start", a, o, h))
    /\ UNCHANGED <<store, stops, crashes>>

\* The request is refused by a check, or its client goes away.
Withdraw(r) ==
    /\ pc[r] = "asked"
    /\ Leave(r)
    /\ UNCHANGED <<store, stops, crashes>>

MayWork(a, o) == control[o].state = "active" /\ Contains(Line(a), o)

\* The witnesses Start and Resume carry into their transaction.
Witnessed(w) == [w EXCEPT !.from = Parsed(queue[w.a][w.o]), !.to = "in_progress",
                          !.seen = queue[w.a], !.line = seq[w.a]]

\* More input rolls may have arrived for a stage already completed: it is
\* entered again as if it were pending.
Reentered(states, o) == [states EXCEPT ![o] = IF @ = "completed" THEN "pending" ELSE @]

PrepareStart(r) ==
    LET a == write[r].a  o == write[r].o
        states == Reentered(queue[a], o)
    IN  /\ pc[r] = "asked" /\ write[r].act = "start"
        /\ ScopedGuard(r, a)
        /\ MayWork(a, o)
        /\ MayMove(Parsed(states[o]), "start")
        /\ session[a][o] # "requeued"
        /\ MayTakeSlot(a \in Strict, Line(a), states, o)
        /\ CapacityFree(a, o)
        /\ Enter(r, "prepared", Witnessed(write[r]))
        /\ UNCHANGED <<store, stops, crashes>>

PrepareResume(r, a, o) ==
    /\ pc[r] = "idle"
    /\ ScopedGuard(r, a)
    /\ MayWork(a, o)
    /\ session[a][o] \in {"paused", "requeued", "frozen"}
    /\ IF session[a][o] = "requeued" /\ Parsed(queue[a][o]) = "pending"
       THEN MayResumeRequeued(a \in Strict, Line(a), queue[a], o)
       ELSE /\ MayMove(Parsed(queue[a][o]), "resume")
            /\ MayTakeSlot(a \in Strict, Line(a), queue[a], o)
    /\ CapacityFree(a, o)
    /\ Enter(r, "prepared", Witnessed(Command("resume", a, o, NoHold)))
    /\ UNCHANGED <<store, stops, crashes>>

\* A printing machine whose last roll was detached is closed without output.
Closing(a, o) == a \in Printing /\ queue[a][o] = "paused" /\ session[a][o] = "paused"

\* A stage with input rolls left is pending again when its roll completes.
Reported(act) ==
    {NextState("in_progress", act)} \union (IF act = "complete" THEN {"pending"} ELSE {})

PrepareReport(r, act, a, o, to) ==
    /\ pc[r] = "idle"
    /\ ScopedGuard(r, a)
    /\ MayWork(a, o)
    /\ MayMove(queue[a][o], act) \/ (act = "complete" /\ Closing(a, o))
    /\ Open(session[a][o])
    /\ Enter(r, "prepared",
             [Command(act, a, o, NoHold) EXCEPT !.from = queue[a][o], !.to = to])
    /\ UNCHANGED <<store, stops, crashes>>

\* The worker stops a machine a pending request waits for.  The last machine
\* of a request without a target freezes the order.
Acknowledged(a, o) ==
    LET c == control[o]
        others == /\ c.target = NoApparatus
                  /\ \/ \E b \in Apparatuses \ {a} : session[b][o] = "active"
                     \/ \E h \in HoldIds : /\ hold[h].status = "running"
                                           /\ hold[h].order = o
                                           /\ hold[h].apparatus # a
    IN  IF others THEN c ELSE FrozenNow(c)

RunningTrial(a, o, h) ==
    hold[h].status = "running" /\ hold[h].order = o /\ hold[h].apparatus = a

MayAcknowledge(a, o) ==
    LET c == control[o]
    IN  /\ c.state = "freeze_requested" /\ c.status = "pending"
        /\ c.target \in {NoApparatus, a}
        /\ Contains(Line(a), o)
        /\ \/ /\ queue[a][o] = "print_preflight"
              /\ \E h \in HoldIds : RunningTrial(a, o, h)
           \/ /\ queue[a][o] = "in_progress"
              /\ Open(session[a][o])
              /\ c.target = NoApparatus \/ c.bySession

PrepareFreeze(r, a, o, h) ==
    /\ pc[r] = "idle"
    /\ ExclusiveGuard(r)
    /\ MayAcknowledge(a, o)
    /\ IF queue[a][o] = "print_preflight" THEN h \in HoldIds /\ RunningTrial(a, o, h)
                                          ELSE h = NoHold
    /\ Enter(r, "prepared", [Command("freeze", a, o, h) EXCEPT
                                !.from = queue[a][o], !.to = "frozen",
                                !.ctl = Acknowledged(a, o)])
    /\ UNCHANGED <<store, stops, crashes>>

QueueActs == {"start", "resume", "pause", "complete", "freeze"}

\* A finished roll that keeps its session open.
SessionAfterKept(w) ==
    CASE w.act \in {"start", "resume", "complete"} -> "active"
      [] w.act = "pause" -> "paused"
      [] OTHER -> IF w.h = NoHold THEN "frozen" ELSE session[w.a][w.o]

SessionAfter(w) ==
    CASE w.act \in {"start", "resume"} -> "active"
      [] w.act = "pause" -> "paused"
      [] w.act = "complete" -> "completed"
      [] OTHER -> IF w.h = NoHold THEN "frozen" ELSE session[w.a][w.o]

HoldsAfter(w) == HoldAfter(w.h, IF w.act = "start" THEN "consumed" ELSE "cancelled")

\* A commit that takes a requested stop for one that does not bind yet.
ControlsAllowStale(w) == control[w.o].state # "frozen"

\* validate_execution_controls_tx.
ControlsAllow(w) ==
    \/ control[w.o].state = "active"
    \/ control[w.o].state = "freeze_requested" /\ w.act = "freeze"

\* A commit that checks only the order's own row.
WitnessHoldsRowOnly(w) == Parsed(queue[w.a][w.o]) = w.from

\* validate_queue_action_event_transition_tx and validate_write_tx.
WitnessHolds(w) ==
    /\ Parsed(queue[w.a][w.o]) = w.from
    /\ w.act \in {"start", "resume"} => queue[w.a] = w.seen /\ seq[w.a] = w.line

\* A Start that uses up a trial whatever its result.
HoldUsableLive(w) ==
    w.h # NoHold => Live(w.h) /\ hold[w.h].order = w.o /\ hold[w.h].apparatus = w.a

\* consume_print_preflight_hold_tx, cancel_print_preflight_hold_tx.
HoldUsable(w) ==
    w.h # NoHold =>
        /\ IF w.act = "start" THEN hold[w.h].status = "passed" ELSE Live(w.h)
        /\ hold[w.h].order = w.o /\ hold[w.h].apparatus = w.a

CommitAllowed(w) ==
    /\ ControlsAllow(w)
    /\ HoldUsable(w)
    /\ WitnessHolds(w)
    /\ w.act = "start" => ~ Open(session[w.a][w.o])
    /\ w.act = "complete" /\ w.from = "paused" => session[w.a][w.o] = "paused"
    /\ w.act = "freeze" => FreezeAllowed(w.a, w.o, SessionAfter(w), HoldsAfter(w), w.ctl)

Commit(r) ==
    LET w == write[r]
    IN  /\ pc[r] = "prepared" /\ w.act \in QueueActs
        /\ IF CommitAllowed(w)
           THEN IF w.act = "freeze"
                THEN FreezeTx(w.a, w.o, SessionAfter(w), HoldsAfter(w), w.ctl)
                ELSE QueueTx(w.a, w.o, w.to, SessionAfter(w), HoldsAfter(w),
                             control[w.o], seq)
           ELSE UNCHANGED store
        /\ Leave(r)
        /\ UNCHANGED <<stops, crashes>>

-----------------------------------------------------------------------------
(* Colour trials.                                                          *)

\* begin_print_preflight, with print_preflight_allowed.
PrepareBegin(r, a, o, h) ==
    /\ pc[r] = "idle"
    /\ ScopedGuard(r, a)
    /\ a \in Printing
    /\ hold[h].status = "free"
    /\ LiveOn(a) = {}
    /\ MayWork(a, o)
    /\ Parsed(queue[a][o]) = "pending" /\ session[a][o] # "requeued"
    /\ MayTakeSlot(a \in Strict, Line(a), queue[a], o)
    /\ Enter(r, "prepared", [Command("begin", a, o, h) EXCEPT !.from = queue[a][o]])
    /\ UNCHANGED <<store, stops, crashes>>

\* put_with_event: order controls are not read again.
BeginAllowed(w) ==
    /\ \A p \in Orders : queue[w.a][p] \notin ActiveStates
    /\ queue[w.a][w.o] = w.from
    /\ hold[w.h].status = "free"
    /\ LiveOn(w.a) = {}

CommitBegin(r) ==
    LET w == write[r]
    IN  /\ pc[r] = "prepared" /\ w.act = "begin"
        /\ IF BeginAllowed(w)
           THEN /\ hold' = [hold EXCEPT ![w.h] =
                              [status |-> "running", order |-> w.o, apparatus |-> w.a,
                               previous |-> w.from, revision |-> 0]]
                /\ queue' = [queue EXCEPT ![w.a][w.o] = "print_preflight"]
                /\ UNCHANGED <<session, seq, control>>
           ELSE UNCHANGED store
        /\ Leave(r)
        /\ UNCHANGED <<stops, crashes>>

Decisions == {<<"running", "passed">>, <<"running", "failed">>,
              <<"running", "cancelled">>, <<"passed", "running">>}

\* A client decides on the revision of the trial it has on its screen.
AskDecision(r, h, to) ==
    /\ pc[r] = "idle"
    /\ Live(h) /\ hold[h].revision < MaxRevision
    /\ <<hold[h].status, to>> \in Decisions
    /\ Enter(r, "asked", [Command("decide", hold[h].apparatus, hold[h].order, h)
                            EXCEPT !.to = to, !.rev = hold[h].revision])
    /\ UNCHANGED <<store, stops, crashes>>

\* advance_print_preflight_at_revision.
PrepareDecision(r) ==
    LET w == write[r]
    IN  /\ pc[r] = "asked" /\ w.act = "decide"
        /\ ScopedGuard(r, w.a)
        /\ hold[w.h].revision = w.rev
        /\ Live(w.h)
        /\ control[w.o].state = "active"
        /\ <<hold[w.h].status, w.to>> \in Decisions
        /\ Enter(r, "prepared", w)
        /\ UNCHANGED <<store, stops, crashes>>

\* update_with_event_checked; only a reopening looks at queue and control.
DecisionAllowed(w) ==
    /\ Live(w.h) /\ hold[w.h].revision = w.rev
    /\ w.to = "running" => /\ hold[w.h].status = "passed"
                           /\ queue[w.a][w.o] = "print_preflight"
                           /\ control[w.o].state = "active"

\* A rejected trial that keeps its queue row.
QueueAfterDecisionKept(w) == "print_preflight"

\* The trial's own status written into its queue row.
QueueAfterDecisionRaw(w) == w.to

\* persist_queue_status.
QueueAfterDecision(w) ==
    IF w.to \in {"running", "passed"} THEN "print_preflight"
    ELSE IF hold[w.h].previous # "none" THEN hold[w.h].previous
    ELSE IF queue[w.a][w.o] = "print_preflight" THEN "none" ELSE queue[w.a][w.o]

CommitDecision(r) ==
    LET w == write[r]
    IN  /\ pc[r] = "prepared" /\ w.act = "decide"
        /\ IF DecisionAllowed(w)
           THEN /\ hold' = HoldAfter(w.h, w.to)
                /\ queue' = [queue EXCEPT ![w.a][w.o] = QueueAfterDecision(w)]
                /\ UNCHANGED <<session, seq, control>>
           ELSE UNCHANGED store
        /\ Leave(r)
        /\ UNCHANGED <<stops, crashes>>

-----------------------------------------------------------------------------
(* Stopping an order.                                                      *)

The(S) == CHOOSE x \in S : TRUE

\* new_freeze_request_id.
FreshRequest(o) == stops[o] + 1

\* request_order_stop: the record decided from the evidence read.  asking is
\* TRUE for an early close.
StopRecord(o, asking) ==
    LET active == SessionsIn(o, {"active"})
        paused == SessionsIn(o, {"paused", "requeued"})
        trials == TrialsOf(o)
        passed == {h \in trials : hold[h].status = "passed"}
        waits  == \/ Working(o)
                  \/ passed # {} /\ (Cardinality(trials) > 1 \/ paused # {})
        bySession == IF waits THEN Cardinality(active) = 1 /\ trials = {}
                              ELSE Cardinality(paused) = 1
        byTrial == /\ ~ bySession /\ (waits => active = {})
                   /\ Cardinality(trials) = 1
    IN  [state |-> IF waits THEN "freeze_requested" ELSE "frozen",
         status |-> IF waits THEN "pending" ELSE "frozen",
         target |-> IF bySession THEN The(IF waits THEN active ELSE paused)
                    ELSE IF byTrial THEN hold[The(trials)].apparatus ELSE NoApparatus,
         bySession |-> bySession,
         request |-> IF asking /\ ~ Started(o) THEN 0 ELSE FreshRequest(o),
         close |-> IF ~ asking THEN "no" ELSE IF waits THEN "asked" ELSE "closed"]

\* Passed trials have no running roll: a waiting stop takes them down itself,
\* in transactions of its own; every other stop is one transaction.
StopBegin(r, o, asking) ==
    LET rec == StopRecord(o, asking)
        passed == {h \in TrialsOf(o) : hold[h].status = "passed"}
        staged == rec.state = "freeze_requested" /\ passed # {}
    IN  /\ pc[r] = "idle"
        /\ ExclusiveGuard(r)
        /\ control[o].state = "active" /\ control[o].close = "no"
        /\ stops[o] < MaxStops /\ stops' = [stops EXCEPT ![o] = @ + 1]
        /\ ~ Finished(o)
        /\ \A a \in Apparatuses : queue[a][o] # "frozen"
        /\ rec.state = "freeze_requested" =>
              SessionsIn(o, {"active"}) # {} \/ TrialsOf(o) # {}
        /\ Enter(r, IF staged THEN "publish" ELSE "direct",
                 [Command("stop", NoApparatus, o,
                          IF ~ rec.bySession /\ rec.target # NoApparatus
                          THEN The(TrialsOf(o)) ELSE NoHold)
                    EXCEPT !.ctl = rec, !.trials = passed, !.working = Working(o),
                           !.stages = SessionsIn(o, {"paused", "requeued"})])
        /\ UNCHANGED <<store, crashes>>

\* prepare_direct_freeze_queue_write: what an administrator may stop alone.
\* paused, trial: the session was paused, the trial had passed, when the
\* request read them.  An absent row is taken for a paused one.
Stoppable(a, o, paused, trial) ==
    \/ queue[a][o] \in {"paused", "frozen", "none"}
    \/ queue[a][o] = "print_preflight" /\ trial
    \/ queue[a][o] = "pending" /\ paused

\* The transaction looks at the row and at the trial it cancels again.
StopAllowed(a, o, h, sess, c) ==
    /\ queue[a][o] # "none"
    /\ h # NoHold => Live(h)
    /\ FreezeAllowed(a, o, sess, HoldAfter(h, "cancelled"), c)

\* One transaction: the stopped machine, if there is one to stop, and the
\* record.  Without a target the first paused machine is taken.
StopDirect(r) ==
    LET w == write[r]
        paused == w.ctl.bySession /\ w.ctl.state = "frozen"
        machines == {a \in IF w.ctl.target # NoApparatus THEN {w.ctl.target}
                           ELSE {b \in Apparatuses : queue[b][w.o] = "paused"} :
                        Stoppable(a, w.o, paused, w.h \in w.trials)}
        after(a) == IF w.ctl.bySession THEN "frozen" ELSE session[a][w.o]
    IN  /\ pc[r] = "direct"
        /\ \/ \E a \in machines :
                 /\ StopAllowed(a, w.o, w.h, after(a), w.ctl)
                 /\ FreezeTx(a, w.o, after(a), HoldAfter(w.h, "cancelled"), w.ctl)
           \/ machines = {} /\ PutControl(w.o, w.ctl)
           \/ /\ \A a \in machines : ~ StopAllowed(a, w.o, w.h, after(a), w.ctl)
              /\ machines = {} => ~ SaveAllowed(w.o, w.ctl, queue, session, hold)
              /\ UNCHANGED store
        /\ Leave(r)
        /\ UNCHANGED <<stops, crashes>>

\* The request is recorded first: it blocks every new start.
StopPublish(r) ==
    LET w == write[r]
    IN  /\ pc[r] = "publish"
        /\ \/ PutControl(w.o, w.ctl) /\ Enter(r, "trials", w)
           \/ /\ ~ SaveAllowed(w.o, w.ctl, queue, session, hold)
              /\ Leave(r) /\ UNCHANGED store
        /\ UNCHANGED <<stops, crashes>>

StopTrial(r, h) ==
    LET w == write[r]
        a == hold[h].apparatus
        may == /\ Stoppable(a, w.o, FALSE, TRUE)
               /\ StopAllowed(a, w.o, h, session[a][w.o], w.ctl)
    IN  /\ pc[r] = "trials" /\ h \in w.trials
        /\ \/ /\ may
              /\ FreezeTx(a, w.o, session[a][w.o], HoldAfter(h, "cancelled"), w.ctl)
              /\ Enter(r, "trials", [w EXCEPT !.trials = @ \ {h}])
           \/ ~ may /\ Leave(r) /\ UNCHANGED store
        /\ UNCHANGED <<stops, crashes>>

\* The last trial may have settled the request already.
StopTrialsDone(r) ==
    /\ pc[r] = "trials" /\ write[r].trials = {}
    /\ IF control[write[r].o].state = "frozen" THEN Leave(r)
                                                ELSE Enter(r, "stages", write[r])
    /\ UNCHANGED <<store, stops, crashes>>

StopStage(r, a) ==
    LET w == write[r]
        may == StopAllowed(a, w.o, NoHold, "frozen", w.ctl)
        next == [w EXCEPT !.stages = @ \ {a}]
    IN  /\ pc[r] = "stages" /\ a \in w.stages
        /\ \/ /\ Stoppable(a, w.o, TRUE, FALSE) /\ may
              /\ FreezeTx(a, w.o, "frozen", hold, w.ctl) /\ Enter(r, "stages", next)
           \/ ~ Stoppable(a, w.o, TRUE, FALSE) /\ Enter(r, "stages", next) /\ UNCHANGED store
           \/ Stoppable(a, w.o, TRUE, FALSE) /\ ~ may /\ Leave(r) /\ UNCHANGED store
        /\ UNCHANGED <<stops, crashes>>

StopSettle(r) ==
    LET w == write[r]
    IN  /\ pc[r] = "stages" /\ w.stages = {}
        /\ IF ~ w.working /\ SaveAllowed(w.o, FrozenNow(w.ctl), queue, session, hold)
           THEN PutControl(w.o, FrozenNow(w.ctl)) ELSE UNCHANGED store
        /\ Leave(r)
        /\ UNCHANGED <<stops, crashes>>

\* request_order_early_close on an order already being stopped.
UpgradeToClose(r, o) ==
    LET c == control[o]
    IN  /\ pc[r] = "idle"
        /\ ExclusiveGuard(r)
        /\ c.state # "active" /\ c.close = "no"
        /\ ~ Finished(o)
        /\ PutControl(o, [c EXCEPT !.close = IF c.state = "frozen" THEN "closed" ELSE "asked"])
        /\ UNCHANGED <<pc, write, stops, crashes>>

-----------------------------------------------------------------------------
(* Releasing an order: cancelling a request, unfreezing.                   *)

\* transition_order_control: a closed order stays closed.
RestoreBegin(r, o) ==
    LET c == control[o]
    IN  /\ pc[r] = "idle"
        /\ ExclusiveGuard(r)
        /\ c.state # "active" /\ c.close = "no"
        /\ Enter(r, "restore",
                 [Command("restore", NoApparatus, o, NoHold) EXCEPT
                    !.stages = {a \in Apparatuses :
                                  session[a][o] = "frozen" \/ queue[a][o] = "frozen"},
                    !.ctl = [c EXCEPT !.state = "active", !.status =
                               IF c.state = "frozen" THEN "unfrozen" ELSE "cancelled"]])
        /\ UNCHANGED <<store, stops, crashes>>

\* A released order that goes back to the head of its queues.
RestoredSequenceHead(sq, o) == [a \in Apparatuses |-> <<o>> \o Without(sq[a], o)]

RestoredSequence(sq, o) == AtTail(sq, o)

\* A released session that is merely paused.
ReleasedSessionPaused(s) == IF s = "frozen" THEN "paused" ELSE s

\* unfrozen_order_run_session.
ReleasedSession(s) == IF s = "frozen" THEN "requeued" ELSE s

\* restore_one_frozen_queue: back to pending at the tail of every queue, the
\* session marked as requeued.
RestoreOne(r, a) ==
    LET w == write[r]
    IN  /\ pc[r] = "restore" /\ a \in w.stages
        /\ \/ /\ queue[a][w.o] = "frozen"
              /\ QueueTx(a, w.o, "pending", ReleasedSession(session[a][w.o]), hold,
                         control[w.o], RestoredSequence(seq, w.o))
              /\ Enter(r, "restore", [w EXCEPT !.stages = @ \ {a}])
           \/ queue[a][w.o] # "frozen" /\ Leave(r) /\ UNCHANGED store
        /\ UNCHANGED <<stops, crashes>>

\* The record is released after the last queue.
RestoreDone(r) ==
    LET w == write[r]
    IN  /\ pc[r] = "restore" /\ w.stages = {}
        /\ \/ PutControl(w.o, w.ctl)
           \/ ~ SaveAllowed(w.o, w.ctl, queue, session, hold) /\ UNCHANGED store
        /\ Leave(r)
        /\ UNCHANGED <<stops, crashes>>

-----------------------------------------------------------------------------
(* Reordering, crashes, and the specification.                             *)

BarrierOrders(a) == {x \in Orders \ FrozenOrders : queue[a][x] \in ActiveStates}

\* move_apparatus_sequence: one transaction under every lock.
MoveSequence(r, a, o, wish) ==
    /\ pc[r] = "idle"
    /\ ExclusiveGuard(r)
    /\ Contains(Line(a), o)
    /\ AllowedSlots(Line(a), o, BarrierOrders(a)) # {}
    /\ seq' = [seq EXCEPT ![a] = NearestAllowed(Line(a), o, wish, BarrierOrders(a))]
    /\ UNCHANGED <<queue, session, hold, control, pc, write, stops, crashes>>

\* A request is cut short between two transactions: its process dies, or its
\* handler is dropped with the connection.
Crash(r) ==
    /\ Holding(r) /\ crashes < MaxCrashes
    /\ crashes' = crashes + 1
    /\ Leave(r)
    /\ UNCHANGED <<store, stops>>

Next ==
    \E r \in Requests :
        \/ \E a \in Apparatuses, o \in Orders, h \in HoldIds \union {NoHold} :
              AskStart(r, a, o, h) \/ PrepareFreeze(r, a, o, h)
        \/ \E a \in Apparatuses, o \in Orders, h \in HoldIds : PrepareBegin(r, a, o, h)
        \/ \E a \in Apparatuses, o \in Orders :
              \/ PrepareResume(r, a, o)
              \/ \E act \in {"pause", "complete"} : \E to \in Reported(act) :
                    PrepareReport(r, act, a, o, to)
              \/ \E wish \in 1 .. Len(Arrival) : MoveSequence(r, a, o, wish)
        \/ \E h \in HoldIds, to \in HoldStates : AskDecision(r, h, to)
        \/ \E o \in Orders : \/ \E asking \in BOOLEAN : StopBegin(r, o, asking)
                             \/ UpgradeToClose(r, o)
                             \/ RestoreBegin(r, o)
        \/ \E h \in HoldIds : StopTrial(r, h)
        \/ \E a \in Apparatuses : StopStage(r, a) \/ RestoreOne(r, a)
        \/ Withdraw(r) \/ PrepareStart(r) \/ PrepareDecision(r)
        \/ Commit(r) \/ CommitBegin(r) \/ CommitDecision(r)
        \/ StopDirect(r) \/ StopPublish(r) \/ StopTrialsDone(r) \/ StopSettle(r)
        \/ RestoreDone(r) \/ Crash(r)

Spec == Init /\ [][Next]_vars

-----------------------------------------------------------------------------
(* Properties.                                                             *)

ControlRecord ==
    [state : {"active", "freeze_requested", "frozen"},
     status : {"none", "pending", "frozen", "cancelled", "unfrozen"},
     target : Apparatuses \union {NoApparatus}, bySession : BOOLEAN,
     request : Nat, close : {"no", "asked", "closed"}]

HoldRecord ==
    [status : HoldStates, order : Orders \union {NoOrder},
     apparatus : Apparatuses \union {NoApparatus}, previous : QueueStates,
     revision : Nat]

WriteRecord ==
    [act : {"none", "start", "resume", "pause", "complete", "freeze", "begin",
            "decide", "stop", "restore"},
     a : Apparatuses \union {NoApparatus}, o : Orders \union {NoOrder},
     h : HoldIds \union {NoHold}, from : QueueStates,
     to : QueueStates \union HoldStates, rev : Nat,
     seen : [Orders -> QueueStates], line : Seq(Orders), ctl : ControlRecord,
     trials : SUBSET HoldIds, stages : SUBSET Apparatuses, working : BOOLEAN]

\* Every table and every request of the system stays within its vocabulary
\* (queue/state.rs, progress_session, print_preflight.rs, order_control).
TypeOK ==
    /\ queue \in [Apparatuses -> [Orders -> QueueStates]]
    /\ session \in [Apparatuses -> [Orders -> SessionStates]]
    /\ seq \in [Apparatuses -> Seq(Orders)]
    /\ hold \in [HoldIds -> HoldRecord]
    /\ control \in [Orders -> ControlRecord]
    /\ pc \in [Requests -> {"idle", "asked", "prepared", "direct", "publish",
                            "trials", "stages", "restore"}]
    /\ write \in [Requests -> WriteRecord]
    /\ stops \in [Orders -> Nat]
    /\ crashes \in 0 .. MaxCrashes

\* Two orders are never on one strict apparatus at the same time: whatever
\* requests of whatever processes interleave between check and commit, Start
\* and Resume leave at most one order running or in trial
\* (apply_queue_policy, apply_requeued_resume, validate_write_tx).
OneOccupant ==
    \A a \in Strict : \A o, p \in Orders :
        o # p => ~ (queue[a][o] \in ActiveStates /\ queue[a][p] \in ActiveStates)

\* The one slot of a finite-capacity apparatus is never given twice, although
\* capacity is read outside the transaction that takes the slot
\* (ensure_apparatus_execution_capacity, validate_write_tx).
CapacityRespected ==
    \A a \in Finite : \A o, p \in Orders :
        o # p => ~ (queue[a][o] = "in_progress" /\ queue[a][p] = "in_progress")

\* A frozen order has no running machine, no open roll and no colour trial in
\* progress, even when the worker's action and the stop raced each other
\* (save_order_control_state_tx, finalize_global_stop_tx).
StoppedIsQuiet ==
    \A o \in Orders : control[o].state = "frozen" => ~ IsRunning(o, queue, session, hold)

\* StoppedIsQuiet on the machines that run no colour trials.
StoppedMachineIsQuiet ==
    \A o \in Orders, a \in Apparatuses \ Printing :
        control[o].state = "frozen" =>
            session[a][o] # "active" /\ queue[a][o] \notin ActiveStates

\* The two records of running work, the queue row and the run session, never
\* disagree on a machine (apply_queue_progress_tx writes both).
WorkMatchesQueue ==
    \A a \in Apparatuses \ Printing, o \in Orders :
        session[a][o] = "active" <=> queue[a][o] = "in_progress"

\* Once a stop is requested no machine starts, pauses or completes the order,
\* also when the action was accepted before the request was recorded
\* (validate_execution_controls_tx).
NoWorkAfterStop ==
    [][\A a \in Apparatuses, o \in Orders :
          control[o].state # "active" /\ queue'[a][o] # queue[a][o]
              => queue'[a][o] \notin {"in_progress", "paused", "completed"}]_vars

TrialSteps ==
    Decisions \union {<<"free", "running">>, <<"passed", "consumed">>,
                      <<"passed", "cancelled">>}

\* A colour trial is decided on by what the worker saw: production consumes a
\* trial that passed and was not reopened meanwhile, and no late decision is
\* applied to a trial another client has decided
\* (advance_print_preflight_at_revision, consume_print_preflight_hold_tx).
TrialsAreDecidedOnce ==
    [][\A h \in HoldIds : hold'[h].status # hold[h].status =>
          <<hold[h].status, hold'[h].status>> \in TrialSteps]_vars

\* An apparatus row in trial and a live trial exist together, through
\* decisions, reopenings, stops and releases (persist_queue_status).
TrialMatchesQueue ==
    \A a \in Apparatuses, o \in Orders :
        queue[a][o] = "print_preflight" <=>
            \E h \in HoldIds : Live(h) /\ hold[h].order = o /\ hold[h].apparatus = a

\* An apparatus shown in trial has a trial a worker can still decide, whatever
\* two requests raced and wherever a stop or a release of several machines was
\* cut short: otherwise the row would block the machine for ever
\* (persist_queue_status, restore_frozen_queue_after_unfreeze).
TrialRowIsDecidable ==
    \A a \in Apparatuses, o \in Orders : queue[a][o] = "print_preflight" =>
        \E h \in HoldIds : Live(h) /\ hold[h].order = o /\ hold[h].apparatus = a

\* No roll of an order is running while its colour trial is.
NoWorkDuringTrial ==
    \A h \in HoldIds : hold[h].status = "running" =>
        session[hold[h].apparatus][hold[h].order] # "active"

\* Work released after a stop goes behind every order already waiting, on
\* every apparatus (restore_one_frozen_queue).
ReleasedGoToTheTail ==
    [][\A a \in Apparatuses, o \in Orders :
          queue[a][o] = "frozen" /\ queue'[a][o] = "pending" =>
              \A b \in Apparatuses : seq'[b] # <<>> /\ Last(seq'[b]) = o]_vars

Ahead(s, x, y) == Contains(s, x) /\ Contains(s, y) /\ Position(s, x) < Position(s, y)

\* The order goes back to the tail of its queues in this step.
IsReleased(x) == \E b \in Apparatuses : queue[b][x] = "frozen" /\ queue'[b][x] = "pending"

\* Nothing gets ahead of the order that occupies an apparatus, whoever
\* reorders, stops or releases other orders (nearest_allowed_sequence,
\* validate_active_sequence_barrier).  The order's own release is exempt: a
\* stop withdrawn half way sends it to the tail also where it still runs.
NobodyOvertakesRunningWork ==
    [][\A a \in Apparatuses, x, y \in Orders :
          /\ queue[a][x] \in ActiveStates /\ queue'[a][x] \in ActiveStates
          /\ Ahead(seq[a], x, y) /\ ~ IsReleased(x)
          => ~ Ahead(seq'[a], y, x)]_vars

Idle == \A r \in Requests : pc[r] = "idle"

\* No stop request waits for ever: when no request is in flight somebody can
\* act on it, the worker of a machine or a trial it waits for, or, unless it
\* was made to close the order, the administrator who may withdraw it
\* (request_order_stop, transition_order_control).
StopHasAWayOut ==
    Idle => \A o \in Orders : control[o].state = "freeze_requested" =>
        control[o].close = "no" \/ \E a \in Apparatuses : MayAcknowledge(a, o)

\* Work left open is never lost: once the order is released, its paused roll
\* can be resumed on the machine that holds it (queue_requeued_resume,
\* next_queue_state).
WorkCanResume ==
    \A a \in Apparatuses, o \in Orders :
        Idle /\ control[o].state = "active" /\ session[a][o] \in {"paused", "requeued", "frozen"}
            => \/ queue[a][o] = "paused"
               \/ session[a][o] = "requeued" /\ Parsed(queue[a][o]) = "pending"

\* An order closed early never runs again and stays out of every saved
\* sequence, reorderings by administrators included (apply_early_close_tx).
ClosedStaysOut ==
    \A o \in Orders : control[o].close = "closed" =>
        /\ control[o].state = "frozen"
        /\ \A a \in Apparatuses : ~ Contains(seq[a], o)

=============================================================================
