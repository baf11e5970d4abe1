------------------------ MODULE ProductionQueueProofs ------------------------
(***************************************************************************)
(* Proofs about ProductionQueue, for any plant and any number of orders,   *)
(* requests and server processes.                                          *)
(*                                                                         *)
(* The tables change in six ways only (lemma Effects).  What makes each of *)
(* them safe was established by the request before it committed: Inv says  *)
(* what a waiting and a prepared request carry, and how a prepared         *)
(* decision relates to the trial it is about.  Safe adds the types, what   *)
(* the records in flight are about, and what the queue keeps of closed     *)
(* orders and of trials that await a decision.  The parts after that       *)
(* assume that one process serves all requests, so that its guard orders   *)
(* them, and the last ones that requests come one at a time or that this   *)
(* process has no colour trials.                                           *)
(***************************************************************************)
EXTENDS ProductionQueue, QueueRulesProofs, FiniteSetTheorems, TLAPS

\* Every table has a row for every key.
Tables ==
    /\ DOMAIN queue = Apparatuses /\ \A a \in Apparatuses : DOMAIN queue[a] = Orders
    /\ DOMAIN session = Apparatuses /\ \A a \in Apparatuses : DOMAIN session[a] = Orders
    /\ DOMAIN control = Orders
    /\ DOMAIN pc = Requests /\ DOMAIN write = Requests

Trial == [status : HoldStates, order : Orders \union {NoOrder},
          apparatus : Apparatuses \union {NoApparatus},
          previous : {"none", "pending"}, revision : Nat]

\* Colour trials run on printing machines, on orders that were waiting.
Trials ==
    /\ hold \in [HoldIds -> Trial]
    /\ \A h \in HoldIds : hold[h].status # "free" => hold[h].apparatus \in Printing

CarriesAsked(w) ==
    /\ DOMAIN w = DOMAIN NoWrite
    /\ w.act = "decide" => w.h \in HoldIds /\ w.a \in Printing

\* What the checks under the guard have made sure of.
CarriesPrepared(w) ==
    /\ w.act \in {"start", "resume"} =>
          /\ w.to = "in_progress"
          /\ w.a \in Finite => \A p \in Orders \ {w.o} : w.seen[p] # "in_progress"
    /\ w.act = "pause" => w.to = "paused"
    /\ w.act = "complete" => w.to \in {"completed", "pending"}
    /\ w.act = "freeze" /\ w.h # NoHold => w.a \in Printing
    /\ w.act = "begin" => /\ w.a \in Printing /\ w.o \in Orders
                          /\ w.h \in HoldIds /\ w.from \in {"none", "pending"}
    /\ w.act = "decide" => w.h \in HoldIds /\ w.a \in Printing

\* The trial is the one the decision was made on, or has moved on since.
FreshIn(w, hd) ==
    w.act = "decide" =>
        /\ hd[w.h].status # "free"
        /\ w.rev \in Nat /\ w.rev <= hd[w.h].revision
        /\ w.rev = hd[w.h].revision => <<hd[w.h].status, w.to>> \in Decisions

Fresh(w) == FreshIn(w, hold)

Carried ==
    \A r \in Requests :
        /\ pc[r] = "asked" => CarriesAsked(write[r])
        /\ pc[r] = "prepared" => CarriesPrepared(write[r]) /\ Fresh(write[r])

Inv == Tables /\ Trials /\ Carried

-----------------------------------------------------------------------------
(* The ways in which the tables change.                                    *)

Quiet == UNCHANGED <<queue, session, hold, control>>

Recorded(o, c) ==
    /\ SaveAllowed(o, c, queue, session, hold)
    /\ control' = [control EXCEPT ![o] = c]
    /\ UNCHANGED <<queue, session, hold>>

Moved(a, o, to, sess, hd, c) ==
    /\ queue' = [queue EXCEPT ![a][o] = to]
    /\ session' = [session EXCEPT ![a][o] = sess]
    /\ hold' = hd
    /\ control' = [control EXCEPT ![o] = Finalized(o, c, queue', session', hold')]

\* A worker's Start, Resume, Pause or Complete.
Worked(w) ==
    /\ CarriesPrepared(w)
    /\ w.act \in {"start", "resume", "pause", "complete"}
    /\ control[w.o].state = "active"
    /\ HoldUsable(w) /\ WitnessHolds(w)
    /\ Moved(w.a, w.o, w.to, SessionAfter(w), HoldsAfter(w), control[w.o])

\* The rows a stop may freeze without their session.
Resting == {"paused", "frozen", "print_preflight"}

\* A machine stopped by its worker or by the administrator.
Stopped(a, o, h, sess, c) ==
    /\ control[o].state # "frozen"
    /\ c.state = "frozen" => ~ IsRunning(o, queue', session', hold')
    /\ h # NoHold => Live(h)
    /\ \/ sess = "frozen"
       \/ sess = session[a][o] /\ (a \in Printing \/ queue[a][o] \in Resting)
    /\ Moved(a, o, "frozen", sess, HoldAfter(h, "cancelled"), c)

Released(a, o) ==
    /\ queue[a][o] = "frozen"
    /\ Moved(a, o, "pending", ReleasedSession(session[a][o]), hold, control[o])

Begun(w) ==
    /\ CarriesPrepared(w) /\ w.act = "begin" /\ BeginAllowed(w)
    /\ hold' = [hold EXCEPT ![w.h] =
                   [status |-> "running", order |-> w.o, apparatus |-> w.a,
                    previous |-> w.from, revision |-> 0]]
    /\ queue' = [queue EXCEPT ![w.a][w.o] = "print_preflight"]
    /\ UNCHANGED <<session, control>>

Decided(w) ==
    /\ CarriesPrepared(w) /\ w.act = "decide" /\ Fresh(w) /\ DecisionAllowed(w)
    /\ hold' = HoldAfter(w.h, w.to)
    /\ queue' = [queue EXCEPT ![w.a][w.o] = QueueAfterDecision(w)]
    /\ UNCHANGED <<session, control>>

Effect ==
    \/ Quiet
    \/ \E o, c : Recorded(o, c)
    \/ \E r \in Requests :
          pc[r] = "prepared" /\ (Worked(write[r]) \/ Begun(write[r]) \/ Decided(write[r]))
    \/ \E a, o, h, sess, c : Stopped(a, o, h, sess, c)
    \/ \E a, o : Released(a, o)

\* Writing the control row of an order (put_order_control) is a Recorded effect.
LEMMA PutControlEffect ==
    ASSUME NEW o, NEW c, PutControl(o, c) PROVE \E p, d : Recorded(p, d)
BY DEF PutControl, Recorded

\* The transaction of a queue action has the effect Moved.
LEMMA QueueTxEffect ==
    ASSUME NEW a, NEW o, NEW to, NEW sess, NEW hd, NEW c, NEW sq,
           QueueTx(a, o, to, sess, hd, c, sq)
    PROVE  Moved(a, o, to, sess, hd, c)
BY DEF QueueTx, Moved

\* The transaction that freezes one machine of an order has the effect Stopped.
LEMMA FreezeTxEffect ==
    ASSUME NEW a, NEW o, NEW h, NEW sess, NEW c,
           FreezeTx(a, o, sess, HoldAfter(h, "cancelled"), c),
           h # NoHold => Live(h),
           \/ sess = "frozen"
           \/ sess = session[a][o] /\ (a \in Printing \/ queue[a][o] \in Resting)
    PROVE  Stopped(a, o, h, sess, c)
<1>1. Moved(a, o, "frozen", sess, HoldAfter(h, "cancelled"), c)
    BY QueueTxEffect DEF FreezeTx
<1>2. c.state = "frozen" => ~ IsRunning(o, queue', session', hold')
    BY <1>1 DEF FreezeTx, FreezeAllowed, SaveAllowed, Moved
<1> QED BY <1>1, <1>2 DEF Stopped, FreezeTx, FreezeAllowed

\* Every step changes the tables in one of the ways Effect lists, or not at all.
LEMMA Effects == ASSUME Inv, Next PROVE Effect
<1> PICK r \in Requests : Next!(r)
    BY DEF Next
<1> DEFINE w == write[r]
<1>1. ASSUME UNCHANGED store PROVE Effect
    BY <1>1 DEF store, Effect, Quiet
<1>2. ASSUME NEW o, NEW c, PutControl(o, c) PROVE Effect
    BY <1>2, PutControlEffect DEF Effect
<1>3. ASSUME NEW a, NEW o, NEW h, NEW sess, NEW c, Stopped(a, o, h, sess, c) PROVE Effect
    BY <1>3 DEF Effect
<1>4. CASE Commit(r)
    <2>1. CarriesPrepared(w)
        BY <1>4 DEF Commit, Inv, Carried
    <2>2. CASE ~ CommitAllowed(w)
        BY <1>1, <1>4, <2>2 DEF Commit
    <2>3. CASE CommitAllowed(w) /\ w.act = "freeze"
        <3>1. FreezeTx(w.a, w.o, SessionAfter(w), HoldAfter(w.h, "cancelled"), w.ctl)
            BY <1>4, <2>3 DEF Commit, HoldsAfter
        <3>2. w.h # NoHold => Live(w.h)
            BY <2>3 DEF CommitAllowed, HoldUsable
        <3>3. SessionAfter(w) = "frozen" \/ (SessionAfter(w) = session[w.a][w.o] /\ w.a \in Printing)
            BY <2>1, <2>3 DEF SessionAfter, CarriesPrepared
        <3> QED BY <1>3, <3>1, <3>2, <3>3, FreezeTxEffect
    <2>4. CASE CommitAllowed(w) /\ w.act # "freeze"
        <3>1. QueueTx(w.a, w.o, w.to, SessionAfter(w), HoldsAfter(w), control[w.o], seq)
            BY <1>4, <2>4 DEF Commit
        <3>2. pc[r] = "prepared" /\ Worked(w)
            BY <1>4, <2>1, <2>4, <3>1, QueueTxEffect
               DEF Commit, QueueActs, Worked, CommitAllowed, ControlsAllow
        <3> QED BY <3>2 DEF Effect
    <2> QED BY <2>2, <2>3, <2>4
<1>5. CASE CommitBegin(r)
    <2>1. CASE BeginAllowed(w)
        <3>1. pc[r] = "prepared" /\ Begun(w)
            BY <1>5, <2>1 DEF CommitBegin, Begun, Inv, Carried
        <3> QED BY <3>1 DEF Effect
    <2> QED BY <1>1, <1>5, <2>1 DEF CommitBegin
<1>6. CASE CommitDecision(r)
    <2>1. CASE DecisionAllowed(w)
        <3>1. pc[r] = "prepared" /\ Decided(w)
            BY <1>6, <2>1 DEF CommitDecision, Decided, Inv, Carried
        <3> QED BY <3>1 DEF Effect
    <2> QED BY <1>1, <1>6, <2>1 DEF CommitDecision
<1>7. CASE StopDirect(r)
    <2>1. ASSUME NEW a, NEW sess,
                 StopAllowed(a, w.o, w.h, sess, w.ctl),
                 FreezeTx(a, w.o, sess, HoldAfter(w.h, "cancelled"), w.ctl),
                 sess = "frozen" \/ (sess = session[a][w.o] /\ queue[a][w.o] \in Resting)
          PROVE  Effect
        BY <1>3, <2>1, FreezeTxEffect DEF StopAllowed
    <2> DEFINE paused == w.ctl.bySession /\ w.ctl.state = "frozen"
               after(a) == IF w.ctl.bySession THEN "frozen" ELSE session[a][w.o]
    <2>2. \/ \E a : /\ Stoppable(a, w.o, paused, w.h \in w.trials)
                    /\ StopAllowed(a, w.o, w.h, after(a), w.ctl)
                    /\ FreezeTx(a, w.o, after(a), HoldAfter(w.h, "cancelled"), w.ctl)
          \/ PutControl(w.o, w.ctl)
          \/ UNCHANGED store
        BY <1>7, Zenon DEF StopDirect
    <2>3. ASSUME NEW a, Stoppable(a, w.o, paused, w.h \in w.trials),
                 StopAllowed(a, w.o, w.h, after(a), w.ctl)
          PROVE  after(a) = "frozen" \/ (after(a) = session[a][w.o] /\ queue[a][w.o] \in Resting)
        BY <2>3 DEF Stoppable, StopAllowed, Resting
    <2> QED BY <1>1, <1>2, <2>1, <2>2, <2>3
<1>8. CASE StopPublish(r)
    BY <1>1, <1>2, <1>8 DEF StopPublish
<1>9. ASSUME NEW h \in HoldIds, StopTrial(r, h) PROVE Effect
    <2> DEFINE a == hold[h].apparatus
    <2>1. CASE UNCHANGED store
        BY <1>1, <2>1
    <2>2. CASE ~ UNCHANGED store
        <3>1. /\ Stoppable(a, w.o, FALSE, TRUE)
              /\ StopAllowed(a, w.o, h, session[a][w.o], w.ctl)
              /\ FreezeTx(a, w.o, session[a][w.o], HoldAfter(h, "cancelled"), w.ctl)
            BY <1>9, <2>2, Zenon DEF StopTrial
        <3>2. queue[a][w.o] \in Resting
            BY <3>1 DEF Stoppable, StopAllowed, Resting
        <3> QED BY <1>3, <3>1, <3>2, FreezeTxEffect DEF StopAllowed
    <2> QED BY <2>1, <2>2
<1>10. ASSUME NEW a \in Apparatuses, StopStage(r, a) PROVE Effect
    <2>1. CASE UNCHANGED store
        BY <1>1, <2>1
    <2>2. CASE ~ UNCHANGED store
        <3>1. FreezeTx(a, w.o, "frozen", hold, w.ctl)
            BY <1>10, <2>2, Zenon DEF StopStage
        <3>2. hold = HoldAfter(NoHold, "cancelled")
            BY DEF HoldAfter
        <3> QED BY <1>3, <3>1, <3>2, FreezeTxEffect
    <2> QED BY <2>1, <2>2
<1>11. CASE StopSettle(r)
    BY <1>1, <1>2, <1>11 DEF StopSettle
<1>12. ASSUME NEW o \in Orders, UpgradeToClose(r, o) PROVE Effect
    BY <1>2, <1>12 DEF UpgradeToClose
<1>13. ASSUME NEW a \in Apparatuses, RestoreOne(r, a) PROVE Effect
    <2>1. CASE UNCHANGED store
        BY <1>1, <2>1
    <2>2. CASE ~ UNCHANGED store
        <3>1. /\ queue[a][w.o] = "frozen"
              /\ QueueTx(a, w.o, "pending", ReleasedSession(session[a][w.o]), hold,
                         control[w.o], RestoredSequence(seq, w.o))
            BY <1>13, <2>2, Zenon DEF RestoreOne
        <3>2. Released(a, w.o)
            BY <3>1, QueueTxEffect DEF Released
        <3> QED BY <3>2 DEF Effect
    <2> QED BY <2>1, <2>2
<1>14. CASE RestoreDone(r)
    BY <1>1, <1>2, <1>14 DEF RestoreDone
<1>15. ASSUME NEW a \in Apparatuses, NEW o \in Orders, NEW wish, MoveSequence(r, a, o, wish)
       PROVE  Effect
    BY <1>15 DEF MoveSequence, Effect, Quiet
<1>16. CASE UNCHANGED store
    BY <1>1, <1>16
<1> QED
    BY <1>4, <1>5, <1>6, <1>7, <1>8, <1>9, <1>10, <1>11, <1>12, <1>13, <1>14, <1>15, <1>16, ZenonT(60)
       DEF AskStart, PrepareFreeze, PrepareBegin, PrepareResume, PrepareReport, AskDecision,
           StopBegin, RestoreBegin, Withdraw, PrepareStart, PrepareDecision, StopTrialsDone,
           Crash

-----------------------------------------------------------------------------
(* The tables and the trials.                                              *)

\* What the update of one row of a table kept by machine and order reads back.
LEMMA Row ==
    ASSUME NEW f, NEW a, NEW o, NEW v,
           DOMAIN f = Apparatuses, \A b \in Apparatuses : DOMAIN f[b] = Orders
    PROVE  LET g == [f EXCEPT ![a][o] = v]
           IN  /\ DOMAIN g = Apparatuses /\ \A b \in Apparatuses : DOMAIN g[b] = Orders
               /\ \A b \in Apparatuses, p \in Orders :
                     g[b][p] = IF b = a /\ p = o THEN v ELSE f[b][p]
OBVIOUS

\* What a transaction does to one trial.
TrialStep(h, to) ==
    /\ hold'[h].status = to /\ hold'[h].revision = hold[h].revision + 1
    /\ hold'[h].order = hold[h].order /\ hold'[h].apparatus = hold[h].apparatus
    /\ hold'[h].previous = hold[h].previous

\* What changing the status of a trial record leaves alone.
LEMMA TrialUpdate ==
    ASSUME NEW t \in Trial, NEW to
    PROVE  LET v == [t EXCEPT !.status = to, !.revision = @ + 1]
           IN  /\ v.status = to /\ v.revision = t.revision + 1
               /\ v.order = t.order /\ v.apparatus = t.apparatus /\ v.previous = t.previous
               /\ to \in HoldStates => v \in Trial
<1> DEFINE u == [t EXCEPT !.status = to]
           v == [u EXCEPT !.revision = @ + 1]
<1>1. /\ u.status = to /\ u.revision = t.revision /\ u.order = t.order
      /\ u.apparatus = t.apparatus /\ u.previous = t.previous
      /\ DOMAIN u = DOMAIN t
      /\ to \in HoldStates => u \in Trial
    BY DEF Trial
<1>2. /\ v.status = u.status /\ v.revision = u.revision + 1 /\ v.order = u.order
      /\ v.apparatus = u.apparatus /\ v.previous = u.previous
      /\ u \in Trial => v \in Trial
    <2>1. DOMAIN u = {"status", "order", "apparatus", "previous", "revision"}
        BY <1>1 DEF Trial
    <2> HIDE DEF u
    <2> QED BY <2>1 DEF Trial
<1>3. v = [t EXCEPT !.status = to, !.revision = @ + 1]
    BY <1>1
<1> HIDE DEF u, v
<1> QED BY <1>1, <1>2, <1>3

\* Changing the status of one trial leaves the others alone.
LEMMA HoldStep ==
    ASSUME Trials, NEW h, NEW to, hold' = HoldAfter(h, to)
    PROVE  /\ \A k \in HoldIds : k # h => hold'[k] = hold[k]
           /\ h \in HoldIds /\ h # NoHold => TrialStep(h, to)
           /\ to \in HoldStates => hold' \in [HoldIds -> Trial]
<1>1. CASE h = NoHold
    BY <1>1, RoutesAssumption DEF HoldAfter, Trials
<1>2. CASE h # NoHold
    <2>0. hold' = [[hold EXCEPT ![h].status = to] EXCEPT ![h].revision = @ + 1]
        BY <1>2 DEF HoldAfter
    <2>1. hold' = [hold EXCEPT ![h] = [hold[h] EXCEPT !.status = to, !.revision = @ + 1]]
        <3>1. CASE h \in HoldIds
            BY <2>0, <3>1 DEF Trials, Trial
        <3>2. CASE h \notin HoldIds
            BY <2>0, <3>2 DEF Trials
        <3> QED BY <3>1, <3>2
    <2>2. h \in HoldIds /\ to \in HoldStates =>
              [hold[h] EXCEPT !.status = to, !.revision = @ + 1] \in Trial
        BY TrialUpdate DEF Trials
    <2>3. h \in HoldIds => TrialStep(h, to)
        <3> SUFFICES ASSUME h \in HoldIds PROVE TrialStep(h, to)
            OBVIOUS
        <3> DEFINE v == [hold[h] EXCEPT !.status = to, !.revision = @ + 1]
        <3>1. hold'[h] = v
            BY <2>1 DEF Trials
        <3>2. /\ v.status = to /\ v.revision = hold[h].revision + 1
              /\ v.order = hold[h].order /\ v.apparatus = hold[h].apparatus
              /\ v.previous = hold[h].previous
            BY TrialUpdate, ZenonT(60) DEF Trials
        <3> QED BY <3>1, <3>2, Zenon DEF TrialStep
    <2> HIDE DEF TrialStep
    <2> QED BY <2>1, <2>2, <2>3 DEF Trials
<1> QED BY <1>1, <1>2

\* Every step makes at most one request go on, with what its checks ensure.
GoesOn(r, at, w) ==
    /\ Enter(r, at, w)
    /\ at = "asked" => CarriesAsked(w)
    /\ at = "prepared" => CarriesPrepared(w) /\ Fresh(w) /\ UNCHANGED hold

\* No step adds or removes a row of a table.
LEMMA NextTables ==
    ASSUME Inv, Effect,
           \/ UNCHANGED <<pc, write>>
           \/ \E r \in Requests : \E at, w : GoesOn(r, at, w)
    PROVE  Tables'
<1>1. DOMAIN pc' = Requests /\ DOMAIN write' = Requests
    BY DEF Inv, Tables, GoesOn, Enter
<1> SUFFICES /\ DOMAIN queue' = Apparatuses
             /\ \A a \in Apparatuses : DOMAIN queue'[a] = Orders
             /\ DOMAIN session' = Apparatuses
             /\ \A a \in Apparatuses : DOMAIN session'[a] = Orders
             /\ DOMAIN control' = Orders
    BY <1>1 DEF Tables
<1> USE DEF Inv, Tables
<1>2. ASSUME NEW a, NEW o, NEW to, NEW sess, NEW hd, NEW c, Moved(a, o, to, sess, hd, c)
      PROVE  /\ DOMAIN queue' = Apparatuses
             /\ \A b \in Apparatuses : DOMAIN queue'[b] = Orders
             /\ DOMAIN session' = Apparatuses
             /\ \A b \in Apparatuses : DOMAIN session'[b] = Orders
             /\ DOMAIN control' = Orders
    BY <1>2, Row DEF Moved
<1>3. CASE Quiet
    BY <1>3 DEF Quiet
<1>4. ASSUME NEW o, NEW c, Recorded(o, c) PROVE UNCHANGED <<queue, session>> /\ DOMAIN control' = Orders
    BY <1>4 DEF Recorded
<1>5. ASSUME NEW w, Begun(w) \/ Decided(w)
      PROVE  /\ DOMAIN queue' = Apparatuses
             /\ \A b \in Apparatuses : DOMAIN queue'[b] = Orders
             /\ UNCHANGED <<session, control>>
    BY <1>5, Row DEF Begun, Decided
<1> QED BY <1>2, <1>3, <1>4, <1>5 DEF Effect, Worked, Stopped, Released

\* No step moves a trial off the printing machines.
LEMMA NextTrials == ASSUME Inv, Effect PROVE Trials'
<1> USE DEF Inv
<1>1. CASE UNCHANGED hold
    BY <1>1 DEF Trials
<1>2. ASSUME NEW h, NEW to, hold' = HoldAfter(h, to), to \in HoldStates,
             h \in HoldIds => hold[h].status # "free"
      PROVE  Trials'
    <2>1. hold' \in [HoldIds -> Trial]
        BY <1>2, HoldStep
    <2>2. ASSUME NEW k \in HoldIds, hold'[k].status # "free" PROVE hold'[k].apparatus \in Printing
        <3>1. CASE k # h \/ h = NoHold
            BY <1>2, <2>2, <3>1, HoldStep DEF Trials, HoldAfter
        <3>2. CASE k = h /\ h # NoHold
            <4>1. hold'[k].apparatus = hold[k].apparatus
                BY <1>2, <3>2, HoldStep DEF TrialStep, Trials, Trial
            <4> QED BY <1>2, <3>2, <4>1 DEF Trials
        <3> QED BY <3>1, <3>2
    <2> QED BY <2>1, <2>2 DEF Trials
<1>3. ASSUME NEW w, Worked(w) PROVE Trials'
    <2>1. hold' = HoldAfter(w.h, IF w.act = "start" THEN "consumed" ELSE "cancelled")
        BY <1>3 DEF Worked, Moved, HoldsAfter
    <2>2. w.h # NoHold => Live(w.h) \/ hold[w.h].status = "passed"
        BY <1>3 DEF Worked, HoldUsable
    <2> QED BY <1>1, <1>2, <2>1, <2>2 DEF HoldStates, Live, HoldAfter
<1>4. ASSUME NEW w, Begun(w) PROVE Trials'
    <2>1. /\ w.a \in Printing /\ w.o \in Orders /\ w.h \in HoldIds
          /\ w.from \in {"none", "pending"}
        BY <1>4 DEF Begun, CarriesPrepared
    <2>2. [status |-> "running", order |-> w.o, apparatus |-> w.a,
           previous |-> w.from, revision |-> 0] \in Trial
        BY <2>1, RoutesAssumption DEF Trial, HoldStates
    <2> QED BY <1>4, <2>1, <2>2 DEF Begun, Trials
<1>5. ASSUME NEW w, Decided(w) PROVE Trials'
    <2>1. w.to \in HoldStates /\ w.h \in HoldIds /\ hold[w.h].status # "free"
        BY <1>5 DEF Decided, CarriesPrepared, Fresh, FreshIn, DecisionAllowed, Decisions, HoldStates, Trials, Trial
    <2> QED BY <1>2, <1>5, <2>1 DEF Decided
<1>6. ASSUME NEW a, NEW o, NEW h, NEW sess, NEW c, Stopped(a, o, h, sess, c) PROVE Trials'
    <2>1. hold' = HoldAfter(h, "cancelled") /\ (h # NoHold => Live(h))
        BY <1>6 DEF Stopped, Moved
    <2> QED BY <1>1, <1>2, <2>1 DEF HoldStates, Live, HoldAfter
<1> QED BY <1>1, <1>3, <1>4, <1>5, <1>6 DEF Effect, Quiet, Recorded, Released, Moved

-----------------------------------------------------------------------------
(* What requests carry.                                                    *)

\* The outcomes a pause and a completion may report.
LEMMA Reports == Reported("pause") = {"paused"} /\ Reported("complete") = {"completed", "pending"}
<1>1. NextState("in_progress", "pause") = "paused"
    <2>1. \A t \in Transitions : t[1] = "in_progress" /\ t[2] = "pause" => t[3] = "paused"
        BY DEF Transitions
    <2>2. \E t \in Transitions : t[1] = "in_progress" /\ t[2] = "pause"
        BY DEF Transitions
    <2> QED BY <2>1, <2>2 DEF NextState
<1>2. NextState("in_progress", "complete") = "completed"
    <2>1. \A t \in Transitions : t[1] = "in_progress" /\ t[2] = "complete" => t[3] = "completed"
        BY DEF Transitions
    <2>2. \E t \in Transitions : t[1] = "in_progress" /\ t[2] = "complete"
        BY DEF Transitions
    <2> QED BY <2>1, <2>2 DEF NextState
<1> QED BY <1>1, <1>2 DEF Reported

\* The fields of a request that has just arrived.
LEMMA Commands ==
    ASSUME NEW act, NEW a, NEW o, NEW h
    PROVE  LET w == Command(act, a, o, h)
           IN  /\ DOMAIN w = DOMAIN NoWrite
               /\ w.act = act /\ w.a = a /\ w.o = o /\ w.h = h
               /\ w.to = "none" /\ w.rev = 0
BY DEF Command, NoWrite

\* The fields of the record a request carries.
LEMMA WriteFields ==
    {"act", "a", "o", "h", "from", "to", "rev", "seen", "line", "ctl", "stages"} \subseteq DOMAIN NoWrite
BY DEF NoWrite

\* The fields of a start or a resumption that has read the queue under the guard.
LEMMA Witnesses ==
    ASSUME NEW w, DOMAIN w = DOMAIN NoWrite
    PROVE  LET x == Witnessed(w)
           IN  /\ x.act = w.act /\ x.a = w.a /\ x.o = w.o /\ x.h = w.h
               /\ x.to = "in_progress" /\ x.seen = queue[w.a]
BY WriteFields DEF Witnessed

\* A step moves one request at most, and what the request then carries is what
\* its checks have established.
LEMMA Steps ==
    ASSUME Inv, Next
    PROVE  \/ UNCHANGED <<pc, write>>
           \/ \E r \in Requests : \E at, w : GoesOn(r, at, w)
<1> DEFINE Goal == \/ UNCHANGED <<pc, write>>
                   \/ \E r \in Requests : \E at, w : GoesOn(r, at, w)
<1> SUFFICES Goal
    OBVIOUS
<1> PICK r \in Requests : Next!(r)
    BY DEF Next
<1>1. ASSUME NEW at, NEW w, Enter(r, at, w), at \notin {"asked", "prepared"} PROVE Goal
    BY <1>1 DEF GoesOn
<1>2. ASSUME NEW w, Enter(r, "asked", w), CarriesAsked(w) PROVE Goal
    BY <1>2 DEF GoesOn
<1>3. ASSUME NEW w, Enter(r, "prepared", w), CarriesPrepared(w), Fresh(w), UNCHANGED store PROVE Goal
    BY <1>3 DEF GoesOn, store
<1> HIDE DEF Goal
<1>4. ASSUME NEW a, NEW o, NEW h, AskStart(r, a, o, h) PROVE Goal
    <2>1. CarriesAsked(Command("start", a, o, h))
        BY Commands DEF CarriesAsked
    <2> QED BY <1>2, <1>4, <2>1 DEF AskStart
<1>5. ASSUME NEW a, NEW o, NEW h, PrepareFreeze(r, a, o, h) PROVE Goal
    <2> DEFINE w == [Command("freeze", a, o, h) EXCEPT !.from = queue[a][o], !.to = "frozen",
                                                       !.ctl = Acknowledged(a, o)]
    <2>1. w.act = "freeze" /\ w.h = h /\ w.a = a
        BY Commands, WriteFields
    <2>2. h # NoHold => a \in Printing
        BY <1>5 DEF PrepareFreeze, RunningTrial, Inv, Trials
    <2>3. Enter(r, "prepared", w) /\ UNCHANGED store
        BY <1>5 DEF PrepareFreeze
    <2> HIDE DEF w
    <2> QED BY <1>3, <2>1, <2>2, <2>3 DEF CarriesPrepared, Fresh, FreshIn
<1>6. ASSUME NEW a \in Apparatuses, NEW o \in Orders, NEW h \in HoldIds, PrepareBegin(r, a, o, h) PROVE Goal
    <2> DEFINE w == [Command("begin", a, o, h) EXCEPT !.from = queue[a][o]]
    <2>1. w.act = "begin" /\ w.h = h /\ w.a = a /\ w.o = o /\ w.from = queue[a][o]
        BY Commands, WriteFields
    <2>2. a \in Printing /\ queue[a][o] \in {"none", "pending"}
        BY <1>6 DEF PrepareBegin, Parsed
    <2>3. Enter(r, "prepared", w) /\ UNCHANGED store
        BY <1>6 DEF PrepareBegin
    <2> HIDE DEF w
    <2> QED BY <1>3, <2>1, <2>2, <2>3 DEF CarriesPrepared, Fresh, FreshIn
<1>7. ASSUME NEW a \in Apparatuses, NEW o \in Orders, PrepareResume(r, a, o) PROVE Goal
    <2> DEFINE w == Witnessed(Command("resume", a, o, NoHold))
    <2>1. w.act = "resume" /\ w.a = a /\ w.o = o /\ w.to = "in_progress" /\ w.seen = queue[a]
        BY Commands, Witnesses
    <2>2. CapacityFree(a, o) /\ Enter(r, "prepared", w) /\ UNCHANGED store
        BY <1>7 DEF PrepareResume
    <2> HIDE DEF w
    <2> QED BY <1>3, <2>1, <2>2 DEF CarriesPrepared, Fresh, FreshIn, CapacityFree
<1>8. ASSUME NEW a, NEW o, NEW act \in {"pause", "complete"}, NEW to \in Reported(act),
             PrepareReport(r, act, a, o, to)
      PROVE  Goal
    <2> DEFINE w == [Command(act, a, o, NoHold) EXCEPT !.from = queue[a][o], !.to = to]
    <2>1. w.act = act /\ w.to = to
        BY Commands, WriteFields
    <2>2. Enter(r, "prepared", w) /\ UNCHANGED store
        BY <1>8 DEF PrepareReport
    <2> HIDE DEF w
    <2>3. (act = "pause" => to = "paused") /\ (act = "complete" => to \in {"completed", "pending"})
        BY Reports
    <2> QED BY <1>3, <2>1, <2>2, <2>3 DEF CarriesPrepared, Fresh, FreshIn
<1>9. ASSUME NEW h \in HoldIds, NEW to, AskDecision(r, h, to) PROVE Goal
    <2> DEFINE w == [Command("decide", hold[h].apparatus, hold[h].order, h)
                        EXCEPT !.to = to, !.rev = hold[h].revision]
    <2>1. DOMAIN w = DOMAIN NoWrite /\ w.act = "decide" /\ w.h = h /\ w.a = hold[h].apparatus
        BY Commands, WriteFields
    <2>2. hold[h].apparatus \in Printing
        BY <1>9 DEF AskDecision, Live, Inv, Trials
    <2>3. Enter(r, "asked", w)
        BY <1>9 DEF AskDecision
    <2> HIDE DEF w
    <2> QED BY <1>2, <2>1, <2>2, <2>3 DEF CarriesAsked
<1>10. CASE PrepareStart(r)
    <2> DEFINE w == Witnessed(write[r])
    <2>1. /\ w.act = "start" /\ w.a = write[r].a /\ w.o = write[r].o
          /\ w.to = "in_progress" /\ w.seen = queue[write[r].a]
        BY <1>10, Witnesses DEF PrepareStart, Inv, Carried, CarriesAsked
    <2>2. CapacityFree(write[r].a, write[r].o) /\ Enter(r, "prepared", w) /\ UNCHANGED store
        BY <1>10 DEF PrepareStart
    <2> HIDE DEF w
    <2> QED BY <1>3, <2>1, <2>2 DEF CarriesPrepared, Fresh, FreshIn, CapacityFree
<1>11. CASE PrepareDecision(r)
    <2> DEFINE w == write[r]
    <2>1. /\ w.act = "decide" /\ w.h \in HoldIds /\ w.a \in Printing
          /\ hold[w.h].revision = w.rev /\ Live(w.h)
          /\ <<hold[w.h].status, w.to>> \in Decisions
          /\ Enter(r, "prepared", w) /\ UNCHANGED store
        BY <1>11 DEF PrepareDecision, Inv, Carried, CarriesAsked
    <2>2. hold[w.h].revision \in Nat
        BY <2>1 DEF Inv, Trials, Trial
    <2> HIDE DEF w
    <2> QED BY <1>3, <2>1, <2>2 DEF CarriesPrepared, Fresh, FreshIn, Live
<1>12. CASE \/ Withdraw(r) \/ Commit(r) \/ CommitBegin(r) \/ CommitDecision(r)
            \/ StopDirect(r) \/ StopSettle(r) \/ RestoreDone(r) \/ Crash(r)
    <2>1. Enter(r, "idle", NoWrite)
        BY <1>12 DEF Withdraw, Commit, CommitBegin, CommitDecision, StopDirect, StopSettle,
                     RestoreDone, Crash, Leave
    <2> QED BY <1>1, <2>1
<1>13. ASSUME NEW o, NEW asking, StopBegin(r, o, asking) PROVE Goal
    <2>1. \E w : Enter(r, "publish", w) \/ Enter(r, "direct", w)
        <3>1. \E w : \E at \in {"publish", "direct"} : Enter(r, at, w)
            BY <1>13, Zenon DEF StopBegin
        <3> QED BY <3>1
    <2> QED BY <1>1, <2>1
<1>14. ASSUME NEW o, RestoreBegin(r, o) PROVE Goal
    <2>1. \E w : Enter(r, "restore", w)
        BY <1>14, Zenon DEF RestoreBegin
    <2> QED BY <1>1, <2>1
<1>15. CASE StopPublish(r)
    BY <1>1, <1>15 DEF StopPublish, Leave
<1>16. ASSUME NEW h, StopTrial(r, h) PROVE Goal
    BY <1>1, <1>16 DEF StopTrial, Leave
<1>17. CASE StopTrialsDone(r)
    BY <1>1, <1>17 DEF StopTrialsDone, Leave
<1>18. ASSUME NEW a, StopStage(r, a) PROVE Goal
    BY <1>1, <1>18 DEF StopStage, Leave
<1>19. ASSUME NEW a, RestoreOne(r, a) PROVE Goal
    BY <1>1, <1>19 DEF RestoreOne, Leave
<1>20. ASSUME UNCHANGED <<pc, write>> PROVE Goal
    BY <1>20 DEF Goal
<1> QED
    BY <1>4, <1>5, <1>6, <1>7, <1>8, <1>9, <1>10, <1>11, <1>12, <1>13, <1>14, <1>15, <1>16,
       <1>17, <1>18, <1>19, <1>20
       DEF UpgradeToClose, MoveSequence

\* A trial stays, begins, or takes a permitted step that counts.
Advances(k) ==
    \/ hold'[k] = hold[k]
    \/ hold[k].status = "free" /\ hold'[k].status = "running"
    \/ \E to : TrialStep(k, to) /\ <<hold[k].status, to>> \in TrialSteps

\* Every effect leaves a trial alone or advances it the way its state permits.
LEMMA TrialEffect == ASSUME Inv, Effect, NEW k \in HoldIds PROVE Advances(k)
<1> USE DEF Inv
<1>1. CASE UNCHANGED hold
    BY <1>1 DEF Advances
<1>2. ASSUME NEW h, NEW to, hold' = HoldAfter(h, to),
             h # NoHold => <<hold[h].status, to>> \in TrialSteps
      PROVE  Advances(k)
    <2>1. CASE k # h
        BY <1>2, <2>1, HoldStep DEF Advances
    <2>2. CASE k = h
        <3>1. k # NoHold
            BY RoutesAssumption
        <3>2. TrialStep(k, to)
            BY <1>2, <2>2, <3>1, HoldStep
        <3> QED BY <1>2, <2>2, <3>1, <3>2 DEF Advances
    <2> QED BY <2>1, <2>2
<1>3. ASSUME NEW w, Worked(w) PROVE Advances(k)
    <2> DEFINE to == IF w.act = "start" THEN "consumed" ELSE "cancelled"
    <2>1. hold' = HoldAfter(w.h, to)
        BY <1>3 DEF Worked, Moved, HoldsAfter
    <2>2. w.h # NoHold => <<hold[w.h].status, to>> \in TrialSteps
        BY <1>3 DEF Worked, HoldUsable, Live, TrialSteps, Decisions
    <2> HIDE DEF to
    <2> QED BY <1>2, <2>1, <2>2
<1>4. ASSUME NEW w, Begun(w) PROVE Advances(k)
    BY <1>4 DEF Begun, BeginAllowed, CarriesPrepared, Trials, Advances
<1>5. ASSUME NEW w, Decided(w) PROVE Advances(k)
    <2>1. <<hold[w.h].status, w.to>> \in Decisions
        BY <1>5 DEF Decided, Fresh, FreshIn, DecisionAllowed
    <2> QED BY <1>2, <1>5, <2>1 DEF Decided, TrialSteps
<1>6. ASSUME NEW a, NEW o, NEW h, NEW sess, NEW c, Stopped(a, o, h, sess, c) PROVE Advances(k)
    <2>1. hold' = HoldAfter(h, "cancelled") /\ (h # NoHold => Live(h))
        BY <1>6 DEF Stopped, Moved
    <2> QED BY <1>2, <2>1 DEF Live, TrialSteps, Decisions
<1> QED BY <1>1, <1>3, <1>4, <1>5, <1>6 DEF Effect, Quiet, Recorded, Released, Moved

\* What requests carry stays true while others commit.
LEMMA NextCarried ==
    ASSUME Inv, Effect,
           \/ UNCHANGED <<pc, write>>
           \/ \E r \in Requests : \E at, w : GoesOn(r, at, w)
    PROVE  Carried'
<1> SUFFICES ASSUME NEW q \in Requests
             PROVE  /\ pc'[q] = "asked" => CarriesAsked(write'[q])
                    /\ pc'[q] = "prepared" => CarriesPrepared(write'[q]) /\ FreshIn(write'[q], hold')
    BY DEF Carried, CarriesAsked, CarriesPrepared, Fresh
<1>1. ASSUME NEW w, CarriesPrepared(w), Fresh(w) PROVE FreshIn(w, hold')
    <2> SUFFICES ASSUME w.act = "decide" PROVE FreshIn(w, hold')
        BY DEF FreshIn
    <2>1. w.h \in HoldIds /\ hold[w.h].revision \in Nat
        BY <1>1 DEF CarriesPrepared, Inv, Trials, Trial
    <2>2. Advances(w.h)
        BY <2>1, TrialEffect
    <2>3. CASE hold'[w.h] = hold[w.h]
        BY <1>1, <2>3 DEF Fresh, FreshIn
    <2>4. ASSUME NEW to, TrialStep(w.h, to), <<hold[w.h].status, to>> \in TrialSteps PROVE FreshIn(w, hold')
        <3>1. to # "free"
            BY <2>4 DEF TrialSteps, Decisions
        <3> QED BY <1>1, <2>1, <2>4, <3>1 DEF Fresh, FreshIn, TrialStep
    <2> QED BY <1>1, <2>2, <2>3, <2>4 DEF Advances, Fresh, FreshIn
<1>2. CASE pc'[q] = pc[q] /\ write'[q] = write[q]
    <2>1. /\ pc[q] = "asked" => CarriesAsked(write[q])
          /\ pc[q] = "prepared" => CarriesPrepared(write[q]) /\ Fresh(write[q])
        BY DEF Inv, Carried
    <2> QED BY <1>1, <1>2, <2>1
<1>3. CASE ~ (pc'[q] = pc[q] /\ write'[q] = write[q])
    <2>1. PICK at, w : GoesOn(q, at, w)
        BY <1>3 DEF GoesOn, Enter, Inv, Tables
    <2>2. pc'[q] = at /\ write'[q] = w
        BY <2>1 DEF GoesOn, Enter, Inv, Tables
    <2> QED BY <1>1, <2>1, <2>2 DEF GoesOn
<1> QED BY <1>2, <1>3

\* The invariant that carries the proofs of this module: rows exist, trials
\* are on printing machines, and prepared requests carry what they checked.
THEOREM Inductive == Spec => []Inv
<1>1. Init => Inv
    BY RoutesAssumption DEF Init, Inv, Tables, Trials, Trial, Carried, FreeHold, NoQueue, HoldStates
<1>2. Inv /\ [Next]_vars => Inv'
    <2> SUFFICES ASSUME Inv, [Next]_vars PROVE Inv'
        OBVIOUS
    <2>1. CASE Next
        BY <2>1, Effects, Steps, NextTables, NextTrials, NextCarried DEF Inv
    <2>2. CASE UNCHANGED vars
        BY <2>2 DEF vars, store, Inv, Tables, Trials, Carried, CarriesAsked, CarriesPrepared, Fresh, FreshIn
    <2> QED BY <2>1, <2>2
<1> QED BY <1>1, <1>2, PTL DEF Spec
-----------------------------------------------------------------------------
(* What a transaction does to one row.                                     *)

\* What the transaction of a queue action leaves in each row.
LEMMA MovedRows ==
    ASSUME Inv, NEW a, NEW o, NEW to, NEW sess, NEW hd, NEW c, Moved(a, o, to, sess, hd, c),
           NEW b \in Apparatuses, NEW p \in Orders
    PROVE  /\ queue'[b][p] = IF b = a /\ p = o THEN to ELSE queue[b][p]
           /\ session'[b][p] = IF b = a /\ p = o THEN sess ELSE session[b][p]
           /\ p # o => control'[p] = control[p]
           /\ p = o => \/ control'[p] = c
                       \/ ~ IsRunning(o, queue', session', hold')
<1>1. /\ queue'[b][p] = IF b = a /\ p = o THEN to ELSE queue[b][p]
      /\ session'[b][p] = IF b = a /\ p = o THEN sess ELSE session[b][p]
    BY Row DEF Moved, Inv, Tables
<1>2. p # o => control'[p] = control[p]
    BY DEF Moved, Inv, Tables
<1>3. p = o => control'[p] = Finalized(o, c, queue', session', hold')
    BY DEF Moved, Inv, Tables
<1> QED BY <1>1, <1>2, <1>3 DEF Finalized

\* Beginning and deciding a trial touch only the row of its printing machine.
LEMMA TrialRows ==
    ASSUME Inv, NEW w, Begun(w) \/ Decided(w), NEW b \in Apparatuses, NEW p \in Orders
    PROVE  /\ w.a \in Printing
           /\ b # w.a => queue'[b][p] = queue[b][p]
           /\ \/ queue'[b][p] = queue[b][p]
              \/ queue'[b][p] \in {"print_preflight", "pending", "none"}
<1>1. CASE Begun(w)
    <2>1. w.a \in Printing /\ queue' = [queue EXCEPT ![w.a][w.o] = "print_preflight"]
        BY <1>1 DEF Begun, CarriesPrepared
    <2> QED BY <2>1, Row DEF Inv, Tables
<1>2. CASE Decided(w)
    <2>1. /\ w.a \in Printing /\ w.h \in HoldIds
          /\ queue' = [queue EXCEPT ![w.a][w.o] = QueueAfterDecision(w)]
        BY <1>2 DEF Decided, CarriesPrepared
    <2>2. hold[w.h].previous \in {"none", "pending"}
        BY <2>1 DEF Inv, Trials, Trial
    <2>3. QueueAfterDecision(w) \in {"print_preflight", "pending", "none", queue[w.a][w.o]}
        BY <2>2 DEF QueueAfterDecision
    <2> HIDE DEF QueueAfterDecision
    <2> QED BY <2>1, <2>3, Row DEF Inv, Tables
<1> QED BY <1>1, <1>2

\* Only a worker's action puts an order to work, pauses or completes it.
LEMMA RowEffect ==
    ASSUME Inv, Effect, NEW b \in Apparatuses, NEW p \in Orders
    PROVE  \/ queue'[b][p] = queue[b][p]
           \/ queue'[b][p] \in {"print_preflight", "frozen", "pending", "none"}
           \/ \E r \in Requests : /\ pc[r] = "prepared" /\ Worked(write[r])
                                  /\ write[r].a = b /\ write[r].o = p
                                  /\ queue'[b][p] = write[r].to
<1>1. ASSUME NEW w, Worked(w)
      PROVE  queue'[b][p] = queue[b][p] \/ (w.a = b /\ w.o = p /\ queue'[b][p] = w.to)
    BY <1>1, MovedRows DEF Worked
<1>2. ASSUME NEW a, NEW o, NEW h, NEW sess, NEW c, Stopped(a, o, h, sess, c)
      PROVE  queue'[b][p] \in {queue[b][p], "frozen"}
    BY <1>2, MovedRows DEF Stopped
<1>3. ASSUME NEW a, NEW o, Released(a, o) PROVE queue'[b][p] \in {queue[b][p], "pending"}
    BY <1>3, MovedRows DEF Released
<1>4. CASE Quiet
    BY <1>4 DEF Quiet
<1>5. ASSUME NEW o, NEW c, Recorded(o, c) PROVE queue'[b][p] = queue[b][p]
    BY <1>5 DEF Recorded
<1> QED BY <1>1, <1>2, <1>3, <1>4, <1>5, TrialRows DEF Effect

\* The slot of a finite-capacity apparatus is never given twice, by any number
\* of server processes: ensure_apparatus_execution_capacity reads the queue
\* before the transaction, and validate_write_tx commits only if it is still
\* the queue that was read.
THEOREM SlotGivenOnce == Spec => []CapacityRespected
<1>1. Init => CapacityRespected
    BY RoutesAssumption DEF Init, CapacityRespected, NoQueue
<1>2. Inv /\ CapacityRespected /\ [Next]_vars => CapacityRespected'
    <2> SUFFICES ASSUME Inv, CapacityRespected, [Next]_vars,
                        NEW a \in Finite, NEW o \in Orders, NEW p \in Orders, o # p,
                        queue'[a][o] = "in_progress", queue'[a][p] = "in_progress"
                 PROVE  FALSE
        BY DEF CapacityRespected
    <2>1. a \in Apparatuses
        BY RoutesAssumption
    <2>2. CASE UNCHANGED vars
        BY <2>2 DEF vars, store, CapacityRespected
    <2>3. CASE Next
        <3>1. Effect
            BY <2>3, Effects
        <3>2. ASSUME NEW x \in Orders, NEW y \in Orders, x # y, queue'[a][y] = "in_progress",
                     NEW w, Worked(w), w.a = a, w.o = x, w.to = "in_progress"
              PROVE  FALSE
            <4>1. w.act \in {"start", "resume"}
                BY <3>2 DEF Worked, CarriesPrepared
            <4>2. w.seen[y] # "in_progress" /\ queue[a] = w.seen
                BY <3>2, <4>1 DEF Worked, CarriesPrepared, WitnessHolds
            <4>3. queue'[a][y] = queue[a][y]
                BY <2>1, <3>2, MovedRows DEF Worked
            <4> QED BY <3>2, <4>2, <4>3
        <3>3. queue[a][o] = "in_progress"
            BY <2>1, <3>1, <3>2, RowEffect
        <3>4. queue[a][p] = "in_progress"
            BY <2>1, <3>1, <3>2, RowEffect
        <3> QED BY <3>3, <3>4 DEF CapacityRespected
    <2> QED BY <2>2, <2>3
<1> QED BY <1>1, <1>2, Inductive, PTL DEF Spec

\* No machine starts, pauses or completes an order once its stop is recorded,
\* however late the worker's request commits: validate_execution_controls_tx
\* reads the order's control inside the transaction.
THEOREM StopIsRespected == Spec => NoWorkAfterStop
<1>1. Inv /\ [Next]_vars =>
          [\A a \in Apparatuses, o \in Orders :
              control[o].state # "active" /\ queue'[a][o] # queue[a][o]
                  => queue'[a][o] \notin {"in_progress", "paused", "completed"}]_vars
    <2> SUFFICES ASSUME Inv, Next, NEW a \in Apparatuses, NEW o \in Orders,
                        control[o].state # "active", queue'[a][o] # queue[a][o]
                 PROVE  queue'[a][o] \notin {"in_progress", "paused", "completed"}
        OBVIOUS
    <2>1. Effect
        BY Effects
    <2>2. ~ \E w : Worked(w) /\ w.a = a /\ w.o = o
        BY DEF Worked
    <2> QED BY <2>1, <2>2, RowEffect
<1> QED BY <1>1, Inductive, PTL DEF Spec, NoWorkAfterStop

\* Every change of a colour trial is one the worker saw the reason for: late
\* decisions and consumptions of a reopened trial are refused
\* (advance_print_preflight_at_revision, consume_print_preflight_hold_tx).
THEOREM DecidedOnce == Spec => TrialsAreDecidedOnce
<1>1. Inv /\ [Next]_vars =>
          [\A h \in HoldIds : hold'[h].status # hold[h].status =>
              <<hold[h].status, hold'[h].status>> \in TrialSteps]_vars
    <2> SUFFICES ASSUME Inv, Next, NEW h \in HoldIds, hold'[h].status # hold[h].status
                 PROVE  <<hold[h].status, hold'[h].status>> \in TrialSteps
        OBVIOUS
    <2>1. Advances(h)
        BY Effects, TrialEffect
    <2> QED BY <2>1 DEF Advances, TrialStep, TrialSteps
<1> QED BY <1>1, Inductive, PTL DEF Spec, TrialsAreDecidedOnce


\* The queue row and the run session of a machine agree on whether work is
\* running: apply_queue_progress_tx writes both or neither, a stop freezes the
\* session of a running row, a release never revives one.
THEOREM RecordsAgree == Spec => []WorkMatchesQueue
<1>1. Init => WorkMatchesQueue
    BY DEF Init, WorkMatchesQueue, NoQueue
<1>2. Inv /\ WorkMatchesQueue /\ [Next]_vars => WorkMatchesQueue'
    <2> SUFFICES ASSUME Inv, WorkMatchesQueue, [Next]_vars,
                        NEW b \in Apparatuses \ Printing, NEW p \in Orders
                 PROVE  session'[b][p] = "active" <=> queue'[b][p] = "in_progress"
        BY DEF WorkMatchesQueue
    <2>1. session[b][p] = "active" <=> queue[b][p] = "in_progress"
        BY DEF WorkMatchesQueue
    <2>2. CASE UNCHANGED <<queue, session>>
        BY <2>1, <2>2
    <2>3. ASSUME NEW w, Worked(w)
          PROVE  session'[b][p] = "active" <=> queue'[b][p] = "in_progress"
        <3>1. SessionAfter(w) = "active" <=> w.to = "in_progress"
            BY <2>3 DEF Worked, CarriesPrepared, SessionAfter
        <3> HIDE DEF SessionAfter
        <3> QED BY <2>1, <2>3, <3>1, MovedRows DEF Worked
    <2>4. ASSUME NEW w, Begun(w) \/ Decided(w)
          PROVE  session'[b][p] = "active" <=> queue'[b][p] = "in_progress"
        BY <2>1, <2>4, TrialRows DEF Begun, Decided
    <2>5. ASSUME NEW a, NEW o, NEW h, NEW sess, NEW c, Stopped(a, o, h, sess, c)
          PROVE  session'[b][p] = "active" <=> queue'[b][p] = "in_progress"
        <3>1. b = a /\ p = o => sess # "active"
            BY <2>1, <2>5 DEF Stopped, Resting
        <3> QED BY <2>1, <2>5, <3>1, MovedRows DEF Stopped
    <2>6. ASSUME NEW a, NEW o, Released(a, o)
          PROVE  session'[b][p] = "active" <=> queue'[b][p] = "in_progress"
        <3>1. b = a /\ p = o => ReleasedSession(session[a][o]) # "active"
            BY <2>1, <2>6 DEF Released, ReleasedSession
        <3> QED BY <2>1, <2>6, <3>1, MovedRows DEF Released
    <2>7. CASE Next
        <3>1. Effect
            BY <2>7, Effects
        <3> QED BY <2>2, <2>3, <2>4, <2>5, <2>6, <3>1 DEF Effect, Quiet, Recorded
    <2> QED BY <2>2, <2>7 DEF vars, store
<1> QED BY <1>1, <1>2, Inductive, PTL DEF Spec

\* A run on a machine without colour trials: one that a stop froze has a frozen
\* row, one that was released waits in a pending row.
PlainRunsFit ==
    \A a \in Apparatuses \ Printing, o \in Orders :
        /\ session[a][o] = "frozen" => queue[a][o] = "frozen"
        /\ session[a][o] = "requeued" => Parsed(queue[a][o]) = "pending"

\* However many processes there are, on a machine without colour trials a frozen
\* run has a frozen row and a released one a pending row, from which it can be
\* resumed: a stop that freezes a row without its session takes only rows at rest,
\* and a release turns both at once (prepare_direct_freeze_queue_write,
\* restore_one_frozen_queue, unfrozen_order_run_session).
THEOREM PlainRunsKeepTheirRows == Spec => []PlainRunsFit
<1>1. Init => PlainRunsFit
    BY DEF Init, PlainRunsFit
<1>2. Inv /\ PlainRunsFit /\ [Next]_vars => PlainRunsFit'
    <2> DEFINE Fits(q, s) == (s = "frozen" => q = "frozen") /\ (s = "requeued" => Parsed(q) = "pending")
    <2> SUFFICES ASSUME Inv, PlainRunsFit, [Next]_vars,
                        NEW b \in Apparatuses \ Printing, NEW p \in Orders
                 PROVE  Fits(queue'[b][p], session'[b][p])
        BY DEF PlainRunsFit
    <2>1. Fits(queue[b][p], session[b][p])
        BY DEF PlainRunsFit
    <2>2. CASE UNCHANGED <<queue, session>>
        BY <2>1, <2>2
    <2>3. ASSUME NEW a, NEW o, NEW to, NEW sess, NEW hd, NEW c, Moved(a, o, to, sess, hd, c),
                 b = a /\ p = o => Fits(to, sess)
          PROVE  Fits(queue'[b][p], session'[b][p])
        <3> HIDE DEF Fits
        <3> QED BY <2>1, <2>3, MovedRows
    <2>4. ASSUME NEW w, Worked(w) PROVE Fits(queue'[b][p], session'[b][p])
        <3>1. Fits(w.to, SessionAfter(w))
            BY <2>4 DEF Worked, CarriesPrepared, SessionAfter
        <3> QED BY <2>3, <2>4, <3>1 DEF Worked
    <2>5. ASSUME NEW w, Begun(w) \/ Decided(w) PROVE Fits(queue'[b][p], session'[b][p])
        BY <2>1, <2>5, TrialRows DEF Begun, Decided
    <2>6. ASSUME NEW a, NEW o, NEW h, NEW sess, NEW c, Stopped(a, o, h, sess, c)
          PROVE  Fits(queue'[b][p], session'[b][p])
        <3>1. b = a /\ p = o => Fits("frozen", sess)
            BY <2>1, <2>6 DEF Stopped, Resting, Parsed
        <3> QED BY <2>3, <2>6, <3>1 DEF Stopped
    <2>7. ASSUME NEW a, NEW o, Released(a, o) PROVE Fits(queue'[b][p], session'[b][p])
        <3>1. Fits("pending", ReleasedSession(session[a][o]))
            BY DEF ReleasedSession, Parsed
        <3> QED BY <2>3, <2>7, <3>1 DEF Released
    <2>8. CASE Next
        <3>1. Effect
            BY <2>8, Effects
        <3> QED BY <2>2, <2>4, <2>5, <2>6, <2>7, <3>1 DEF Effect, Quiet, Recorded
    <2> QED BY <2>2, <2>8 DEF vars, store
<1> QED BY <1>1, <1>2, Inductive, PTL DEF Spec

\* No machine without colour trials works on a frozen order, although the stop
\* was decided on what an earlier read saw: save_order_control_state_tx and
\* finalize_global_stop_tx look again, worker actions need an active order.
THEOREM FrozenMachinesRest == Spec => []StoppedMachineIsQuiet
<1>1. Init => StoppedMachineIsQuiet
    BY DEF Init, StoppedMachineIsQuiet, NoControl
<1>2. Inv /\ StoppedMachineIsQuiet /\ [Next]_vars => StoppedMachineIsQuiet'
    <2> DEFINE Rests(b, p) == session'[b][p] # "active" /\ queue'[b][p] \notin ActiveStates
    <2> SUFFICES ASSUME Inv, StoppedMachineIsQuiet, [Next]_vars,
                        NEW p \in Orders, NEW b \in Apparatuses \ Printing,
                        control'[p].state = "frozen"
                 PROVE  Rests(b, p)
        BY DEF StoppedMachineIsQuiet
    <2>1. control[p].state = "frozen" => session[b][p] # "active" /\ queue[b][p] \notin ActiveStates
        BY DEF StoppedMachineIsQuiet
    <2>2. ASSUME NEW q, NEW s, NEW hd, ~ IsRunning(p, q, s, hd)
          PROVE  s[b][p] # "active" /\ q[b][p] \notin ActiveStates
        BY <2>2 DEF IsRunning
    <2>3. CASE UNCHANGED <<queue, session, control>>
        BY <2>1, <2>3
    <2>4. ASSUME NEW o, NEW c, Recorded(o, c) PROVE Rests(b, p)
        <3>1. UNCHANGED <<queue, session>> /\ control' = [control EXCEPT ![o] = c]
            BY <2>4 DEF Recorded
        <3>2. CASE p # o
            BY <2>1, <3>1, <3>2 DEF Inv, Tables
        <3>3. CASE p = o
            <4>1. ~ IsRunning(p, queue, session, hold)
                BY <2>4, <3>1, <3>3 DEF Recorded, SaveAllowed, Inv, Tables
            <4> QED BY <2>2, <3>1, <4>1
        <3> QED BY <3>2, <3>3
    <2>5. ASSUME NEW a, NEW o, NEW to, NEW sess, NEW hd, NEW c, Moved(a, o, to, sess, hd, c), p # o
          PROVE  Rests(b, p)
        BY <2>1, <2>5, MovedRows
    <2>6. ASSUME NEW a, NEW o, NEW to, NEW sess, NEW hd, NEW c, Moved(a, o, to, sess, hd, c), p = o
          PROVE  c.state = "frozen" \/ Rests(b, p)
        BY <2>2, <2>6, MovedRows
    <2>7. ASSUME NEW w, Worked(w) PROVE Rests(b, p)
        BY <2>5, <2>6, <2>7 DEF Worked
    <2>8. ASSUME NEW w, Begun(w) \/ Decided(w) PROVE Rests(b, p)
        BY <2>1, <2>8, TrialRows DEF Begun, Decided
    <2>9. ASSUME NEW a, NEW o, NEW h, NEW sess, NEW c, Stopped(a, o, h, sess, c) PROVE Rests(b, p)
        <3>1. CASE p = o
            BY <2>2, <2>6, <2>9, <3>1 DEF Stopped, Resting
        <3> QED BY <2>5, <2>9, <3>1 DEF Stopped
    <2>10. ASSUME NEW a, NEW o, Released(a, o) PROVE Rests(b, p)
        <3>1. CASE p = o /\ control[p].state = "frozen"
            <4>1. /\ queue'[b][p] \in {"pending", queue[b][p]}
                  /\ session'[b][p] \in {session[b][p], ReleasedSession(session[b][p])}
                BY <2>10, MovedRows DEF Released
            <4> QED BY <2>1, <3>1, <4>1 DEF ReleasedSession, ActiveStates
        <3>2. CASE p = o /\ control[p].state # "frozen"
            BY <2>6, <2>10, <3>2 DEF Released
        <3>3. CASE p # o
            BY <2>5, <2>10, <3>3 DEF Released
        <3> QED BY <3>1, <3>2, <3>3
    <2>11. CASE Next
        <3>1. Effect
            BY <2>11, Effects
        <3> HIDE DEF Rests
        <3> QED BY <2>3, <2>4, <2>7, <2>8, <2>9, <2>10, <3>1 DEF Effect, Quiet
    <2> QED BY <2>3, <2>11 DEF vars, store
<1> QED BY <1>1, <1>2, Inductive, PTL DEF Spec

-----------------------------------------------------------------------------
(* The vocabulary, the sequences of closed orders, and the rows in trial.  *)

\* A stop record that closes its order has stopped it.
Sound(c) == c \in ControlRecord /\ (c.close = "closed" => c.state = "frozen")

Acts == {"none", "start", "resume", "pause", "complete", "freeze", "begin", "decide",
         "stop", "restore"}

Places == {"idle", "asked", "prepared", "direct", "publish", "trials", "stages", "restore"}

\* h is, or was, the trial of the order on the apparatus.
Names(hd, h, o, a) ==
    h \in HoldIds /\ hd[h].status # "free" /\ hd[h].order = o /\ hd[h].apparatus = a

\* What a request at a place carries, whatever happened since.
Bound(at, w) ==
    /\ at \in Places /\ w \in WriteRecord /\ Sound(w.ctl)
    /\ at # "idle" => w.o \in Orders
    /\ at \in {"asked", "prepared"} => w.a \in Apparatuses
    /\ at \in {"direct", "publish", "trials", "stages", "restore"} => Alone(w.act)
    /\ at = "prepared" /\ w.act \in {"start", "resume"} /\ w.a \in Strict \ Printing =>
          \A p \in Orders \ {w.o} : w.seen[p] \notin ActiveStates

\* The trials a request carries are of its order, on the machine it means.
About(at, w, hd) ==
    /\ at \in {"asked", "prepared"} /\ w.act = "decide" => Names(hd, w.h, w.o, w.a)
    /\ at = "direct" /\ w.h # NoHold =>
          w.ctl.target # NoApparatus /\ Names(hd, w.h, w.o, w.ctl.target)
    /\ at \in {"publish", "trials"} =>
          \A h \in w.trials : hd[h].status # "free" /\ hd[h].order = w.o

\* Giving one field of a record a new value.
LEMMA WriteUpdate ==
    ASSUME NEW w \in WriteRecord
    PROVE  /\ \A v \in Acts : [w EXCEPT !.act = v] \in WriteRecord
           /\ \A v \in Apparatuses \union {NoApparatus} : [w EXCEPT !.a = v] \in WriteRecord
           /\ \A v \in Orders \union {NoOrder} : [w EXCEPT !.o = v] \in WriteRecord
           /\ \A v \in HoldIds \union {NoHold} : [w EXCEPT !.h = v] \in WriteRecord
           /\ \A v \in QueueStates : [w EXCEPT !.from = v] \in WriteRecord
           /\ \A v \in QueueStates \union HoldStates : [w EXCEPT !.to = v] \in WriteRecord
           /\ \A v \in Nat : [w EXCEPT !.rev = v] \in WriteRecord
           /\ \A v \in [Orders -> QueueStates] : [w EXCEPT !.seen = v] \in WriteRecord
           /\ \A v \in Seq(Orders) : [w EXCEPT !.line = v] \in WriteRecord
           /\ \A v \in ControlRecord : [w EXCEPT !.ctl = v] \in WriteRecord
           /\ \A v \in SUBSET HoldIds : [w EXCEPT !.trials = v] \in WriteRecord
           /\ \A v \in SUBSET Apparatuses : [w EXCEPT !.stages = v] \in WriteRecord
           /\ \A v \in BOOLEAN : [w EXCEPT !.working = v] \in WriteRecord
<1>1. /\ \A v \in Acts : [w EXCEPT !.act = v] \in WriteRecord
      /\ \A v \in Apparatuses \union {NoApparatus} : [w EXCEPT !.a = v] \in WriteRecord
      /\ \A v \in Orders \union {NoOrder} : [w EXCEPT !.o = v] \in WriteRecord
      /\ \A v \in HoldIds \union {NoHold} : [w EXCEPT !.h = v] \in WriteRecord
    BY ZenonT(60) DEF WriteRecord, Acts
<1>2. /\ \A v \in QueueStates : [w EXCEPT !.from = v] \in WriteRecord
      /\ \A v \in QueueStates \union HoldStates : [w EXCEPT !.to = v] \in WriteRecord
      /\ \A v \in Nat : [w EXCEPT !.rev = v] \in WriteRecord
      /\ \A v \in [Orders -> QueueStates] : [w EXCEPT !.seen = v] \in WriteRecord
      /\ \A v \in Seq(Orders) : [w EXCEPT !.line = v] \in WriteRecord
    BY DEF WriteRecord
<1>3. /\ \A v \in ControlRecord : [w EXCEPT !.ctl = v] \in WriteRecord
      /\ \A v \in SUBSET HoldIds : [w EXCEPT !.trials = v] \in WriteRecord
      /\ \A v \in SUBSET Apparatuses : [w EXCEPT !.stages = v] \in WriteRecord
      /\ \A v \in BOOLEAN : [w EXCEPT !.working = v] \in WriteRecord
    BY DEF WriteRecord
<1> QED BY <1>1, <1>2, <1>3

\* A fresh record is well typed.
LEMMA CommandType ==
    ASSUME NEW act \in Acts, NEW a \in Apparatuses \union {NoApparatus},
           NEW o \in Orders \union {NoOrder}, NEW h \in HoldIds \union {NoHold}
    PROVE  /\ Command(act, a, o, h) \in WriteRecord
           /\ Command(act, a, o, h).ctl = NoControl
           /\ Sound(NoControl) /\ NoWrite \in WriteRecord /\ Sound(NoWrite.ctl)
<1>1. NoQueue \in [Orders -> QueueStates]
    BY DEF NoQueue, QueueStates
<1>2. NoControl \in ControlRecord /\ NoControl.close = "no"
    BY DEF NoControl, ControlRecord
<1>3. <<>> \in Seq(Orders)
    OBVIOUS
<1>4. NoWrite \in WriteRecord
    BY <1>1, <1>2, <1>3 DEF NoWrite, WriteRecord, QueueStates
<1>5. PICK b, c, d :
          /\ b = [NoWrite EXCEPT !.act = act] /\ c = [b EXCEPT !.a = a]
          /\ d = [c EXCEPT !.o = o]
    OBVIOUS
<1>6. b \in WriteRecord /\ c \in WriteRecord /\ d \in WriteRecord
    BY <1>4, <1>5, WriteUpdate
<1>7. Command(act, a, o, h) = [d EXCEPT !.h = h]
    BY <1>5, Zenon DEF Command
<1>8. Command(act, a, o, h) \in WriteRecord
    BY <1>6, <1>7, WriteUpdate
<1>9. Command(act, a, o, h).ctl = NoControl /\ NoWrite.ctl = NoControl
    BY DEF Command, NoWrite
<1> QED BY <1>2, <1>4, <1>8, <1>9 DEF Sound

\* What a well-typed request carries, as one of the kinds of request there are.
LEMMA NothingCarried == Bound("idle", NoWrite) /\ About("idle", NoWrite, hold)
<1>1. "none" \in Acts
    BY DEF Acts
<1>2. NoWrite \in WriteRecord /\ Sound(NoWrite.ctl)
    BY <1>1, CommandType
<1> QED BY <1>2 DEF Bound, About, Places

\* Stages and trials are the only fields a request changes on its way.
LEMMA WriteKeeps ==
    ASSUME NEW w \in WriteRecord, NEW v
    PROVE  /\ LET x == [w EXCEPT !.trials = v]
              IN  /\ x.act = w.act /\ x.a = w.a /\ x.o = w.o /\ x.h = w.h
                  /\ x.ctl = w.ctl /\ x.trials = v /\ x.stages = w.stages /\ x.seen = w.seen
           /\ LET x == [w EXCEPT !.stages = v]
              IN  /\ x.act = w.act /\ x.a = w.a /\ x.o = w.o /\ x.h = w.h
                  /\ x.ctl = w.ctl /\ x.stages = v /\ x.trials = w.trials /\ x.seen = w.seen
BY DEF WriteRecord

\* Of a record with one member the member is taken.
LEMMA TheOne ==
    ASSUME NEW S, S # {} \/ Cardinality(S) = 1
    PROVE  The(S) \in S
<1>1. S # {}
    BY FS_EmptySet
<1> QED BY <1>1 DEF The

\* The record request_order_stop decides on.
LEMMA StopRecordType ==
    ASSUME TypeOK, NEW o \in Orders, NEW asking \in BOOLEAN
    PROVE  LET rec == StopRecord(o, asking)
           IN  /\ Sound(rec)
               /\ ~ rec.bySession /\ rec.target # NoApparatus =>
                     /\ TrialsOf(o) # {}
                     /\ rec.target = hold[The(TrialsOf(o))].apparatus
<1> DEFINE active == SessionsIn(o, {"active"})
           paused == SessionsIn(o, {"paused", "requeued"})
           trials == TrialsOf(o)
           passed == {h \in trials : hold[h].status = "passed"}
           waits  == \/ Working(o)
                     \/ passed # {} /\ (Cardinality(trials) > 1 \/ paused # {})
           bySession == IF waits THEN Cardinality(active) = 1 /\ trials = {}
                                 ELSE Cardinality(paused) = 1
           byTrial == /\ ~ bySession /\ (waits => active = {})
                      /\ Cardinality(trials) = 1
           target == IF bySession THEN The(IF waits THEN active ELSE paused)
                     ELSE IF byTrial THEN hold[The(trials)].apparatus ELSE NoApparatus
           rec == StopRecord(o, asking)
<1>1. /\ rec.state = IF waits THEN "freeze_requested" ELSE "frozen"
      /\ rec.close = IF ~ asking THEN "no" ELSE IF waits THEN "asked" ELSE "closed"
      /\ rec.target = target /\ rec.bySession = bySession
    BY Zenon DEF StopRecord
<1>2. rec = [state |-> rec.state, status |-> IF waits THEN "pending" ELSE "frozen",
             target |-> target, bySession |-> bySession,
             request |-> IF asking /\ ~ Started(o) THEN 0 ELSE FreshRequest(o),
             close |-> rec.close]
    BY Zenon DEF StopRecord
<1>3. FreshRequest(o) \in Nat
    BY DEF FreshRequest, TypeOK
<1>4. active \subseteq Apparatuses /\ paused \subseteq Apparatuses /\ trials \subseteq HoldIds
    BY DEF SessionsIn, TrialsOf
<1>5. byTrial => trials # {}
    BY FS_EmptySet
<1>6. bySession => target \in Apparatuses
    <2>1. Cardinality(active) = 1 => The(active) \in active
        BY TheOne
    <2>2. Cardinality(paused) = 1 => The(paused) \in paused
        BY TheOne
    <2> HIDE DEF active, paused, trials, waits
    <2> QED BY <1>4, <2>1, <2>2
<1>7. byTrial => hold[The(trials)].apparatus \in Apparatuses \union {NoApparatus}
    <2> SUFFICES ASSUME byTrial PROVE hold[The(trials)].apparatus \in Apparatuses \union {NoApparatus}
        OBVIOUS
    <2>1. The(trials) \in HoldIds
        BY <1>4, <1>5, TheOne
    <2> HIDE DEF trials, byTrial
    <2> QED BY <2>1 DEF TypeOK, HoldRecord
<1> HIDE DEF waits, byTrial, active, paused, trials
<1>8. target \in Apparatuses \union {NoApparatus}
    BY <1>6, <1>7
<1>9. bySession \in BOOLEAN
    BY DEF waits, trials
<1> HIDE DEF bySession, target
<1>10. rec.state \in {"active", "freeze_requested", "frozen"} /\ rec.close \in {"no", "asked", "closed"}
       /\ (rec.close = "closed" => rec.state = "frozen")
    BY <1>1
<1> HIDE DEF rec
<1>11. rec \in ControlRecord
    BY <1>2, <1>3, <1>8, <1>9, <1>10 DEF ControlRecord
<1>12. ~ rec.bySession /\ rec.target # NoApparatus => byTrial /\ rec.target = hold[The(trials)].apparatus
    BY <1>1 DEF target
<1> QED BY <1>5, <1>10, <1>11, <1>12 DEF Sound, rec, trials

\* A settled stop record.
LEMMA FrozenNowType ==
    ASSUME NEW c \in ControlRecord
    PROVE  Sound(FrozenNow(c)) /\ FrozenNow(c).state = "frozen"
<1>1. PICK b, d : b = [c EXCEPT !.state = "frozen"] /\ d = [b EXCEPT !.status = "frozen"]
    OBVIOUS
<1>2. b \in ControlRecord /\ b.state = "frozen" /\ b.close = c.close
    BY <1>1 DEF ControlRecord
<1>3. d \in ControlRecord /\ d.state = "frozen" /\ d.close = c.close
    BY <1>1, <1>2 DEF ControlRecord
<1>4. PICK v : v = IF d.close = "asked" THEN "closed" ELSE d.close
    OBVIOUS
<1>5. FrozenNow(c) = [d EXCEPT !.close = IF @ = "asked" THEN "closed" ELSE @]
    BY <1>1, Zenon DEF FrozenNow
<1>6. FrozenNow(c) = [d EXCEPT !.close = v]
    BY <1>3, <1>4, <1>5 DEF ControlRecord
<1>7. v \in {"no", "closed"}
    BY <1>3, <1>4 DEF ControlRecord
<1>8. FrozenNow(c) \in ControlRecord /\ FrozenNow(c).state = "frozen"
    BY <1>3, <1>6, <1>7 DEF ControlRecord
<1> QED BY <1>8 DEF Sound

Bounds == \A r \in Requests : Bound(pc[r], write[r]) /\ About(pc[r], write[r], hold)

\* A trial that was ever begun is of an order.
TrialOrders == \A h \in HoldIds : hold[h].status # "free" => hold[h].order \in Orders

Safe == TypeOK /\ TrialOrders /\ Bounds /\ ClosedStaysOut /\ TrialRowIsDecidable

\* Work that returns to the tail finds its strict machine free: the sequence
\* lists every order that is not stopped, and a stopped order does not run.
LEMMA FindsItFree ==
    ASSUME Inv, Safe, StoppedMachineIsQuiet, NEW a \in Apparatuses \ Printing, NEW o \in Orders,
           IsFirstActionable(Line(a), queue[a], o), Parsed(queue[a][o]) = "pending",
           NEW p \in Orders
    PROVE  queue[a][p] \notin ActiveStates
<1> SUFFICES ASSUME queue[a][p] \in ActiveStates PROVE FALSE
    OBVIOUS
<1>1. p \notin FrozenOrders
    BY DEF FrozenOrders, StoppedMachineIsQuiet
<1>2. seq[a] \in Seq(Orders) /\ Arrival \in Seq(Orders)
    BY RoutesAssumption DEF Safe, TypeOK
<1>3. PICK s : s = Line(a)
    OBVIOUS
<1>4. s \in Seq(Orders) /\ ToSet(s) = ToSet(Arrival) \ FrozenOrders
    BY <1>2, <1>3, EffectiveElements DEF Line
<1>5. p \in ToSet(Arrival)
    BY <1>2, RoutesAssumption, ElementsType
<1>6. PICK i \in DOMAIN s : s[i] = p
    BY <1>1, <1>4, <1>5 DEF ToSet
<1>7. i \in SlotsIn(s, queue[a], ActiveStates)
    BY <1>6 DEF SlotsIn, Parsed, ActiveStates
<1>8. \E j \in SlotsIn(s, queue[a], ActiveStates) : s[j] = o
    BY <1>3, <1>7, Zenon DEF IsFirstActionable
<1>9. Parsed(queue[a][o]) \in ActiveStates
    BY <1>8 DEF SlotsIn
<1> QED BY <1>9 DEF ActiveStates

\* Whatever a request does next, it carries what its place calls for: the
\* order it is about, the trials of that order, a stop record that closes only
\* what it stops, and, to take a strict machine, a queue that left it free.
LEMMA Enters ==
    ASSUME Inv, Safe, StoppedMachineIsQuiet, Next
    PROVE  \/ UNCHANGED <<pc, write>>
           \/ \E r \in Requests : \E at, w : Enter(r, at, w) /\ Bound(at, w) /\ About(at, w, hold)
<1> DEFINE Goal ==
        \/ UNCHANGED <<pc, write>>
        \/ \E r \in Requests : \E at, w : Enter(r, at, w) /\ Bound(at, w) /\ About(at, w, hold)
<1> SUFFICES Goal
    OBVIOUS
<1> PICK r \in Requests : Next!(r)
    BY DEF Next
<1>0. ASSUME NEW at, NEW w, Enter(r, at, w), Bound(at, w), About(at, w, hold) PROVE Goal
    BY <1>0
<1> HIDE DEF Goal
<1>1. CASE Leave(r)
    BY <1>0, <1>1, NothingCarried DEF Leave
<1>2. Bound(pc[r], write[r]) /\ About(pc[r], write[r], hold)
    BY DEF Safe, Bounds
<1>3. write[r] \in WriteRecord
    BY <1>2 DEF Bound
<1>4. ASSUME NEW w \in WriteRecord, w.o \in Orders, w.a \in Apparatuses, Sound(w.ctl),
             w.act \notin {"start", "resume", "decide"}, Enter(r, "prepared", w)
      PROVE  Goal
    BY <1>0, <1>4 DEF Bound, About, Places
<1>5. ASSUME NEW a \in Apparatuses, NEW o \in Orders
      PROVE  queue[a][o] \in QueueStates /\ queue[a] \in [Orders -> QueueStates]
             /\ seq[a] \in Seq(Orders) /\ control[o] \in ControlRecord
             /\ Parsed(queue[a][o]) \in QueueStates
    BY <1>5 DEF Safe, TypeOK, Parsed, QueueStates
<1>6. ASSUME NEW a \in Apparatuses, NEW o \in Orders, NEW h \in HoldIds \union {NoHold},
             AskStart(r, a, o, h)
      PROVE  Goal
    <2>1. PICK w : w = Command("start", a, o, h)
        OBVIOUS
    <2>2. w \in WriteRecord /\ Sound(w.ctl) /\ w.act = "start" /\ w.o = o /\ w.a = a
        BY <2>1, CommandType, Commands DEF Acts
    <2>3. Enter(r, "asked", w)
        BY <1>6, <2>1 DEF AskStart
    <2> QED BY <1>0, <2>2, <2>3 DEF Bound, About, Places
<1>7. ASSUME NEW a \in Apparatuses, NEW o \in Orders, NEW h \in HoldIds \union {NoHold},
             PrepareFreeze(r, a, o, h)
      PROVE  Goal
    <2>1. PICK b, d, w : /\ b = [Command("freeze", a, o, h) EXCEPT !.from = queue[a][o]]
                         /\ d = [b EXCEPT !.to = "frozen"]
                         /\ w = [d EXCEPT !.ctl = Acknowledged(a, o)]
        OBVIOUS
    <2>2. Sound(Acknowledged(a, o))
        <3>1. control[o] \in ControlRecord /\ control[o].state = "freeze_requested"
            BY <1>5, <1>7 DEF PrepareFreeze, MayAcknowledge
        <3>2. Sound(control[o])
            BY <3>1 DEF Safe, ClosedStaysOut, Sound
        <3> QED BY <3>1, <3>2, FrozenNowType DEF Acknowledged
    <2>3. b \in WriteRecord
        BY <1>5, <2>1, CommandType, WriteUpdate DEF Acts
    <2>4. d \in WriteRecord
        BY <2>1, <2>3, WriteUpdate DEF QueueStates
    <2>5. w \in WriteRecord
        BY <2>1, <2>2, <2>4, WriteUpdate DEF Sound
    <2>6. Enter(r, "prepared", w)
        BY <1>7, <2>1, Zenon DEF PrepareFreeze
    <2>7. w.act = "freeze" /\ w.a = a /\ w.o = o /\ w.ctl = Acknowledged(a, o)
        BY <2>1, Commands, WriteFields
    <2> QED BY <1>4, <2>2, <2>5, <2>6, <2>7
<1>8. ASSUME NEW a \in Apparatuses, NEW o \in Orders, NEW h \in HoldIds, PrepareBegin(r, a, o, h)
      PROVE  Goal
    <2>1. PICK w : w = [Command("begin", a, o, h) EXCEPT !.from = queue[a][o]]
        OBVIOUS
    <2>2. w \in WriteRecord
        BY <1>5, <2>1, CommandType, WriteUpdate DEF Acts
    <2>3. Command("begin", a, o, h).ctl = NoControl /\ Sound(NoControl)
        BY CommandType DEF Acts
    <2>4. w.act = "begin" /\ w.a = a /\ w.o = o /\ w.ctl = NoControl
        BY <2>1, <2>3, Commands, WriteFields
    <2>5. Enter(r, "prepared", w)
        BY <1>8, <2>1 DEF PrepareBegin
    <2> QED BY <1>4, <2>2, <2>3, <2>4, <2>5
<1>9. ASSUME NEW a \in Apparatuses, NEW o \in Orders, NEW act \in {"pause", "complete"},
             NEW to \in Reported(act), PrepareReport(r, act, a, o, to)
      PROVE  Goal
    <2>1. PICK b, w : /\ b = [Command(act, a, o, NoHold) EXCEPT !.from = queue[a][o]]
                      /\ w = [b EXCEPT !.to = to]
        OBVIOUS
    <2>2. b \in WriteRecord
        BY <1>5, <2>1, CommandType, WriteUpdate DEF Acts
    <2>3. w \in WriteRecord
        BY <2>1, <2>2, WriteUpdate, Reports DEF QueueStates
    <2>4. Command(act, a, o, NoHold).ctl = NoControl /\ Sound(NoControl)
        BY CommandType DEF Acts
    <2>5. w.act = act /\ w.a = a /\ w.o = o /\ w.ctl = NoControl
        BY <2>1, <2>4, Commands, WriteFields
    <2>6. Enter(r, "prepared", w)
        BY <1>9, <2>1, Zenon DEF PrepareReport
    <2> QED BY <1>4, <2>3, <2>4, <2>5, <2>6
<1>10. ASSUME NEW v \in WriteRecord, v.a \in Apparatuses, v.o \in Orders, Sound(v.ctl),
              v.act \in {"start", "resume"}, Enter(r, "prepared", Witnessed(v)),
              v.a \in Strict \ Printing => \A p \in Orders \ {v.o} : queue[v.a][p] \notin ActiveStates
       PROVE  Goal
    <2>1. PICK b, c, d, w : /\ b = [v EXCEPT !.from = Parsed(queue[v.a][v.o])]
                            /\ c = [b EXCEPT !.to = "in_progress"]
                            /\ d = [c EXCEPT !.seen = queue[v.a]]
                            /\ w = [d EXCEPT !.line = seq[v.a]]
        OBVIOUS
    <2>2. b \in WriteRecord
        BY <1>5, <1>10, <2>1, WriteUpdate
    <2>3. c \in WriteRecord
        BY <2>1, <2>2, WriteUpdate DEF QueueStates
    <2>4. d \in WriteRecord
        BY <1>5, <1>10, <2>1, <2>3, WriteUpdate
    <2>5. w \in WriteRecord
        BY <1>5, <1>10, <2>1, <2>4, WriteUpdate
    <2>6. w = Witnessed(v)
        BY <2>1, Zenon DEF Witnessed
    <2>7. w.act = v.act /\ w.a = v.a /\ w.o = v.o /\ w.ctl = v.ctl /\ w.seen = queue[v.a]
        <3>1. b.act = v.act /\ b.a = v.a /\ b.o = v.o /\ b.ctl = v.ctl
            BY <1>10, <2>1 DEF WriteRecord
        <3>2. c.act = b.act /\ c.a = b.a /\ c.o = b.o /\ c.ctl = b.ctl
            BY <2>1, <2>2 DEF WriteRecord
        <3>3. d.act = c.act /\ d.a = c.a /\ d.o = c.o /\ d.ctl = c.ctl /\ d.seen = queue[v.a]
            BY <2>1, <2>3 DEF WriteRecord
        <3>4. w.act = d.act /\ w.a = d.a /\ w.o = d.o /\ w.ctl = d.ctl /\ w.seen = d.seen
            BY <2>1, <2>4 DEF WriteRecord
        <3> QED BY <3>1, <3>2, <3>3, <3>4
    <2> QED BY <1>0, <1>10, <2>5, <2>6, <2>7 DEF Bound, About, Places
<1>11. ASSUME NEW a \in Apparatuses, NEW o \in Orders, PrepareResume(r, a, o) PROVE Goal
    <2>1. PICK v : v = Command("resume", a, o, NoHold)
        OBVIOUS
    <2>2. v \in WriteRecord /\ Sound(v.ctl) /\ v.act = "resume" /\ v.o = o /\ v.a = a
        BY <2>1, CommandType, Commands DEF Acts
    <2>3. ASSUME a \in Strict \ Printing, NEW p \in Orders \ {o} PROVE queue[a][p] \notin ActiveStates
        <3>1. CASE MayTakeSlot(a \in Strict, Line(a), queue[a], o)
            BY <2>3, <3>1 DEF MayTakeSlot, OtherActive, Inv, Tables
        <3>2. CASE MayResumeRequeued(a \in Strict, Line(a), queue[a], o) /\ Parsed(queue[a][o]) = "pending"
            BY <2>3, <3>2, FindsItFree DEF MayResumeRequeued
        <3> QED BY <1>11, <3>1, <3>2 DEF PrepareResume
    <2>4. Enter(r, "prepared", Witnessed(v))
        BY <1>11, <2>1 DEF PrepareResume
    <2> QED BY <1>10, <2>2, <2>3, <2>4
<1>12. CASE PrepareStart(r)
    <2>1. PICK a, o, v : a = write[r].a /\ o = write[r].o /\ v = write[r]
        OBVIOUS
    <2>2. a \in Apparatuses /\ o \in Orders /\ Sound(v.ctl) /\ v.act = "start" /\ v \in WriteRecord
          /\ v.a = a /\ v.o = o
        BY <1>2, <1>12, <2>1 DEF PrepareStart, Bound
    <2>3. ASSUME a \in Strict \ Printing, NEW p \in Orders \ {o} PROVE queue[a][p] \notin ActiveStates
        <3>1. ~ OtherActive(Reentered(queue[a], o), o)
            BY <1>12, <2>1 DEF PrepareStart, MayTakeSlot
        <3>2. p \in DOMAIN Reentered(queue[a], o) \ {o} /\ Reentered(queue[a], o)[p] = queue[a][p]
            BY <2>2, <2>3 DEF Reentered, Inv, Tables
        <3> QED BY <3>1, <3>2 DEF OtherActive
    <2>4. Enter(r, "prepared", Witnessed(v))
        BY <1>12, <2>1 DEF PrepareStart
    <2> QED BY <1>10, <2>2, <2>3, <2>4
<1>13. ASSUME NEW h \in HoldIds, NEW to \in HoldStates, AskDecision(r, h, to) PROVE Goal
    <2>1. PICK a, o, b, w : /\ a = hold[h].apparatus /\ o = hold[h].order
                            /\ b = [Command("decide", a, o, h) EXCEPT !.to = to]
                            /\ w = [b EXCEPT !.rev = hold[h].revision]
        OBVIOUS
    <2>2. /\ hold[h].status # "free" /\ a \in Apparatuses /\ o \in Orders
          /\ hold[h].revision \in Nat
        BY <1>13, <2>1, RoutesAssumption
           DEF AskDecision, Live, Inv, Trials, Safe, TrialOrders, TypeOK, HoldRecord
    <2>3. b \in WriteRecord
        BY <2>1, <2>2, CommandType, WriteUpdate DEF Acts
    <2>4. w \in WriteRecord
        BY <2>1, <2>2, <2>3, WriteUpdate
    <2>5. Command("decide", a, o, h).ctl = NoControl /\ Sound(NoControl)
        BY <2>2, CommandType DEF Acts
    <2>6. w.act = "decide" /\ w.a = a /\ w.o = o /\ w.h = h /\ w.ctl = NoControl
        BY <2>1, <2>5, Commands, WriteFields
    <2>7. Enter(r, "asked", w)
        BY <1>13, <2>1, Zenon DEF AskDecision
    <2> QED BY <1>0, <2>1, <2>2, <2>4, <2>5, <2>6, <2>7 DEF Bound, About, Places, Names
<1>14. CASE PrepareDecision(r)
    <2>1. PICK w : w = write[r]
        OBVIOUS
    <2>2. Bound("asked", w) /\ About("asked", w, hold) /\ w.act = "decide" /\ Enter(r, "prepared", w)
        BY <1>2, <1>14, <2>1 DEF PrepareDecision
    <2> QED BY <1>0, <2>2 DEF Bound, About, Places
<1>15. ASSUME NEW o \in Orders, NEW asking \in BOOLEAN, StopBegin(r, o, asking) PROVE Goal
    <2>1. PICK rec, passed, h, c :
              /\ rec = StopRecord(o, asking)
              /\ passed = {k \in TrialsOf(o) : hold[k].status = "passed"}
              /\ h = IF ~ rec.bySession /\ rec.target # NoApparatus THEN The(TrialsOf(o)) ELSE NoHold
              /\ c = Command("stop", NoApparatus, o, h)
        OBVIOUS
    <2>2. PICK b, d, e, w : /\ b = [c EXCEPT !.ctl = rec] /\ d = [b EXCEPT !.trials = passed]
                            /\ e = [d EXCEPT !.working = Working(o)]
                            /\ w = [e EXCEPT !.stages = SessionsIn(o, {"paused", "requeued"})]
        OBVIOUS
    <2>3. /\ Sound(rec)
          /\ h # NoHold => h \in TrialsOf(o) /\ rec.target # NoApparatus
                           /\ rec.target = hold[h].apparatus
        <3>1. Sound(rec) /\ (~ rec.bySession /\ rec.target # NoApparatus =>
                                 TrialsOf(o) # {} /\ rec.target = hold[The(TrialsOf(o))].apparatus)
            BY <2>1, StopRecordType DEF Safe
        <3>2. TrialsOf(o) # {} => The(TrialsOf(o)) \in TrialsOf(o)
            BY TheOne
        <3> QED BY <2>1, <3>1, <3>2
    <2>4. /\ \A k \in TrialsOf(o) : k \in HoldIds /\ hold[k].order = o /\ hold[k].status # "free"
          /\ h \in HoldIds \union {NoHold}
        BY <2>3 DEF TrialsOf, Live
    <2>5. c \in WriteRecord /\ c.act = "stop" /\ c.o = o /\ c.h = h
        <3>1. "stop" \in Acts /\ NoApparatus \in Apparatuses \union {NoApparatus}
            BY DEF Acts
        <3>2. c \in WriteRecord
            BY <2>1, <2>4, <3>1, CommandType
        <3> QED BY <2>1, <3>2, Commands
    <2>6. b \in WriteRecord /\ b.act = "stop" /\ b.o = o /\ b.h = h /\ b.ctl = rec
        <3>1. b \in WriteRecord
            BY <2>2, <2>3, <2>5, WriteUpdate DEF Sound
        <3> QED BY <2>2, <2>5, <3>1 DEF WriteRecord
    <2>7. d \in WriteRecord /\ d.act = "stop" /\ d.o = o /\ d.h = h /\ d.ctl = rec /\ d.trials = passed
        <3>1. passed \in SUBSET HoldIds
            BY <2>1, <2>4
        <3>2. d \in WriteRecord
            BY <2>2, <2>6, <3>1, WriteUpdate
        <3> QED BY <2>2, <2>6, <3>2, WriteKeeps
    <2>8. e \in WriteRecord /\ e.act = "stop" /\ e.o = o /\ e.h = h /\ e.ctl = rec /\ e.trials = passed
        <3>1. PICK v : v = Working(o)
            OBVIOUS
        <3>2. v \in BOOLEAN
            BY <3>1 DEF Working
        <3>3. e \in WriteRecord
            BY <2>2, <2>7, <3>1, <3>2, WriteUpdate
        <3> QED BY <2>2, <2>7, <3>3 DEF WriteRecord
    <2>9. w \in WriteRecord /\ w.act = "stop" /\ w.o = o /\ w.h = h /\ w.ctl = rec /\ w.trials = passed
        <3>1. SessionsIn(o, {"paused", "requeued"}) \in SUBSET Apparatuses
            BY DEF SessionsIn
        <3>2. w \in WriteRecord
            BY <2>2, <2>8, <3>1, WriteUpdate
        <3> QED BY <2>2, <2>8, <3>2, WriteKeeps
    <2>10. \E at \in {"publish", "direct"} : Enter(r, at, w)
        <3>1. w = [c EXCEPT !.ctl = rec, !.trials = passed, !.working = Working(o),
                            !.stages = SessionsIn(o, {"paused", "requeued"})]
            BY <2>2, Zenon
        <3>2. Enter(r, "publish", w) \/ Enter(r, "direct", w)
            BY <1>15, <2>1, <3>1, Zenon DEF StopBegin
        <3> QED BY <3>2
    <2>11. Names(hold, h, o, rec.target) \/ h = NoHold
        BY <2>3, <2>4 DEF Names
    <2> HIDE DEF Names
    <2> QED BY <1>0, <2>1, <2>3, <2>4, <2>9, <2>10, <2>11 DEF Bound, About, Places, Alone
<1>16. ASSUME NEW o \in Orders, RestoreBegin(r, o) PROVE Goal
    <2>1. PICK c, st, S, d, e :
              /\ c = Command("restore", NoApparatus, o, NoHold)
              /\ st = IF control[o].state = "frozen" THEN "unfrozen" ELSE "cancelled"
              /\ S = {a \in Apparatuses : session[a][o] = "frozen" \/ queue[a][o] = "frozen"}
              /\ d = [control[o] EXCEPT !.state = "active"]
              /\ e = [d EXCEPT !.status = st]
        OBVIOUS
    <2>2. PICK b, w : b = [c EXCEPT !.stages = S] /\ w = [b EXCEPT !.ctl = e]
        OBVIOUS
    <2>3. control[o] \in ControlRecord /\ control[o].close = "no"
        BY <1>16 DEF RestoreBegin, Safe, TypeOK
    <2>4. d \in ControlRecord /\ d.close = "no"
        BY <2>1, <2>3 DEF ControlRecord
    <2>5. e \in ControlRecord /\ e.close = "no"
        BY <2>1, <2>4 DEF ControlRecord
    <2>6. c \in WriteRecord /\ c.act = "restore" /\ c.o = o
        <3>1. /\ "restore" \in Acts /\ NoApparatus \in Apparatuses \union {NoApparatus}
              /\ NoHold \in HoldIds \union {NoHold}
            BY DEF Acts
        <3>2. c \in WriteRecord
            BY <2>1, <3>1, CommandType
        <3> QED BY <2>1, <3>2, Commands
    <2>7. b \in WriteRecord /\ b.act = "restore" /\ b.o = o
        <3>1. S \in SUBSET Apparatuses
            BY <2>1
        <3>2. b \in WriteRecord
            BY <2>2, <2>6, <3>1, WriteUpdate
        <3> QED BY <2>2, <2>6, <3>2, WriteKeeps
    <2>8. w \in WriteRecord /\ w.act = "restore" /\ w.o = o /\ w.ctl = e
        <3>1. w \in WriteRecord
            BY <2>2, <2>5, <2>7, WriteUpdate
        <3> QED BY <2>2, <2>7, <3>1 DEF WriteRecord
    <2>9. Enter(r, "restore", w)
        <3>1. e = [control[o] EXCEPT !.state = "active", !.status = st]
            BY <2>1, Zenon
        <3>2. w = [c EXCEPT !.stages = S, !.ctl = e]
            BY <2>2, Zenon
        <3> QED BY <1>16, <2>1, <3>1, <3>2, Zenon DEF RestoreBegin
    <2> QED BY <1>0, <2>5, <2>8, <2>9 DEF Bound, About, Places, Alone, Sound
<1>17. CASE StopPublish(r)
    <2>1. CASE Enter(r, "trials", write[r]) /\ pc[r] = "publish"
        BY <1>0, <1>2, <2>1 DEF Bound, About, Places
    <2> QED BY <1>1, <1>17, <2>1 DEF StopPublish
<1>18. ASSUME NEW h \in HoldIds, StopTrial(r, h) PROVE Goal
    <2>1. CASE Enter(r, "trials", [write[r] EXCEPT !.trials = @ \ {h}])
        <3>1. PICK v, T, w : v = write[r] /\ T = v.trials \ {h} /\ w = [v EXCEPT !.trials = T]
            OBVIOUS
        <3>2. Bound("trials", v) /\ About("trials", v, hold) /\ v \in WriteRecord
            BY <1>2, <1>3, <1>18, <3>1 DEF StopTrial
        <3>3. T \in SUBSET HoldIds /\ T \subseteq v.trials
            BY <3>1, <3>2 DEF WriteRecord
        <3>4. w \in WriteRecord
            BY <3>1, <3>2, <3>3, WriteUpdate
        <3>5. w.act = v.act /\ w.o = v.o /\ w.ctl = v.ctl /\ w.trials = T
            BY <3>1, <3>2, WriteKeeps
        <3>6. Enter(r, "trials", w)
            BY <2>1, <3>1, <3>2 DEF WriteRecord
        <3> QED BY <1>0, <3>2, <3>3, <3>4, <3>5, <3>6 DEF Bound, About, Places
    <2> QED BY <1>1, <1>18, <2>1, Zenon DEF StopTrial
<1>19. CASE StopTrialsDone(r)
    <2>1. CASE Enter(r, "stages", write[r]) /\ pc[r] = "trials"
        BY <1>0, <1>2, <2>1 DEF Bound, About, Places
    <2> QED BY <1>1, <1>19, <2>1 DEF StopTrialsDone
<1>20. ASSUME NEW a, NEW at \in {"stages", "restore"}, pc[r] = at,
              Enter(r, at, [write[r] EXCEPT !.stages = @ \ {a}])
       PROVE  Goal
    <2>1. PICK v, T, w : v = write[r] /\ T = v.stages \ {a} /\ w = [v EXCEPT !.stages = T]
        OBVIOUS
    <2>2. Bound(at, v) /\ v \in WriteRecord
        BY <1>2, <1>3, <1>20, <2>1
    <2>3. T \in SUBSET Apparatuses
        BY <2>1, <2>2 DEF WriteRecord
    <2>4. w \in WriteRecord
        BY <2>1, <2>2, <2>3, WriteUpdate
    <2>5. w.act = v.act /\ w.o = v.o /\ w.ctl = v.ctl
        BY <2>1, <2>2, WriteKeeps
    <2>6. Enter(r, at, w)
        BY <1>20, <2>1, <2>2 DEF WriteRecord
    <2> QED BY <1>0, <2>2, <2>4, <2>5, <2>6 DEF Bound, About, Places
<1>21. ASSUME NEW a \in Apparatuses, StopStage(r, a) PROVE Goal
    <2>1. \/ Leave(r)
          \/ Enter(r, "stages", [write[r] EXCEPT !.stages = @ \ {a}])
        BY <1>21, Zenon DEF StopStage
    <2>2. pc[r] = "stages"
        BY <1>21 DEF StopStage
    <2> QED BY <1>1, <1>20, <2>1, <2>2
<1>22. ASSUME NEW a \in Apparatuses, RestoreOne(r, a) PROVE Goal
    <2>1. \/ Leave(r)
          \/ Enter(r, "restore", [write[r] EXCEPT !.stages = @ \ {a}])
        BY <1>22, Zenon DEF RestoreOne
    <2>2. pc[r] = "restore"
        BY <1>22 DEF RestoreOne
    <2> QED BY <1>1, <1>20, <2>1, <2>2
<1>23. ASSUME UNCHANGED <<pc, write>> PROVE Goal
    BY <1>23 DEF Goal
<1>24. CASE \/ Withdraw(r) \/ Commit(r) \/ CommitBegin(r) \/ CommitDecision(r)
            \/ StopDirect(r) \/ StopSettle(r) \/ RestoreDone(r) \/ Crash(r)
    <2>1. Leave(r)
        BY <1>24, Zenon DEF Withdraw, Commit, CommitBegin, CommitDecision, StopDirect, StopSettle,
                            RestoreDone, Crash
    <2> QED BY <1>1, <2>1
<1> QED
    BY <1>6, <1>7, <1>8, <1>9, <1>11, <1>12, <1>13, <1>14, <1>15, <1>16, <1>17, <1>18, <1>19,
       <1>21, <1>22, <1>23, <1>24
       DEF UpgradeToClose, MoveSequence

-----------------------------------------------------------------------------
(* What a step does to the saved sequences and to the stop records.        *)

\* An administrator's reordering, within the barrier of the running orders.
Reordered(a, s) ==
    /\ a \in Apparatuses /\ s \in Seq(Orders) /\ ToSet(s) \cap FrozenOrders = {}
    /\ Barrier(Line(a), s, BarrierOrders(a))
    /\ seq' = [seq EXCEPT ![a] = s]
    /\ UNCHANGED <<queue, control>>

\* A stop record with what goes with it: the order keeps its places, leaves
\* them, or goes to the tails; a closed order leaves them whatever was meant.
Filed(o, c, sq) ==
    /\ o \in Orders /\ Sound(c)
    /\ \/ sq = seq \/ sq = WithoutOrder(seq, o)
       \/ sq = AtTail(seq, o) /\ IsReleased(o)
    /\ control' = [control EXCEPT ![o] = c]
    /\ seq' = IF c.close = "closed" THEN WithoutOrder(sq, o) ELSE sq

LineEffect ==
    \/ UNCHANGED <<seq, control>>
    \/ \E a, s : Reordered(a, s)
    \/ \E o, c, sq : Filed(o, c, sq)

\* A transaction files the record it was given, settled if it was the last.
LEMMA QueueTxFiles ==
    ASSUME NEW a, NEW o \in Orders, NEW to, NEW sess, NEW hd, NEW c, NEW sq,
           QueueTx(a, o, to, sess, hd, c, sq), Sound(c),
           \/ sq = seq \/ sq = WithoutOrder(seq, o)
           \/ sq = AtTail(seq, o) /\ IsReleased(o)
    PROVE  LineEffect
<1>1. PICK q, s, f : /\ q = [queue EXCEPT ![a][o] = to] /\ s = [session EXCEPT ![a][o] = sess]
                     /\ f = Finalized(o, c, q, s, hd)
    OBVIOUS
<1>2. Sound(f)
    <2>1. f = c \/ f = FrozenNow(c)
        BY <1>1 DEF Finalized
    <2> QED BY <2>1, FrozenNowType DEF Sound
<1>3. /\ control' = [control EXCEPT ![o] = f]
      /\ seq' = IF f.close = "closed" THEN WithoutOrder(sq, o) ELSE sq
    BY <1>1, Zenon DEF QueueTx
<1>4. Filed(o, f, sq)
    BY <1>2, <1>3 DEF Filed
<1> QED BY <1>4 DEF LineEffect

\* What put_order_control_state files.
LEMMA PutControlFiles ==
    ASSUME NEW o \in Orders, NEW c, Sound(c), PutControl(o, c)
    PROVE  LineEffect
<1>1. Filed(o, c, seq)
    BY DEF PutControl, Filed
<1> QED BY <1>1 DEF LineEffect

\* Every step leaves sequences and records alone, reorders one queue, or files
\* one record.
LEMMA LineEffects == ASSUME Inv, Safe, Next PROVE LineEffect
<1> PICK r \in Requests : Next!(r)
    BY DEF Next
<1>1. ASSUME UNCHANGED store PROVE LineEffect
    BY <1>1 DEF store, LineEffect
<1>2. PICK w : w = write[r]
    OBVIOUS
<1>3. Bound(pc[r], w) /\ w \in WriteRecord /\ Sound(w.ctl)
    BY <1>2 DEF Safe, Bounds, Bound
<1>4. \A o \in Orders : Sound(control[o])
    BY DEF Safe, TypeOK, ClosedStaysOut, Sound
<1>5. ASSUME NEW a, NEW sess, NEW hd, FreezeTx(a, w.o, sess, hd, w.ctl), w.o \in Orders
      PROVE  LineEffect
    BY <1>3, <1>5, QueueTxFiles DEF FreezeTx
<1>6. CASE Commit(r)
    <2>1. w.o \in Orders
        BY <1>2, <1>3, <1>6 DEF Commit, Bound
    <2>2. \/ UNCHANGED store
          \/ FreezeTx(w.a, w.o, SessionAfter(w), HoldsAfter(w), w.ctl)
          \/ QueueTx(w.a, w.o, w.to, SessionAfter(w), HoldsAfter(w), control[w.o], seq)
        BY <1>2, <1>6, Zenon DEF Commit
    <2> QED BY <1>1, <1>4, <1>5, <2>1, <2>2, QueueTxFiles
<1>7. CASE CommitBegin(r) \/ CommitDecision(r)
    <2>1. UNCHANGED <<seq, control>>
        BY <1>7 DEF CommitBegin, CommitDecision, store
    <2> QED BY <2>1 DEF LineEffect
<1>8. CASE StopDirect(r)
    <2>1. w.o \in Orders
        BY <1>2, <1>3, <1>8 DEF StopDirect, Bound
    <2>2. \/ UNCHANGED store
          \/ PutControl(w.o, w.ctl)
          \/ \E a, sess, hd : FreezeTx(a, w.o, sess, hd, w.ctl)
        BY <1>2, <1>8, Zenon DEF StopDirect
    <2> QED BY <1>1, <1>3, <1>5, <2>1, <2>2, PutControlFiles
<1>9. CASE StopPublish(r)
    <2>1. w.o \in Orders
        BY <1>2, <1>3, <1>9 DEF StopPublish, Bound
    <2>2. UNCHANGED store \/ PutControl(w.o, w.ctl)
        BY <1>2, <1>9, Zenon DEF StopPublish
    <2> QED BY <1>1, <1>3, <2>1, <2>2, PutControlFiles
<1>10. ASSUME NEW h \in HoldIds, StopTrial(r, h) PROVE LineEffect
    <2>1. w.o \in Orders
        BY <1>2, <1>3, <1>10 DEF StopTrial, Bound
    <2>2. UNCHANGED store \/ \E a, sess, hd : FreezeTx(a, w.o, sess, hd, w.ctl)
        BY <1>2, <1>10, Zenon DEF StopTrial
    <2> QED BY <1>1, <1>5, <2>1, <2>2
<1>11. ASSUME NEW a \in Apparatuses, StopStage(r, a) PROVE LineEffect
    <2>1. w.o \in Orders
        BY <1>2, <1>3, <1>11 DEF StopStage, Bound
    <2>2. UNCHANGED store \/ FreezeTx(a, w.o, "frozen", hold, w.ctl)
        BY <1>2, <1>11, Zenon DEF StopStage
    <2> QED BY <1>1, <1>5, <2>1, <2>2
<1>12. CASE StopSettle(r)
    <2>1. w.o \in Orders
        BY <1>2, <1>3, <1>12 DEF StopSettle, Bound
    <2>2. UNCHANGED store \/ PutControl(w.o, FrozenNow(w.ctl))
        BY <1>2, <1>12, Zenon DEF StopSettle
    <2>3. Sound(FrozenNow(w.ctl))
        BY <1>3, FrozenNowType DEF Sound
    <2> QED BY <1>1, <2>1, <2>2, <2>3, PutControlFiles
<1>13. ASSUME NEW o \in Orders, UpgradeToClose(r, o) PROVE LineEffect
    <2>1. PICK v, d : /\ v = IF control[o].state = "frozen" THEN "closed" ELSE "asked"
                      /\ d = [control[o] EXCEPT !.close = v]
        OBVIOUS
    <2>2. control[o] \in ControlRecord
        BY DEF Safe, TypeOK
    <2>3. v \in {"asked", "closed"} /\ (v = "closed" => control[o].state = "frozen")
        BY <2>1
    <2>4. d \in ControlRecord /\ d.close = v /\ d.state = control[o].state
        BY <2>1, <2>2, <2>3 DEF ControlRecord
    <2>5. PutControl(o, d)
        BY <1>13, <2>1, Zenon DEF UpgradeToClose
    <2> QED BY <2>3, <2>4, <2>5, PutControlFiles DEF Sound
<1>14. ASSUME NEW a \in Apparatuses, RestoreOne(r, a) PROVE LineEffect
    <2>1. w.o \in Orders
        BY <1>2, <1>3, <1>14 DEF RestoreOne, Bound
    <2>2. \/ UNCHANGED store
          \/ /\ queue[a][w.o] = "frozen"
             /\ QueueTx(a, w.o, "pending", ReleasedSession(session[a][w.o]), hold,
                        control[w.o], AtTail(seq, w.o))
        BY <1>2, <1>14, Zenon DEF RestoreOne, RestoredSequence
    <2>3. ASSUME queue[a][w.o] = "frozen",
                 QueueTx(a, w.o, "pending", ReleasedSession(session[a][w.o]), hold,
                         control[w.o], AtTail(seq, w.o))
          PROVE  LineEffect
        <3>1. queue' = [queue EXCEPT ![a][w.o] = "pending"]
            BY <2>3, Zenon DEF QueueTx
        <3>2. queue'[a][w.o] = "pending"
            BY <2>1, <3>1 DEF Inv, Tables
        <3>3. IsReleased(w.o)
            BY <2>3, <3>2 DEF IsReleased
        <3> QED BY <1>4, <2>1, <2>3, <3>3, QueueTxFiles
    <2> QED BY <1>1, <2>2, <2>3
<1>15. CASE RestoreDone(r)
    <2>1. w.o \in Orders
        BY <1>2, <1>3, <1>15 DEF RestoreDone, Bound
    <2>2. UNCHANGED store \/ PutControl(w.o, w.ctl)
        BY <1>2, <1>15, Zenon DEF RestoreDone
    <2> QED BY <1>1, <1>3, <2>1, <2>2, PutControlFiles
<1>16. ASSUME NEW a \in Apparatuses, NEW o \in Orders, NEW wish \in 1 .. Len(Arrival),
              MoveSequence(r, a, o, wish)
       PROVE  LineEffect
    <2>1. PICK line, s, rest : /\ line = Line(a)
                               /\ s = NearestAllowed(line, o, wish, BarrierOrders(a))
                               /\ rest = Without(line, o)
        OBVIOUS
    <2>2. line \in Seq(Orders) /\ ToSet(line) = ToSet(Arrival) \ FrozenOrders
        BY <2>1, RoutesAssumption, EffectiveElements DEF Line, Safe, TypeOK
    <2>3. o \in ToSet(line)
        BY <1>16, <2>1, <2>2, ElementsType DEF MoveSequence
    <2>4. wish \in Int
        OBVIOUS
    <2>5. PICK slot \in 1 .. Len(rest) + 1 :
              s = InsertAt(rest, slot, o) /\ Barrier(line, s, BarrierOrders(a))
        BY <1>16, <2>1, <2>2, <2>3, <2>4, NearestIsAllowed DEF MoveSequence
    <2>6. rest \in Seq(Orders) /\ ToSet(rest) \subseteq ToSet(line)
        BY <2>1, <2>2, WithoutProperties
    <2>7. s \in Seq(Orders) /\ ToSet(s) \subseteq ToSet(line)
        BY <2>3, <2>5, <2>6, InsertProperties
    <2>8. Reordered(a, s)
        BY <1>16, <2>1, <2>2, <2>5, <2>7 DEF MoveSequence, Reordered
    <2> QED BY <2>8 DEF LineEffect
<1> QED
    BY <1>1, <1>6, <1>7, <1>8, <1>9, <1>10, <1>11, <1>12, <1>13, <1>14, <1>15, <1>16, ZenonT(60)
       DEF AskStart, PrepareFreeze, PrepareBegin, PrepareResume, PrepareReport, AskDecision,
           StopBegin, RestoreBegin, Withdraw, PrepareStart, PrepareDecision, StopTrialsDone,
           Crash

\* Stops and crashes are only counted.
LEMMA Counters ==
    ASSUME Safe, Next PROVE stops' \in [Orders -> Nat] /\ crashes' \in 0 .. MaxCrashes
<1> PICK r \in Requests : Next!(r)
    BY DEF Next
<1>1. stops \in [Orders -> Nat] /\ crashes \in 0 .. MaxCrashes /\ MaxCrashes \in Nat
    BY RoutesAssumption DEF Safe, TypeOK
<1>2. CASE UNCHANGED <<stops, crashes>>
    BY <1>1, <1>2
<1>3. ASSUME NEW o \in Orders, NEW asking, StopBegin(r, o, asking)
      PROVE  stops' = [stops EXCEPT ![o] = @ + 1] /\ UNCHANGED crashes
    BY <1>3, Zenon DEF StopBegin
<1>4. CASE Crash(r)
    BY <1>1, <1>4 DEF Crash
<1>5. ASSUME NEW o \in Orders, NEW asking, StopBegin(r, o, asking)
      PROVE  stops' \in [Orders -> Nat] /\ crashes' \in 0 .. MaxCrashes
    BY <1>1, <1>3, <1>5
<1>6. CASE \/ Commit(r) \/ CommitBegin(r) \/ CommitDecision(r) \/ StopDirect(r) \/ StopPublish(r)
           \/ StopSettle(r) \/ RestoreDone(r) \/ Withdraw(r) \/ PrepareStart(r)
           \/ PrepareDecision(r) \/ StopTrialsDone(r)
           \/ \E h \in HoldIds : StopTrial(r, h)
           \/ \E a \in Apparatuses : StopStage(r, a) \/ RestoreOne(r, a)
    <2>1. UNCHANGED <<stops, crashes>>
        BY <1>6, Zenon DEF Commit, CommitBegin, CommitDecision, StopDirect, StopPublish, StopSettle,
               RestoreDone, Withdraw, PrepareStart, PrepareDecision, StopTrialsDone, StopTrial,
               StopStage, RestoreOne
    <2> QED BY <1>2, <2>1
<1> QED
    BY <1>2, <1>4, <1>5, <1>6, ZenonT(60)
       DEF AskStart, PrepareFreeze, PrepareBegin, PrepareResume, PrepareReport, AskDecision,
           RestoreBegin, UpgradeToClose, MoveSequence

-----------------------------------------------------------------------------
(* The invariant of this part is kept.                                     *)

\* A trial keeps its order and its machine for ever.
LEMMA NamesLast ==
    ASSUME Inv, Effect, NEW h \in HoldIds, hold[h].status # "free"
    PROVE  /\ hold'[h].status # "free" /\ hold'[h].order = hold[h].order
           /\ hold'[h].apparatus = hold[h].apparatus
<1>1. Advances(h)
    BY TrialEffect
<1>2. ASSUME NEW to, TrialStep(h, to), <<hold[h].status, to>> \in TrialSteps
      PROVE  /\ hold'[h].status # "free" /\ hold'[h].order = hold[h].order
             /\ hold'[h].apparatus = hold[h].apparatus
    <2>1. to # "free"
        BY <1>2 DEF TrialSteps, Decisions
    <2> QED BY <1>2, <2>1 DEF TrialStep
<1> QED BY <1>1, <1>2 DEF Advances

\* No effect takes a trial away from the request that carries it.
LEMMA AboutLasts ==
    ASSUME Inv, Effect, NEW at, NEW w \in WriteRecord, About(at, w, hold)
    PROVE  About(at, w, hold')
<1>1. ASSUME NEW h, NEW o, NEW a, Names(hold, h, o, a) PROVE Names(hold', h, o, a)
    BY <1>1, NamesLast DEF Names
<1>2. \A h \in w.trials : h \in HoldIds
    BY DEF WriteRecord
<1> QED BY <1>1, <1>2, NamesLast DEF About

\* The records that requests carry keep their types and their subjects.
LEMMA NextBounds ==
    ASSUME Inv, Safe, Effect,
           \/ UNCHANGED <<pc, write>>
           \/ \E r \in Requests : \E at, w : Enter(r, at, w) /\ Bound(at, w) /\ About(at, w, hold)
    PROVE  /\ pc' \in [Requests -> Places] /\ write' \in [Requests -> WriteRecord]
           /\ Bounds'
<1> SUFFICES ASSUME NEW q \in Requests
             PROVE  Bound(pc'[q], write'[q]) /\ About(pc'[q], write'[q], hold')
    <2>1. DOMAIN pc' = Requests /\ DOMAIN write' = Requests
          /\ pc' = [r \in Requests |-> pc'[r]] /\ write' = [r \in Requests |-> write'[r]]
        BY DEF Safe, TypeOK, Enter
    <2>2. Bounds' => \A r \in Requests : pc'[r] \in Places /\ write'[r] \in WriteRecord
        BY DEF Bounds, Bound
    <2>3. (\A r \in Requests : Bound(pc'[r], write'[r]) /\ About(pc'[r], write'[r], hold'))
              => Bounds'
        BY DEF Bounds, Bound, About, Names, Sound, ControlRecord, WriteRecord, HoldRecord
    <2> QED BY <2>1, <2>2, <2>3
<1>1. CASE pc'[q] = pc[q] /\ write'[q] = write[q]
    <2>1. Bound(pc[q], write[q]) /\ About(pc[q], write[q], hold) /\ write[q] \in WriteRecord
        BY DEF Safe, Bounds, Bound
    <2> QED BY <1>1, <2>1, AboutLasts
<1>2. CASE ~ (pc'[q] = pc[q] /\ write'[q] = write[q])
    <2>1. PICK at, w : Enter(q, at, w) /\ Bound(at, w) /\ About(at, w, hold)
        BY <1>2 DEF Enter, Safe, TypeOK
    <2>2. pc'[q] = at /\ write'[q] = w /\ w \in WriteRecord
        BY <2>1 DEF Enter, Safe, TypeOK, Bound
    <2> QED BY <2>1, <2>2, AboutLasts
<1> QED BY <1>1, <1>2

\* The records keep their types, closed orders stay out of the sequences.
LEMMA NextLines ==
    ASSUME Inv, Safe, LineEffect
    PROVE  /\ seq' \in [Apparatuses -> Seq(Orders)] /\ control' \in [Orders -> ControlRecord]
           /\ ClosedStaysOut'
<1>1. seq \in [Apparatuses -> Seq(Orders)] /\ control \in [Orders -> ControlRecord]
    BY DEF Safe, TypeOK
<1>2. \A o \in Orders : control[o].close = "closed" =>
          control[o].state = "frozen" /\ \A a \in Apparatuses : o \notin ToSet(seq[a])
    BY <1>1, ElementsType DEF Safe, ClosedStaysOut
<1>3. SUFFICES /\ seq' \in [Apparatuses -> Seq(Orders)] /\ control' \in [Orders -> ControlRecord]
               /\ \A o \in Orders : control'[o].close = "closed" =>
                     control'[o].state = "frozen" /\ \A a \in Apparatuses : o \notin ToSet(seq'[a])
    BY <1>3, ElementsType DEF ClosedStaysOut
<1>4. CASE UNCHANGED <<seq, control>>
    BY <1>1, <1>2, <1>4
<1>5. ASSUME NEW a, NEW s, Reordered(a, s)
      PROVE  /\ seq' \in [Apparatuses -> Seq(Orders)] /\ control' \in [Orders -> ControlRecord]
             /\ \A o \in Orders : control'[o].close = "closed" =>
                   control'[o].state = "frozen" /\ \A b \in Apparatuses : o \notin ToSet(seq'[b])
    <2>1. /\ s \in Seq(Orders) /\ seq' = [seq EXCEPT ![a] = s] /\ control' = control
          /\ a \in Apparatuses
        BY <1>5 DEF Reordered
    <2>2. \A o \in Orders : control[o].state = "frozen" => o \notin ToSet(s)
        BY <1>5 DEF Reordered, FrozenOrders
    <2> QED BY <1>1, <1>2, <2>1, <2>2
<1>6. ASSUME NEW o, NEW c, NEW sq, Filed(o, c, sq)
      PROVE  /\ seq' \in [Apparatuses -> Seq(Orders)] /\ control' \in [Orders -> ControlRecord]
             /\ \A p \in Orders : control'[p].close = "closed" =>
                   control'[p].state = "frozen" /\ \A b \in Apparatuses : p \notin ToSet(seq'[b])
    <2>1. /\ o \in Orders /\ c \in ControlRecord /\ (c.close = "closed" => c.state = "frozen")
          /\ control' = [control EXCEPT ![o] = c]
        BY <1>6 DEF Filed, Sound
    <2>2. ASSUME NEW t \in [Apparatuses -> Seq(Orders)]
          PROVE  /\ WithoutOrder(t, o) \in [Apparatuses -> Seq(Orders)]
                 /\ \A b \in Apparatuses : ToSet(WithoutOrder(t, o)[b]) = ToSet(t[b]) \ {o}
        BY <2>2, WithoutProperties DEF WithoutOrder
    <2>3. /\ AtTail(seq, o) \in [Apparatuses -> Seq(Orders)]
          /\ \A b \in Apparatuses : ToSet(AtTail(seq, o)[b]) = ToSet(seq[b]) \cup {o}
        <3>1. ASSUME NEW b \in Apparatuses
              PROVE  /\ Append(Without(seq[b], o), o) \in Seq(Orders)
                     /\ ToSet(Append(Without(seq[b], o), o)) = ToSet(seq[b]) \cup {o}
            <4>1. Without(seq[b], o) \in Seq(Orders) /\ ToSet(Without(seq[b], o)) = ToSet(seq[b]) \ {o}
                BY <1>1, <3>1, WithoutProperties
            <4> QED BY <2>1, <4>1, ElementsAppend
        <3> QED BY <3>1 DEF AtTail
    <2>4. /\ sq \in [Apparatuses -> Seq(Orders)]
          /\ \A b \in Apparatuses : ToSet(sq[b]) \subseteq ToSet(seq[b]) \cup {o}
        BY <1>1, <1>6, <2>2, <2>3 DEF Filed
    <2>5. /\ seq' \in [Apparatuses -> Seq(Orders)]
          /\ \A b \in Apparatuses : ToSet(seq'[b]) \subseteq ToSet(seq[b]) \cup {o}
          /\ c.close = "closed" => \A b \in Apparatuses : o \notin ToSet(seq'[b])
        <3>1. CASE c.close = "closed"
            <4>1. seq' = WithoutOrder(sq, o)
                BY <1>6, <3>1 DEF Filed
            <4>2. /\ WithoutOrder(sq, o) \in [Apparatuses -> Seq(Orders)]
                  /\ \A b \in Apparatuses : ToSet(WithoutOrder(sq, o)[b]) = ToSet(sq[b]) \ {o}
                BY <2>2, <2>4
            <4> QED BY <2>4, <4>1, <4>2
        <3>2. CASE c.close # "closed"
            BY <1>6, <2>4, <3>2 DEF Filed
        <3> QED BY <3>1, <3>2
    <2> QED BY <1>1, <1>2, <2>1, <2>5
<1> QED BY <1>4, <1>5, <1>6 DEF LineEffect

\* Rows, sessions and trials keep their types.
LEMMA NextRows ==
    ASSUME Inv, Safe, Effect
    PROVE  /\ queue' \in [Apparatuses -> [Orders -> QueueStates]]
           /\ session' \in [Apparatuses -> [Orders -> SessionStates]]
           /\ hold' \in [HoldIds -> HoldRecord] /\ TrialOrders'
<1>1. /\ queue \in [Apparatuses -> [Orders -> QueueStates]]
      /\ session \in [Apparatuses -> [Orders -> SessionStates]]
    BY DEF Safe, TypeOK
<1>2. ASSUME NEW a, NEW o, NEW to, NEW sess, NEW hd, NEW c, Moved(a, o, to, sess, hd, c),
             to \in QueueStates, sess \in SessionStates \/ sess = session[a][o]
      PROVE  /\ queue' \in [Apparatuses -> [Orders -> QueueStates]]
             /\ session' \in [Apparatuses -> [Orders -> SessionStates]]
    <2>1. queue' = [queue EXCEPT ![a][o] = to] /\ session' = [session EXCEPT ![a][o] = sess]
        BY <1>2 DEF Moved
    <2>2. queue' \in [Apparatuses -> [Orders -> QueueStates]]
        BY <1>1, <1>2, <2>1
    <2>3. session' \in [Apparatuses -> [Orders -> SessionStates]]
        <3>1. CASE sess \in SessionStates
            BY <1>1, <2>1, <3>1
        <3>2. CASE sess = session[a][o]
            <4>1. a \in Apparatuses /\ o \in Orders => sess \in SessionStates
                BY <1>1, <3>2
            <4> QED BY <1>1, <2>1, <4>1
        <3> QED BY <1>2, <3>1, <3>2
    <2> QED BY <2>2, <2>3
<1>3. ASSUME NEW w, Worked(w)
      PROVE  /\ queue' \in [Apparatuses -> [Orders -> QueueStates]]
             /\ session' \in [Apparatuses -> [Orders -> SessionStates]]
    <2>1. w.to \in QueueStates /\ SessionAfter(w) \in SessionStates
        BY <1>3 DEF Worked, CarriesPrepared, SessionAfter, QueueStates, SessionStates
    <2> HIDE DEF SessionAfter
    <2> QED BY <1>2, <1>3, <2>1 DEF Worked
<1>4. ASSUME NEW w, Begun(w) \/ Decided(w)
      PROVE  queue' \in [Apparatuses -> [Orders -> QueueStates]] /\ session' = session
    <2>1. PICK v : queue' = [queue EXCEPT ![w.a][w.o] = v] /\ session' = session
        BY <1>4 DEF Begun, Decided
    <2>2. \A b \in Apparatuses, p \in Orders : queue'[b][p] \in QueueStates
        BY <1>1, <1>4, TrialRows DEF QueueStates
    <2>3. DOMAIN queue' = Apparatuses /\ \A b \in Apparatuses : DOMAIN queue'[b] = Orders
        BY <2>1, Row DEF Inv, Tables
    <2>4. queue' = [b \in Apparatuses |-> queue'[b]]
        BY <1>1, <2>1
    <2>5. \A b \in Apparatuses : queue'[b] \in [Orders -> QueueStates]
        <3> TAKE b \in Apparatuses
        <3>1. queue'[b] = [p \in Orders |-> queue'[b][p]]
            BY <1>1, <2>1
        <3> QED BY <2>2, <3>1
    <2> QED BY <2>1, <2>4, <2>5
<1>5. ASSUME NEW a, NEW o, NEW h, NEW sess, NEW c, Stopped(a, o, h, sess, c)
      PROVE  /\ queue' \in [Apparatuses -> [Orders -> QueueStates]]
             /\ session' \in [Apparatuses -> [Orders -> SessionStates]]
    BY <1>2, <1>5 DEF Stopped, QueueStates, SessionStates
<1>6. ASSUME NEW a, NEW o, Released(a, o)
      PROVE  /\ queue' \in [Apparatuses -> [Orders -> QueueStates]]
             /\ session' \in [Apparatuses -> [Orders -> SessionStates]]
    <2>1. ReleasedSession(session[a][o]) \in SessionStates \/ ReleasedSession(session[a][o]) = session[a][o]
        BY DEF ReleasedSession, SessionStates
    <2> HIDE DEF ReleasedSession
    <2> QED BY <1>2, <1>6, <2>1 DEF Released, QueueStates
<1>7. /\ queue' \in [Apparatuses -> [Orders -> QueueStates]]
      /\ session' \in [Apparatuses -> [Orders -> SessionStates]]
    BY <1>1, <1>3, <1>4, <1>5, <1>6 DEF Effect, Quiet, Recorded
<1>8. hold' \in [HoldIds -> HoldRecord]
    <2>1. Trial \subseteq HoldRecord
        BY DEF Trial, HoldRecord, QueueStates
    <2> QED BY <2>1, NextTrials DEF Trials
<1>9. TrialOrders'
    <2> SUFFICES ASSUME NEW h \in HoldIds, hold'[h].status # "free" PROVE hold'[h].order \in Orders
        BY DEF TrialOrders
    <2>1. CASE hold[h].status # "free"
        BY <2>1, NamesLast DEF Safe, TrialOrders
    <2>2. CASE hold[h].status = "free"
        <3>1. ASSUME NEW w, Begun(w) PROVE hold'[h].order \in Orders
            BY <2>2, <3>1 DEF Begun, CarriesPrepared, Inv, Trials
        <3>2. ASSUME NEW k, NEW to, hold' = HoldAfter(k, to), k # NoHold => hold[k].status # "free"
              PROVE  FALSE
            <4>1. hold'[h] = hold[h]
                <5>1. CASE k = NoHold
                    BY <3>2, <5>1 DEF HoldAfter
                <5>2. CASE k # NoHold
                    BY <2>2, <3>2, <5>2, HoldStep DEF Inv
                <5> QED BY <5>1, <5>2
            <4> QED BY <2>2, <4>1
        <3>3. ASSUME NEW w, Worked(w) PROVE FALSE
            BY <3>2, <3>3 DEF Worked, Moved, HoldsAfter, HoldUsable, Live
        <3>4. ASSUME NEW w, Decided(w) PROVE FALSE
            BY <3>2, <3>4 DEF Decided, DecisionAllowed, Live
        <3>5. ASSUME NEW a, NEW o, NEW k, NEW sess, NEW c, Stopped(a, o, k, sess, c) PROVE FALSE
            BY <3>2, <3>5 DEF Stopped, Moved, Live
        <3>6. CASE UNCHANGED hold
            BY <2>2, <3>6
        <3> QED BY <3>1, <3>3, <3>4, <3>5, <3>6 DEF Effect, Quiet, Recorded, Released, Moved
    <2> QED BY <2>1, <2>2
<1> QED BY <1>7, <1>8, <1>9

\* How a step changes trials together with their rows: no row enters a trial,
\* a trial begins, or one live trial moves and its row follows.
TrialFollows ==
    \/ /\ UNCHANGED hold
       /\ \A b \in Apparatuses, p \in Orders :
             queue'[b][p] = "print_preflight" => queue[b][p] = "print_preflight"
    \/ \E w : Begun(w)
    \/ \E h \in HoldIds : \E to :
          /\ hold' = HoldAfter(h, to) /\ Live(h)
          /\ \/ to \in {"running", "passed"}
             \/ queue'[hold[h].apparatus][hold[h].order] # "print_preflight"
          /\ \A b \in Apparatuses, p \in Orders :
                queue'[b][p] = "print_preflight" =>
                    \/ queue[b][p] = "print_preflight"
                    \/ b = hold[h].apparatus /\ p = hold[h].order

\* A transaction takes down the trial of the row it writes.
LEMMA QueueTxTrials ==
    ASSUME Inv, Safe, NEW a, NEW o, NEW to, NEW sess, NEW h, NEW status, NEW c, NEW sq,
           QueueTx(a, o, to, sess, HoldAfter(h, status), c, sq), to # "print_preflight",
           h # NoHold => h \in HoldIds /\ Live(h) /\ hold[h].order = o /\ hold[h].apparatus = a
    PROVE  TrialFollows
<1>1. queue' = [queue EXCEPT ![a][o] = to] /\ hold' = HoldAfter(h, status)
    BY Zenon DEF QueueTx
<1>2. \A b \in Apparatuses, p \in Orders :
          queue'[b][p] = IF b = a /\ p = o THEN to ELSE queue[b][p]
    BY <1>1, Row DEF Inv, Tables
<1>3. CASE h = NoHold
    BY <1>1, <1>2, <1>3 DEF HoldAfter, TrialFollows
<1>4. CASE h # NoHold
    <2>1. a \in Apparatuses /\ o \in Orders
        BY <1>4, RoutesAssumption DEF Live, Inv, Trials, Safe, TrialOrders
    <2>2. queue'[hold[h].apparatus][hold[h].order] # "print_preflight"
        BY <1>2, <1>4, <2>1
    <2> QED BY <1>1, <1>2, <1>4, <2>2 DEF TrialFollows
<1> QED BY <1>3, <1>4

\* Every step relates the trials to the rows they are about the way TrialFollows
\* says.
LEMMA TrialsFollow == ASSUME Inv, Safe, Next PROVE TrialFollows
<1> PICK r \in Requests : Next!(r)
    BY DEF Next
<1>1. ASSUME UNCHANGED <<queue, hold>> PROVE TrialFollows
    BY <1>1 DEF TrialFollows
<1>2. ASSUME UNCHANGED store PROVE TrialFollows
    BY <1>1, <1>2 DEF store
<1>3. PICK w : w = write[r]
    OBVIOUS
<1>4. Bound(pc[r], w) /\ About(pc[r], w, hold) /\ w \in WriteRecord
    BY <1>3 DEF Safe, Bounds, Bound
<1>5. w.h \in HoldIds \union {NoHold} /\ w.trials \subseteq HoldIds
    BY <1>4 DEF WriteRecord
<1>6. ASSUME NEW a, NEW sess, NEW h, NEW c,
             FreezeTx(a, w.o, sess, HoldAfter(h, "cancelled"), c),
             h # NoHold => h \in HoldIds /\ Live(h) /\ hold[h].order = w.o /\ hold[h].apparatus = a
      PROVE  TrialFollows
    BY <1>6, QueueTxTrials DEF FreezeTx
<1>7. CASE Commit(r)
    <2>1. CASE UNCHANGED store
        BY <1>2, <2>1
    <2>2. CASE ~ UNCHANGED store
        <3>1. CommitAllowed(w) /\ CarriesPrepared(w) /\ w.act \in QueueActs
            BY <1>3, <1>7, <2>2 DEF Commit, Inv, Carried
        <3>2. w.h # NoHold => w.h \in HoldIds /\ Live(w.h) /\ hold[w.h].order = w.o /\ hold[w.h].apparatus = w.a
            BY <1>5, <3>1 DEF CommitAllowed, HoldUsable, Live
        <3>3. CASE w.act = "freeze"
            <4>1. FreezeTx(w.a, w.o, SessionAfter(w), HoldAfter(w.h, "cancelled"), w.ctl)
                BY <1>3, <1>7, <3>1, <3>3 DEF Commit, HoldsAfter
            <4> QED BY <1>6, <3>2, <4>1
        <3>4. CASE w.act # "freeze"
            <4>1. \E status : QueueTx(w.a, w.o, w.to, SessionAfter(w), HoldAfter(w.h, status), control[w.o], seq)
                BY <1>3, <1>7, <3>1, <3>4, Zenon DEF Commit, HoldsAfter
            <4>2. w.to # "print_preflight"
                BY <3>1, <3>4 DEF CarriesPrepared, QueueActs
            <4> QED BY <3>2, <4>1, <4>2, QueueTxTrials
        <3> QED BY <3>3, <3>4
    <2> QED BY <2>1, <2>2
<1>8. CASE CommitBegin(r)
    <2>1. CASE BeginAllowed(w)
        <3>1. Begun(w)
            BY <1>3, <1>8, <2>1 DEF CommitBegin, Begun, Inv, Carried
        <3> QED BY <3>1 DEF TrialFollows
    <2> QED BY <1>2, <1>3, <1>8, <2>1 DEF CommitBegin
<1>9. CASE CommitDecision(r)
    <2>1. CASE DecisionAllowed(w)
        <3>1. /\ hold' = HoldAfter(w.h, w.to) /\ w.act = "decide" /\ pc[r] = "prepared"
              /\ queue' = [queue EXCEPT ![w.a][w.o] = QueueAfterDecision(w)]
            BY <1>3, <1>9, <2>1 DEF CommitDecision
        <3>2. Names(hold, w.h, w.o, w.a) /\ w.a \in Apparatuses /\ w.o \in Orders
            BY <1>4, <3>1 DEF Bound, About
        <3>3. w.h \in HoldIds /\ Live(w.h) /\ hold[w.h].order = w.o /\ hold[w.h].apparatus = w.a
            BY <2>1, <3>2 DEF Names, DecisionAllowed
        <3>4. \A b \in Apparatuses, p \in Orders :
                  queue'[b][p] = IF b = w.a /\ p = w.o THEN QueueAfterDecision(w) ELSE queue[b][p]
            BY <3>1, Row DEF Inv, Tables
        <3>5. w.to \in {"running", "passed"} \/ QueueAfterDecision(w) # "print_preflight"
            <4>1. hold[w.h].previous \in {"none", "pending"}
                BY <3>3 DEF Inv, Trials, Trial
            <4> QED BY <4>1 DEF QueueAfterDecision
        <3> HIDE DEF QueueAfterDecision
        <3> QED BY <3>1, <3>2, <3>3, <3>4, <3>5 DEF TrialFollows
    <2> QED BY <1>2, <1>3, <1>9, <2>1 DEF CommitDecision
<1>10. CASE StopDirect(r)
    <2>1. ASSUME NEW a, NEW sess, StopAllowed(a, w.o, w.h, sess, w.ctl),
                 w.ctl.target # NoApparatus => a = w.ctl.target,
                 FreezeTx(a, w.o, sess, HoldAfter(w.h, "cancelled"), w.ctl)
          PROVE  TrialFollows
        <3>1. w.h # NoHold => w.h \in HoldIds /\ Live(w.h) /\ hold[w.h].order = w.o /\ hold[w.h].apparatus = a
            BY <1>3, <1>4, <1>10, <2>1 DEF StopDirect, StopAllowed, About, Names
        <3> QED BY <1>6, <2>1, <3>1
    <2> DEFINE paused == w.ctl.bySession /\ w.ctl.state = "frozen"
               from == IF w.ctl.target # NoApparatus THEN {w.ctl.target}
                       ELSE {b \in Apparatuses : queue[b][w.o] = "paused"}
               machines == {a \in from : Stoppable(a, w.o, paused, w.h \in w.trials)}
               after(a) == IF w.ctl.bySession THEN "frozen" ELSE session[a][w.o]
    <2>2. \/ \E a \in machines : /\ StopAllowed(a, w.o, w.h, after(a), w.ctl)
                                 /\ FreezeTx(a, w.o, after(a), HoldAfter(w.h, "cancelled"), w.ctl)
          \/ PutControl(w.o, w.ctl)
          \/ UNCHANGED store
        BY <1>3, <1>10, Zenon DEF StopDirect
    <2>3. \A a \in machines : w.ctl.target # NoApparatus => a = w.ctl.target
        OBVIOUS
    <2> HIDE DEF machines, after
    <2>4. PutControl(w.o, w.ctl) => UNCHANGED <<queue, hold>>
        BY DEF PutControl
    <2> QED BY <1>1, <1>2, <2>1, <2>2, <2>3, <2>4
<1>11. ASSUME NEW h \in HoldIds, StopTrial(r, h) PROVE TrialFollows
    <2>1. CASE UNCHANGED store
        BY <1>2, <2>1
    <2>2. CASE ~ UNCHANGED store
        <3>1. /\ StopAllowed(hold[h].apparatus, w.o, h, session[hold[h].apparatus][w.o], w.ctl)
              /\ FreezeTx(hold[h].apparatus, w.o, session[hold[h].apparatus][w.o],
                          HoldAfter(h, "cancelled"), w.ctl)
              /\ pc[r] = "trials" /\ h \in w.trials
            BY <1>3, <1>11, <2>2, Zenon DEF StopTrial
        <3>2. h # NoHold => Live(h)
            BY <3>1 DEF StopAllowed
        <3>3. hold[h].order = w.o
            BY <1>4, <3>1 DEF About
        <3> QED BY <1>6, <3>1, <3>2, <3>3
    <2> QED BY <2>1, <2>2
<1>12. ASSUME NEW a \in Apparatuses, StopStage(r, a) PROVE TrialFollows
    <2>1. UNCHANGED store \/ FreezeTx(a, w.o, "frozen", hold, w.ctl)
        BY <1>3, <1>12, Zenon DEF StopStage
    <2>2. hold = HoldAfter(NoHold, "cancelled")
        BY DEF HoldAfter
    <2> QED BY <1>2, <1>6, <2>1, <2>2
<1>13. ASSUME NEW a \in Apparatuses, RestoreOne(r, a) PROVE TrialFollows
    <2>1. \/ UNCHANGED store
          \/ QueueTx(a, w.o, "pending", ReleasedSession(session[a][w.o]), hold,
                     control[w.o], RestoredSequence(seq, w.o))
        BY <1>3, <1>13, Zenon DEF RestoreOne
    <2>2. hold = HoldAfter(NoHold, "cancelled")
        BY DEF HoldAfter
    <2> QED BY <1>2, <2>1, <2>2, QueueTxTrials
<1>14. CASE StopPublish(r) \/ StopSettle(r) \/ RestoreDone(r)
    <2>1. UNCHANGED store \/ \E o, c : PutControl(o, c)
        BY <1>14, Zenon DEF StopPublish, StopSettle, RestoreDone
    <2> QED BY <1>1, <1>2, <2>1 DEF PutControl
<1>15. ASSUME NEW o \in Orders, UpgradeToClose(r, o) PROVE TrialFollows
    BY <1>1, <1>15 DEF UpgradeToClose, PutControl
<1>16. ASSUME NEW a \in Apparatuses, NEW o \in Orders, NEW wish, MoveSequence(r, a, o, wish)
       PROVE  TrialFollows
    BY <1>1, <1>16 DEF MoveSequence
<1> QED
    BY <1>2, <1>7, <1>8, <1>9, <1>10, <1>11, <1>12, <1>13, <1>14, <1>15, <1>16, ZenonT(60)
       DEF AskStart, PrepareFreeze, PrepareBegin, PrepareResume, PrepareReport, AskDecision,
           StopBegin, RestoreBegin, Withdraw, PrepareStart, PrepareDecision, StopTrialsDone,
           Crash

\* Every step keeps a trial behind every row that waits for a decision.
LEMMA NextDecidable == ASSUME Inv, Safe, Next PROVE TrialRowIsDecidable'
<1> SUFFICES ASSUME NEW a \in Apparatuses, NEW o \in Orders, queue'[a][o] = "print_preflight"
             PROVE  \E h \in HoldIds : /\ hold'[h].status \in {"running", "passed"}
                                       /\ hold'[h].order = o /\ hold'[h].apparatus = a
    BY DEF TrialRowIsDecidable, Live
<1> DEFINE Goal == \E h \in HoldIds : /\ hold'[h].status \in {"running", "passed"}
                                      /\ hold'[h].order = o /\ hold'[h].apparatus = a
<1>1. TrialFollows
    BY TrialsFollow
<1>2. ASSUME queue[a][o] = "print_preflight"
      PROVE  \E h \in HoldIds : /\ hold[h].status \in {"running", "passed"}
                                /\ hold[h].order = o /\ hold[h].apparatus = a
    BY <1>2 DEF Safe, TrialRowIsDecidable, Live
<1>3. CASE UNCHANGED hold /\ queue[a][o] = "print_preflight"
    BY <1>2, <1>3
<1>4. ASSUME NEW w, Begun(w) PROVE Goal
    <2>1. /\ w.h \in HoldIds /\ hold[w.h].status = "free"
          /\ hold' = [hold EXCEPT ![w.h] =
                        [status |-> "running", order |-> w.o, apparatus |-> w.a,
                         previous |-> w.from, revision |-> 0]]
          /\ queue' = [queue EXCEPT ![w.a][w.o] = "print_preflight"]
        BY <1>4 DEF Begun, CarriesPrepared, BeginAllowed
    <2>2. CASE a = w.a /\ o = w.o
        <3>1. hold'[w.h] = [status |-> "running", order |-> w.o, apparatus |-> w.a,
                            previous |-> w.from, revision |-> 0]
            BY <2>1 DEF Inv, Trials
        <3>2. hold'[w.h].status = "running" /\ hold'[w.h].order = w.o /\ hold'[w.h].apparatus = w.a
            BY <3>1
        <3> QED BY <2>1, <2>2, <3>2
    <2>3. CASE ~ (a = w.a /\ o = w.o)
        <3>1. queue[a][o] = "print_preflight"
            BY <2>1, <2>3, Row DEF Inv, Tables
        <3>2. \A k \in HoldIds : k # w.h => hold'[k] = hold[k]
            BY <2>1 DEF Inv, Trials
        <3> QED BY <1>2, <2>1, <3>1, <3>2
    <2> QED BY <2>2, <2>3
<1>5. ASSUME NEW h \in HoldIds, NEW to, hold' = HoldAfter(h, to), Live(h),
             \/ to \in {"running", "passed"}
             \/ queue'[hold[h].apparatus][hold[h].order] # "print_preflight",
             \/ queue[a][o] = "print_preflight"
             \/ a = hold[h].apparatus /\ o = hold[h].order
      PROVE  Goal
    <2>1. h # NoHold
        BY RoutesAssumption
    <2>2. /\ \A k \in HoldIds : k # h => hold'[k] = hold[k]
          /\ hold'[h].status = to /\ hold'[h].order = hold[h].order
          /\ hold'[h].apparatus = hold[h].apparatus
        BY <1>5, <2>1, HoldStep DEF TrialStep, Inv
    <2>3. CASE a = hold[h].apparatus /\ o = hold[h].order
        BY <1>5, <2>2, <2>3
    <2>4. CASE ~ (a = hold[h].apparatus /\ o = hold[h].order)
        BY <1>2, <1>5, <2>2, <2>4
    <2> QED BY <2>3, <2>4
<1> QED BY <1>1, <1>3, <1>4, <1>5 DEF TrialFollows

\* Every step preserves Safe.
LEMMA NextSafe == ASSUME Inv, Safe, StoppedMachineIsQuiet, Next PROVE Safe'
<1>1. Effect /\ LineEffect
    BY Effects, LineEffects
<1>2. \/ UNCHANGED <<pc, write>>
      \/ \E r \in Requests : \E at, w : Enter(r, at, w) /\ Bound(at, w) /\ About(at, w, hold)
    BY Enters
<1>3. pc' \in [Requests -> Places] /\ write' \in [Requests -> WriteRecord] /\ Bounds'
    BY <1>1, <1>2, NextBounds
<1>4. TypeOK'
    BY <1>1, <1>3, NextLines, NextRows, Counters DEF TypeOK, Places
<1> QED BY <1>1, <1>3, <1>4, NextLines, NextRows, NextDecidable DEF Safe

\* What every request carries stays true of the tables, the closed orders stay
\* out of the sequences, and every row in trial has a trial.
THEOREM SafeAlways == Spec => []Safe
<1>1. Init => Safe
    <2> SUFFICES ASSUME Init PROVE Safe
        OBVIOUS
    <2> USE DEF Init
    <2>1. FreeHold \in HoldRecord
        BY DEF FreeHold, HoldRecord, HoldStates, QueueStates
    <2>2. NoControl \in ControlRecord /\ NoControl.close = "no"
        BY DEF NoControl, ControlRecord
    <2>3. NoQueue \in [Orders -> QueueStates] /\ \A o \in Orders : NoQueue[o] = "none"
        BY DEF NoQueue, QueueStates
    <2>4. NoWrite \in WriteRecord /\ Bound("idle", NoWrite) /\ About("idle", NoWrite, hold)
        BY NothingCarried DEF Bound
    <2> HIDE DEF FreeHold, NoControl, NoQueue, NoWrite
    <2>5. TypeOK
        <3>1. /\ queue \in [Apparatuses -> [Orders -> QueueStates]]
              /\ session \in [Apparatuses -> [Orders -> SessionStates]]
              /\ seq \in [Apparatuses -> Seq(Orders)] /\ hold \in [HoldIds -> HoldRecord]
            BY <2>1, <2>3, RoutesAssumption DEF SessionStates
        <3>2. /\ control \in [Orders -> ControlRecord] /\ write \in [Requests -> WriteRecord]
              /\ pc \in [Requests -> {"idle", "asked", "prepared", "direct", "publish",
                                      "trials", "stages", "restore"}]
              /\ stops \in [Orders -> Nat] /\ crashes \in 0 .. MaxCrashes
            BY <2>2, <2>4, RoutesAssumption
        <3> QED BY <3>1, <3>2 DEF TypeOK
    <2>6. TrialOrders /\ Bounds /\ ClosedStaysOut /\ TrialRowIsDecidable
        <3>1. TrialOrders
            BY DEF TrialOrders, FreeHold
        <3>2. Bounds
            BY <2>4 DEF Bounds
        <3>3. ClosedStaysOut
            BY <2>2 DEF ClosedStaysOut
        <3>4. TrialRowIsDecidable
            BY <2>3 DEF TrialRowIsDecidable
        <3> QED BY <3>1, <3>2, <3>3, <3>4
    <2> QED BY <2>5, <2>6 DEF Safe
<1>2. Inv /\ StoppedMachineIsQuiet /\ Safe /\ [Next]_vars => Safe'
    <2> SUFFICES ASSUME Inv, StoppedMachineIsQuiet, Safe, [Next]_vars PROVE Safe'
        OBVIOUS
    <2>1. CASE Next
        BY <2>1, NextSafe
    <2>2. CASE UNCHANGED vars
        <3>1. TypeOK'
            BY <2>2 DEF vars, store, Safe, TypeOK
        <3>2. TrialOrders' /\ ClosedStaysOut' /\ TrialRowIsDecidable'
            BY <2>2 DEF vars, store, Safe, TrialOrders, ClosedStaysOut, TrialRowIsDecidable, Live
        <3>3. Bounds'
            BY <2>2 DEF vars, store, Safe, Bounds, Bound, About, Names, Sound
        <3> QED BY <3>1, <3>2, <3>3 DEF Safe
    <2> QED BY <2>1, <2>2
<1> QED BY <1>1, <1>2, Inductive, FrozenMachinesRest, PTL DEF Spec

\* Every table and every request stays within its vocabulary, whatever
\* requests of whatever processes do (queue/state.rs, order_control).
THEOREM TypeCorrect == Spec => []TypeOK
<1>1. Safe => TypeOK
    BY DEF Safe
<1> QED BY <1>1, SafeAlways, PTL

\* An order closed early stays stopped and out of every saved sequence, also
\* through reorderings and half-finished stops of several processes: the
\* record that closes it is filed by the transaction that takes it out, and a
\* reordering saves only orders that are not stopped (apply_early_close_tx).
THEOREM ClosedForGood == Spec => []ClosedStaysOut
<1>1. Safe => ClosedStaysOut
    BY DEF Safe
<1> QED BY <1>1, SafeAlways, PTL

\* A row in trial never lacks the trial that can end it: whoever ends a trial,
\* by a decision, a start or a stop, moves its row in the same transaction
\* (persist_queue_status, cancel_print_preflight_hold_tx).
THEOREM TrialRowsDecidable == Spec => []TrialRowIsDecidable
<1>1. Safe => TrialRowIsDecidable
    BY DEF Safe
<1> QED BY <1>1, SafeAlways, PTL

-----------------------------------------------------------------------------
(* One order at a time, and no work on a stopped order.                    *)

\* A strict machine without colour trials runs one order at a time, whatever
\* requests of whatever processes interleave between check and commit: a start
\* or resume commits only on the queue it found free (validate_write_tx).  On
\* a machine with colour trials a trial may begin on an order that is being
\* stopped, which the sequence no longer shows.
THEOREM OneAtATime == Strict \cap Printing = {} => (Spec => []OneOccupant)
<1> SUFFICES ASSUME Strict \cap Printing = {} PROVE Spec => []OneOccupant
    OBVIOUS
<1>1. Init => OneOccupant
    BY RoutesAssumption DEF Init, OneOccupant, NoQueue, ActiveStates
<1>2. Inv /\ Safe /\ Safe' /\ Inv' /\ OneOccupant /\ [Next]_vars => OneOccupant'
    <2> SUFFICES ASSUME Inv, Safe, Safe', Inv', OneOccupant, [Next]_vars,
                        NEW a \in Strict, NEW o \in Orders, NEW p \in Orders, o # p,
                        queue'[a][o] \in ActiveStates, queue'[a][p] \in ActiveStates
                 PROVE  FALSE
        BY DEF OneOccupant
    <2>1. a \in Apparatuses \ Printing
        BY RoutesAssumption
    <2>2. CASE UNCHANGED vars
        BY <2>2 DEF vars, store, OneOccupant
    <2>3. CASE Next
        <3>1. Effect
            BY <2>3, Effects
        <3>2. ASSUME NEW x \in Orders, queue'[a][x] \in ActiveStates
              PROVE  queue'[a][x] = "in_progress"
            <4>1. SUFFICES ASSUME queue'[a][x] = "print_preflight" PROVE FALSE
                BY <3>2, <4>1 DEF ActiveStates
            <4>2. PICK h \in HoldIds : hold'[h].status \in {"running", "passed"} /\ hold'[h].apparatus = a
                BY <2>1, <4>1 DEF Safe, TrialRowIsDecidable, Live
            <4>3. hold'[h].apparatus \in Printing
                BY <4>2 DEF Inv, Trials
            <4> QED BY <2>1, <4>2, <4>3
        <3>3. ASSUME NEW x \in Orders, NEW y \in Orders, x # y, queue'[a][y] \in ActiveStates,
                     NEW w, Worked(w), w.a = a, w.o = x, w.to = "in_progress",
                     NEW r \in Requests, write[r] = w, pc[r] = "prepared"
              PROVE  FALSE
            <4>1. w.act \in {"start", "resume"}
                BY <3>3 DEF Worked, CarriesPrepared
            <4>2. w.seen[y] \notin ActiveStates
                BY <2>1, <3>3, <4>1 DEF Safe, Bounds, Bound
            <4>3. queue[a] = w.seen
                BY <3>3, <4>1 DEF Worked, WitnessHolds
            <4>4. queue'[a][y] = queue[a][y]
                BY <2>1, <3>3, MovedRows DEF Worked
            <4> QED BY <3>3, <4>2, <4>3, <4>4
        <3>4. queue[a][o] = "in_progress" /\ queue[a][p] = "in_progress"
            BY <2>1, <3>1, <3>2, <3>3, RowEffect
        <3> QED BY <3>4 DEF OneOccupant, ActiveStates
    <2> QED BY <2>2, <2>3
<1> QED BY <1>1, <1>2, Inductive, SafeAlways, PTL DEF Spec

-----------------------------------------------------------------------------
(* One process: its mutation guard keeps a stop and a trial's begin apart. *)

\* Every request is served by one process.
OneProcess == \A r, q \in Requests : Server[r] = Server[q]

\* Whoever stops or releases an order is alone under the guard.
Guarded ==
    \A r, q \in Requests : r # q /\ Holding(r) /\ Holding(q) => ~ Alone(write[r].act)

\* A trial that is about to begin is of an order nobody stops.
BeginsActive ==
    \A r \in Requests : pc[r] = "prepared" /\ write[r].act = "begin" =>
        control[write[r].o].state = "active"

Kept(at) == at \notin {"idle", "asked"}

\* Under the guard a request enters what the guard allows.
Entered(r, at, w) ==
    /\ Enter(r, at, w)
    /\ \/ ~ Kept(at)
       \/ Holding(r) /\ w.act = write[r].act
       \/ OthersOf(r) = {}
       \/ ~ Alone(w.act) /\ \A q \in OthersOf(r) : ~ Alone(write[q].act)
    /\ at = "prepared" /\ w.act = "begin" => control[w.o].state = "active" /\ UNCHANGED control

\* The guard a request takes before it goes on.
LEMMA Guards ==
    ASSUME Inv, Safe, Next
    PROVE  UNCHANGED <<pc, write>> \/ \E r \in Requests : \E at, w : Entered(r, at, w)
<1> DEFINE Goal == UNCHANGED <<pc, write>> \/ \E r \in Requests : \E at, w : Entered(r, at, w)
<1> SUFFICES Goal
    OBVIOUS
<1> PICK r \in Requests : Next!(r)
    BY DEF Next
<1>1. ASSUME NEW at, NEW w, Entered(r, at, w) PROVE Goal
    BY <1>1
<1>2. ASSUME UNCHANGED <<pc, write>> PROVE Goal
    BY <1>2
<1> HIDE DEF Goal
<1>3. ASSUME NEW w, Enter(r, "asked", w) \/ Leave(r) PROVE Goal
    BY <1>1, <1>3 DEF Entered, Kept, Leave
<1>4. write[r] \in WriteRecord
    BY DEF Safe, TypeOK
<1>5. ASSUME NEW a, NEW w, ScopedGuard(r, a), Enter(r, "prepared", w), ~ Alone(w.act), w.act # "begin"
      PROVE  Goal
    BY <1>1, <1>5 DEF Entered, ScopedGuard
<1>6. ASSUME NEW at, NEW w, ExclusiveGuard(r), Enter(r, at, w), w.act # "begin" PROVE Goal
    BY <1>1, <1>6 DEF Entered, ExclusiveGuard
<1>7. ASSUME NEW at, NEW w, Holding(r), at # "prepared", Enter(r, at, w), w.act = write[r].act PROVE Goal
    BY <1>1, <1>7 DEF Entered
<1>8. ASSUME NEW a, NEW o, NEW h, AskStart(r, a, o, h) PROVE Goal
    BY <1>3, <1>8 DEF AskStart
<1>9. ASSUME NEW h, NEW to, AskDecision(r, h, to) PROVE Goal
    BY <1>3, <1>9 DEF AskDecision
<1>10. ASSUME NEW a, NEW o, NEW h, PrepareFreeze(r, a, o, h) PROVE Goal
    <2>1. PICK w : w = [Command("freeze", a, o, h) EXCEPT !.from = queue[a][o], !.to = "frozen",
                                                         !.ctl = Acknowledged(a, o)]
        OBVIOUS
    <2>2. w.act = "freeze"
        BY <2>1, Commands, WriteFields
    <2>3. ExclusiveGuard(r) /\ Enter(r, "prepared", w)
        BY <1>10, <2>1 DEF PrepareFreeze
    <2> QED BY <1>6, <2>2, <2>3
<1>11. ASSUME NEW a, NEW o, NEW h, PrepareBegin(r, a, o, h) PROVE Goal
    <2>1. PICK w : w = [Command("begin", a, o, h) EXCEPT !.from = queue[a][o]]
        OBVIOUS
    <2>2. w.act = "begin" /\ w.o = o
        BY <2>1, Commands, WriteFields
    <2>3. /\ ScopedGuard(r, a) /\ Enter(r, "prepared", w) /\ control[o].state = "active"
          /\ UNCHANGED control
        BY <1>11, <2>1 DEF PrepareBegin, MayWork, store
    <2>4. Entered(r, "prepared", w)
        BY <2>2, <2>3 DEF Entered, ScopedGuard, Alone
    <2> QED BY <1>1, <2>4
<1>12. ASSUME NEW a, NEW o, PrepareResume(r, a, o) PROVE Goal
    <2>1. PICK w : w = Witnessed(Command("resume", a, o, NoHold))
        OBVIOUS
    <2>2. w.act = "resume"
        BY <2>1, Commands, Witnesses
    <2>3. ScopedGuard(r, a) /\ Enter(r, "prepared", w)
        BY <1>12, <2>1 DEF PrepareResume
    <2> QED BY <1>5, <2>2, <2>3 DEF Alone
<1>13. ASSUME NEW a, NEW o, NEW act \in {"pause", "complete"}, NEW to, PrepareReport(r, act, a, o, to)
       PROVE  Goal
    <2>1. PICK w : w = [Command(act, a, o, NoHold) EXCEPT !.from = queue[a][o], !.to = to]
        OBVIOUS
    <2>2. w.act = act
        BY <2>1, Commands, WriteFields
    <2>3. ScopedGuard(r, a) /\ Enter(r, "prepared", w)
        BY <1>13, <2>1 DEF PrepareReport
    <2> QED BY <1>5, <2>2, <2>3 DEF Alone
<1>14. CASE PrepareStart(r)
    <2>1. PICK w : w = Witnessed(write[r])
        OBVIOUS
    <2>2. w.act = "start"
        BY <1>14, <2>1, Witnesses DEF PrepareStart, Inv, Carried, CarriesAsked
    <2>3. ScopedGuard(r, write[r].a) /\ Enter(r, "prepared", w)
        BY <1>14, <2>1 DEF PrepareStart
    <2> QED BY <1>5, <2>2, <2>3 DEF Alone
<1>15. CASE PrepareDecision(r)
    BY <1>5, <1>15 DEF PrepareDecision, Alone
<1>16. ASSUME NEW o \in Orders, NEW asking, StopBegin(r, o, asking) PROVE Goal
    <2>1. PICK h, c, rec, T, W, S :
              /\ c = Command("stop", NoApparatus, o, h)
              /\ \/ Enter(r, "publish", [c EXCEPT !.ctl = rec, !.trials = T, !.working = W, !.stages = S])
                 \/ Enter(r, "direct", [c EXCEPT !.ctl = rec, !.trials = T, !.working = W, !.stages = S])
        BY <1>16, Zenon DEF StopBegin
    <2>2. PICK w : w = [c EXCEPT !.ctl = rec, !.trials = T, !.working = W, !.stages = S]
        OBVIOUS
    <2>3. c.act = "stop" /\ DOMAIN c = DOMAIN NoWrite
        BY <2>1, Commands
    <2>4. w.act = "stop"
        BY <2>2, <2>3, WriteFields
    <2>5. Enter(r, "publish", w) \/ Enter(r, "direct", w)
        BY <2>1, <2>2
    <2>6. ExclusiveGuard(r)
        BY <1>16, Zenon DEF StopBegin
    <2> QED BY <1>6, <2>4, <2>5, <2>6
<1>17. ASSUME NEW o \in Orders, RestoreBegin(r, o) PROVE Goal
    <2>1. PICK c, S, d :
              /\ c = Command("restore", NoApparatus, o, NoHold)
              /\ Enter(r, "restore", [c EXCEPT !.stages = S, !.ctl = d])
        BY <1>17, Zenon DEF RestoreBegin
    <2>2. PICK w : w = [c EXCEPT !.stages = S, !.ctl = d]
        OBVIOUS
    <2>3. w.act = "restore"
        BY <2>1, <2>2, Commands, WriteFields
    <2>4. ExclusiveGuard(r)
        BY <1>17, Zenon DEF RestoreBegin
    <2> QED BY <1>6, <2>1, <2>2, <2>3, <2>4
<1>18. CASE StopPublish(r)
    <2>1. Holding(r) /\ (Leave(r) \/ Enter(r, "trials", write[r]))
        BY <1>18, Zenon DEF StopPublish, Holding
    <2> QED BY <1>3, <1>7, <2>1
<1>19. ASSUME NEW h, StopTrial(r, h) PROVE Goal
    <2>1. PICK T : pc[r] = "trials" /\ (Leave(r) \/ Enter(r, "trials", [write[r] EXCEPT !.trials = T]))
        BY <1>19, Zenon DEF StopTrial
    <2>2. [write[r] EXCEPT !.trials = T].act = write[r].act
        BY <1>4, WriteKeeps
    <2>3. Holding(r)
        BY <2>1 DEF Holding
    <2> QED BY <1>3, <1>7, <2>1, <2>2, <2>3
<1>20. CASE StopTrialsDone(r)
    <2>1. pc[r] = "trials" /\ (Leave(r) \/ Enter(r, "stages", write[r]))
        BY <1>20 DEF StopTrialsDone
    <2> QED BY <1>3, <1>7, <2>1 DEF Holding
<1>21. ASSUME NEW a, StopStage(r, a) \/ RestoreOne(r, a) PROVE Goal
    <2>1. PICK T, at : /\ pc[r] = at /\ at \in {"stages", "restore"}
                       /\ Leave(r) \/ Enter(r, at, [write[r] EXCEPT !.stages = T])
        BY <1>21 DEF StopStage, RestoreOne
    <2>2. [write[r] EXCEPT !.stages = T].act = write[r].act
        BY <1>4, WriteKeeps
    <2>3. Holding(r) /\ at # "prepared"
        BY <2>1 DEF Holding
    <2> QED BY <1>3, <1>7, <2>1, <2>2, <2>3
<1>22. CASE \/ Withdraw(r) \/ Commit(r) \/ CommitBegin(r) \/ CommitDecision(r)
            \/ StopDirect(r) \/ StopSettle(r) \/ RestoreDone(r) \/ Crash(r)
    <2>1. Leave(r)
        BY <1>22, Zenon DEF Withdraw, Commit, CommitBegin, CommitDecision, StopDirect, StopSettle,
                            RestoreDone, Crash
    <2> QED BY <1>3, <2>1
<1> QED
    BY <1>2, <1>8, <1>9, <1>10, <1>11, <1>12, <1>13, <1>14, <1>15, <1>16, <1>17, <1>18, <1>19,
       <1>20, <1>21, <1>22
       DEF UpgradeToClose, MoveSequence

\* An order leaves the active state by a request that is alone under its guard.
LEMMA WhoStops ==
    ASSUME Inv, Safe, Next
    PROVE  \/ \A o \in Orders : control[o].state = "active" => control'[o].state = "active"
           \/ \E r \in Requests : Holding(r) /\ Alone(write[r].act)
<1> DEFINE Goal == \/ \A o \in Orders : control[o].state = "active" => control'[o].state = "active"
                   \/ \E r \in Requests : Holding(r) /\ Alone(write[r].act)
<1> SUFFICES Goal
    OBVIOUS
<1> PICK r \in Requests : Next!(r)
    BY DEF Next
<1>1. CASE UNCHANGED control
    BY <1>1
<1>2. CASE Holding(r) /\ Alone(write[r].act)
    BY <1>2
<1>3. Bound(pc[r], write[r])
    BY DEF Safe, Bounds
<1>4. CASE pc[r] \in {"direct", "publish", "trials", "stages", "restore"}
    BY <1>2, <1>3, <1>4 DEF Bound, Holding
<1>5. CASE Commit(r)
    <2>1. CASE write[r].act = "freeze"
        BY <1>2, <1>5, <2>1 DEF Commit, Holding, Alone
    <2>2. CASE write[r].act # "freeze"
        <3>1. PICK w : w = write[r]
            OBVIOUS
        <3>2. \/ UNCHANGED store
              \/ /\ ControlsAllow(w)
                 /\ QueueTx(w.a, w.o, w.to, SessionAfter(w), HoldsAfter(w), control[w.o], seq)
            BY <1>5, <2>2, <3>1, Zenon DEF Commit, CommitAllowed
        <3>3. ASSUME ControlsAllow(w),
                     QueueTx(w.a, w.o, w.to, SessionAfter(w), HoldsAfter(w), control[w.o], seq)
              PROVE  UNCHANGED control
            <4>1. control[w.o].state = "active"
                BY <2>2, <3>1, <3>3 DEF ControlsAllow
            <4>2. \A q, s, hd : Finalized(w.o, control[w.o], q, s, hd) = control[w.o]
                BY <4>1 DEF Finalized
            <4>3. control' = [control EXCEPT ![w.o] = control[w.o]]
                BY <3>3, <4>2 DEF QueueTx
            <4> QED BY <4>3 DEF Safe, TypeOK
        <3> QED BY <1>1, <3>2, <3>3 DEF store
    <2> QED BY <2>1, <2>2
<1>6. ASSUME NEW o \in Orders, UpgradeToClose(r, o) PROVE Goal
    <2>1. control[o].state # "active" /\ \E c : control' = [control EXCEPT ![o] = c]
        BY <1>6, Zenon DEF UpgradeToClose, PutControl
    <2> QED BY <2>1 DEF Safe, TypeOK
<1>7. CASE CommitBegin(r) \/ CommitDecision(r)
    BY <1>1, <1>7 DEF CommitBegin, CommitDecision, store
<1>8. CASE UNCHANGED store
    BY <1>1, <1>8 DEF store
<1>9. CASE \/ StopDirect(r) \/ StopPublish(r) \/ StopSettle(r) \/ RestoreDone(r)
           \/ \E h \in HoldIds : StopTrial(r, h)
           \/ \E a \in Apparatuses : StopStage(r, a) \/ RestoreOne(r, a)
    <2>1. pc[r] \in {"direct", "publish", "trials", "stages", "restore"}
        BY <1>9 DEF StopDirect, StopPublish, StopSettle, RestoreDone, StopTrial, StopStage, RestoreOne
    <2> QED BY <1>4, <2>1
<1> HIDE DEF Goal
<1> QED
    BY <1>1, <1>5, <1>6, <1>7, <1>8, <1>9, ZenonT(60)
       DEF AskStart, PrepareFreeze, PrepareBegin, PrepareResume, PrepareReport, AskDecision,
           StopBegin, RestoreBegin, Withdraw, PrepareStart, PrepareDecision, StopTrialsDone,
           Crash, MoveSequence

Alike == Guarded /\ BeginsActive

\* With one server process, every step preserves Alike.
LEMMA NextAlike == ASSUME OneProcess, Inv, Safe, Alike, Next PROVE Alike'
<1>1. /\ pc \in [Requests -> Places] /\ write \in [Requests -> WriteRecord]
      /\ control \in [Orders -> ControlRecord]
    BY DEF Safe, TypeOK, Places
<1>2. CASE UNCHANGED <<pc, write>>
    <2>1. Guarded'
        BY <1>2 DEF Alike, Guarded, Holding
    <2>2. ASSUME NEW q \in Requests, pc[q] = "prepared", write[q].act = "begin"
          PROVE  control'[write[q].o].state = "active"
        <3>1. control[write[q].o].state = "active" /\ write[q].o \in Orders
            BY <2>2 DEF Alike, BeginsActive, Safe, Bounds, Bound
        <3>2. ASSUME NEW r \in Requests, Holding(r), Alone(write[r].act) PROVE FALSE
            BY <2>2, <3>2 DEF Alike, Guarded, Holding, Alone
        <3> QED BY <3>1, <3>2, WhoStops
    <2> QED BY <1>2, <2>1, <2>2 DEF Alike, BeginsActive
<1>3. ASSUME NEW r \in Requests, NEW at, NEW w, Entered(r, at, w) PROVE Alike'
    <2>1. /\ pc'[r] = at /\ write'[r] = w
          /\ \A q \in Requests : q # r => pc'[q] = pc[q] /\ write'[q] = write[q]
        BY <1>1, <1>3 DEF Entered, Enter
    <2>2. \A q \in Requests : q # r /\ Holding(q) => q \in OthersOf(r)
        BY DEF OneProcess, OthersOf
    <2>3. ASSUME NEW q \in Requests, q # r, Holding(q), Kept(at)
          PROVE  ~ Alone(write[q].act) /\ ~ Alone(w.act)
        <3>1. CASE Holding(r) /\ w.act = write[r].act
            BY <2>3, <3>1 DEF Alike, Guarded
        <3> QED BY <1>3, <2>2, <2>3, <3>1 DEF Entered
    <2>4. Guarded'
        <3> SUFFICES ASSUME NEW x \in Requests, NEW y \in Requests, x # y, Kept(pc'[x]), Kept(pc'[y])
                     PROVE  ~ Alone(write'[x].act)
            BY DEF Guarded, Holding, Kept, Alone
        <3>1. CASE x = r
            BY <2>1, <2>3, <3>1 DEF Kept, Holding
        <3>2. CASE y = r
            BY <2>1, <2>3, <3>2 DEF Kept, Holding
        <3>3. CASE x # r /\ y # r
            BY <2>1, <3>3 DEF Alike, Guarded, Kept, Holding
        <3> QED BY <3>1, <3>2, <3>3
    <2>5. ASSUME NEW q \in Requests, pc'[q] = "prepared", write'[q].act = "begin"
          PROVE  control'[write'[q].o].state = "active"
        <3>1. CASE q = r
            BY <1>3, <2>1, <2>5, <3>1 DEF Entered
        <3>2. CASE q # r
            <4>1. pc[q] = "prepared" /\ write[q].act = "begin" /\ write'[q].o = write[q].o
                BY <2>1, <2>5, <3>2
            <4>2. control[write[q].o].state = "active" /\ write[q].o \in Orders
                BY <4>1 DEF Alike, BeginsActive, Safe, Bounds, Bound
            <4>3. ASSUME NEW s \in Requests, Holding(s), Alone(write[s].act) PROVE FALSE
                BY <4>1, <4>3 DEF Alike, Guarded, Holding, Alone
            <4> QED BY <4>1, <4>2, <4>3, WhoStops
        <3> QED BY <3>1, <3>2
    <2> QED BY <2>4, <2>5 DEF Alike, BeginsActive
<1> QED BY <1>2, <1>3, Guards

\* Rows and sessions of p did not change and no trial of p was set running.
LEMMA Undisturbed ==
    ASSUME NEW p, ~ IsRunning(p, queue, session, hold),
           \A b \in Apparatuses : queue'[b][p] = queue[b][p] /\ session'[b][p] = session[b][p],
           \A h \in HoldIds : hold'[h].order = p /\ hold'[h].status = "running" =>
                                 hold[h].order = p /\ hold[h].status = "running"
    PROVE  ~ IsRunning(p, queue', session', hold')
BY DEF IsRunning

\* While stops and the begin of trials stay apart, no step runs a stopped order.
LEMMA NextQuiet == ASSUME Inv, Safe, Alike, StoppedIsQuiet, Next PROVE StoppedIsQuiet'
<1> SUFFICES ASSUME NEW p \in Orders, control'[p].state = "frozen"
             PROVE  ~ IsRunning(p, queue', session', hold')
    BY DEF StoppedIsQuiet, IsRunning
<1>1. Effect
    BY Effects
<1>2. control[p].state = "frozen" => ~ IsRunning(p, queue, session, hold)
    BY DEF StoppedIsQuiet
<1>3. hold \in [HoldIds -> HoldRecord] /\ control \in [Orders -> ControlRecord]
    BY DEF Safe, TypeOK
<1>4. CASE UNCHANGED <<queue, session, hold, control>>
    BY <1>2, <1>4, Undisturbed
<1>5. ASSUME NEW o, NEW c, Recorded(o, c) PROVE ~ IsRunning(p, queue', session', hold')
    <2>1. UNCHANGED <<queue, session, hold>> /\ control' = [control EXCEPT ![o] = c]
        BY <1>5 DEF Recorded
    <2>2. CASE p = o
        <3>1. ~ IsRunning(p, queue, session, hold)
            BY <1>3, <1>5, <2>1, <2>2 DEF Recorded, SaveAllowed
        <3> QED BY <2>1, <3>1, Undisturbed
    <2>3. CASE p # o
        BY <1>2, <1>3, <2>1, <2>3, Undisturbed
    <2> QED BY <2>2, <2>3
<1>6. ASSUME NEW h, NEW to, hold' = HoldAfter(h, to), to # "running", NEW k \in HoldIds
      PROVE  hold'[k].order = p /\ hold'[k].status = "running" =>
                 hold[k].order = p /\ hold[k].status = "running"
    <2>1. k # h => hold'[k] = hold[k]
        BY <1>6, HoldStep DEF Inv
    <2>2. k = h => hold'[k].status = to
        <3>1. k # NoHold
            BY RoutesAssumption
        <3> QED BY <1>6, <3>1, HoldStep DEF Inv, TrialStep
    <2> QED BY <1>6, <2>1, <2>2
<1>7. ASSUME NEW a, NEW o, NEW to, NEW sess, NEW h, NEW st, NEW c, p # o, st # "running",
             Moved(a, o, to, sess, HoldAfter(h, st), c)
      PROVE  ~ IsRunning(p, queue', session', hold')
    <2>1. /\ \A b \in Apparatuses : queue'[b][p] = queue[b][p] /\ session'[b][p] = session[b][p]
          /\ control'[p] = control[p]
        <3>1. control'[p] = control[p]
            BY <1>3, <1>7 DEF Moved
        <3> QED BY <1>7, <3>1, MovedRows
    <2>2. hold' = HoldAfter(h, st)
        BY <1>7 DEF Moved
    <2> QED BY <1>2, <1>6, <1>7, <2>1, <2>2, Undisturbed
<1>8. ASSUME NEW a, NEW o, NEW to, NEW sess, NEW hd, NEW c, p = o, Moved(a, o, to, sess, hd, c)
      PROVE  c.state = "frozen" \/ ~ IsRunning(p, queue', session', hold')
    <2>1. control'[p] = c \/ ~ IsRunning(o, queue', session', hold')
        <3>1. control'[p] = Finalized(o, c, queue', session', hold')
            BY <1>3, <1>8 DEF Moved
        <3> QED BY <3>1 DEF Finalized
    <2> QED BY <1>8, <2>1
<1>9. ASSUME NEW w, Worked(w) PROVE ~ IsRunning(p, queue', session', hold')
    <2>1. \E st \in {"consumed", "cancelled"} : HoldsAfter(w) = HoldAfter(w.h, st)
        BY DEF HoldsAfter
    <2>2. CASE p # w.o
        BY <1>7, <1>9, <2>1, <2>2 DEF Worked
    <2>3. CASE p = w.o
        BY <1>8, <1>9, <2>3 DEF Worked
    <2> QED BY <2>2, <2>3
<1>10. ASSUME NEW a, NEW o, NEW h, NEW sess, NEW c, Stopped(a, o, h, sess, c)
       PROVE  ~ IsRunning(p, queue', session', hold')
    <2>1. CASE p # o
        BY <1>7, <1>10, <2>1 DEF Stopped
    <2>2. CASE p = o
        BY <1>8, <1>10, <2>2 DEF Stopped
    <2> QED BY <2>1, <2>2
<1>11. ASSUME NEW a, NEW o, Released(a, o) PROVE ~ IsRunning(p, queue', session', hold')
    <2>1. hold = HoldAfter(NoHold, "cancelled")
        BY DEF HoldAfter
    <2>2. CASE p # o
        BY <1>7, <1>11, <2>1, <2>2 DEF Released
    <2>3. CASE p = o /\ control[o].state # "frozen"
        BY <1>8, <1>11, <2>3 DEF Released
    <2>4. CASE p = o /\ control[o].state = "frozen"
        <3>1. \A b \in Apparatuses :
                  /\ queue'[b][p] = IF b = a /\ p = o THEN "pending" ELSE queue[b][p]
                  /\ session'[b][p] = IF b = a /\ p = o THEN ReleasedSession(session[a][o])
                                                        ELSE session[b][p]
            BY <1>11, MovedRows DEF Released
        <3>2. hold' = hold
            BY <1>11 DEF Released, Moved
        <3>3. ~ IsRunning(p, queue, session, hold)
            BY <1>2, <2>4
        <3>4. \A b \in Apparatuses : queue'[b][p] \in {"pending", queue[b][p]}
            BY <3>1
        <3>5. \A b \in Apparatuses : session'[b][p] = "active" => session[b][p] = "active"
            BY <2>4, <3>1 DEF ReleasedSession
        <3> QED BY <3>2, <3>3, <3>4, <3>5 DEF IsRunning, ActiveStates
    <2> QED BY <2>2, <2>3, <2>4
<1>12. ASSUME NEW r \in Requests, pc[r] = "prepared", Begun(write[r])
       PROVE  ~ IsRunning(p, queue', session', hold')
    <2>1. PICK w : w = write[r]
        OBVIOUS
    <2>2. /\ w.act = "begin" /\ control' = control /\ session' = session
          /\ queue' = [queue EXCEPT ![w.a][w.o] = "print_preflight"]
          /\ hold' = [hold EXCEPT ![w.h] =
                        [status |-> "running", order |-> w.o, apparatus |-> w.a,
                         previous |-> w.from, revision |-> 0]]
        BY <1>12, <2>1 DEF Begun
    <2>3. p # w.o
        BY <1>12, <2>1, <2>2 DEF Alike, BeginsActive
    <2>4. \A b \in Apparatuses : queue'[b][p] = queue[b][p]
        BY <2>2, <2>3, Row DEF Inv, Tables
    <2>5. \A h \in HoldIds : hold'[h] = hold[h] \/ hold'[h].order = w.o
        BY <1>3, <2>2
    <2> QED BY <1>2, <2>2, <2>3, <2>4, <2>5, Undisturbed
<1>13. ASSUME NEW r \in Requests, pc[r] = "prepared", Decided(write[r])
       PROVE  ~ IsRunning(p, queue', session', hold')
    <2>1. PICK w : w = write[r]
        OBVIOUS
    <2>2. /\ w.act = "decide" /\ control' = control /\ session' = session
          /\ queue' = [queue EXCEPT ![w.a][w.o] = QueueAfterDecision(w)]
          /\ hold' = HoldAfter(w.h, w.to) /\ DecisionAllowed(w) /\ Fresh(w)
        BY <1>13, <2>1 DEF Decided
    <2>3. w.h \in HoldIds /\ hold[w.h].order = w.o /\ w.h # NoHold
        BY <1>13, <2>1, <2>2, RoutesAssumption DEF Safe, Bounds, About, Names
    <2>4. <<hold[w.h].status, w.to>> \in Decisions
        BY <2>2 DEF Fresh, FreshIn, DecisionAllowed
    <2>5. hold[w.h].status = "running" \/ control[w.o].state = "active"
        BY <2>2, <2>4 DEF Decisions, DecisionAllowed
    <2>6. p # w.o
        BY <1>2, <2>2, <2>3, <2>5 DEF IsRunning
    <2>7. \A b \in Apparatuses : queue'[b][p] = queue[b][p]
        BY <2>2, <2>6, Row DEF Inv, Tables
    <2>8. \A h \in HoldIds : hold'[h] = hold[h] \/ hold'[h].order = w.o
        <3>1. \A k \in HoldIds : k # w.h => hold'[k] = hold[k]
            BY <2>2, HoldStep DEF Inv
        <3>2. TrialStep(w.h, w.to)
            BY <2>2, <2>3, HoldStep DEF Inv
        <3> QED BY <2>3, <3>1, <3>2 DEF TrialStep
    <2> QED BY <1>2, <2>2, <2>6, <2>7, <2>8, Undisturbed
<1> QED BY <1>1, <1>4, <1>5, <1>9, <1>10, <1>11, <1>12, <1>13 DEF Effect, Quiet

\* When one process serves every request (deploy/systemd starts one), a frozen
\* order has no machine, no roll and no colour trial running: a trial begins
\* without reading the order's control again (put_with_event), and the
\* mutation guard keeps a stop from coming in between.
THEOREM StoppedOrdersRest == OneProcess => (Spec => []StoppedIsQuiet)
<1> SUFFICES ASSUME OneProcess PROVE Spec => []StoppedIsQuiet
    OBVIOUS
<1>1. Init => Alike /\ StoppedIsQuiet
    BY DEF Init, Alike, Guarded, BeginsActive, Holding, StoppedIsQuiet, NoControl
<1>2. Inv /\ Safe /\ Alike /\ StoppedIsQuiet /\ [Next]_vars => (Alike /\ StoppedIsQuiet)'
    <2> SUFFICES ASSUME Inv, Safe, Alike, StoppedIsQuiet, [Next]_vars
                 PROVE  Alike' /\ StoppedIsQuiet'
        OBVIOUS
    <2>1. CASE Next
        BY <2>1, NextAlike, NextQuiet
    <2>2. CASE UNCHANGED vars
        BY <2>2 DEF vars, store, Alike, Guarded, BeginsActive, Holding, StoppedIsQuiet, IsRunning
    <2> QED BY <2>1, <2>2
<1> QED BY <1>1, <1>2, Inductive, SafeAlways, PTL DEF Spec

-----------------------------------------------------------------------------
(* The order of the saved sequences.                                       *)

\* x is ahead of y: the sequence can be cut between them.
LEMMA AheadCut ==
    ASSUME NEW T, NEW s \in Seq(T), NEW x, NEW y, Ahead(s, x, y)
    PROVE  \E u, v \in Seq(T) : s = u \o v /\ x \in ToSet(u) /\ y \notin ToSet(u) /\ y \in ToSet(v)
<1>1. x \in ToSet(s) /\ y \in ToSet(s)
    BY ElementsType DEF Ahead
<1>2. PICK p, q, n : p = Position(s, x) /\ q = Position(s, y) /\ n = Len(s)
    OBVIOUS
<1>3. /\ p \in 1 .. n /\ q \in 1 .. n /\ p < q /\ s[p] = x /\ s[q] = y
      /\ \A j \in 1 .. n : s[j] = y => q <= j
    BY <1>1, <1>2, PositionProperties DEF Ahead
<1>4. n \in Nat
    BY <1>2, LenProperties
<1>5. q \in 1 .. n + 1
    BY <1>3, <1>4
<1>6. PICK u, v : u = SubSeq(s, 1, q - 1) /\ v = SubSeq(s, q, n)
    OBVIOUS
<1>7. u \in Seq(T) /\ v \in Seq(T) /\ Len(u) = q - 1 /\ s = u \o v
    BY <1>2, <1>5, <1>6, Cut
<1>8. \A j \in 1 .. q - 1 : u[j] = s[j]
    BY <1>7, ConcatProperties
<1>9. DOMAIN u = 1 .. q - 1
    BY <1>7, LenProperties
<1>10. p \in 1 .. q - 1 /\ \A j \in 1 .. q - 1 : j \in 1 .. n /\ ~ q <= j
    BY <1>3, <1>4
<1>11. x \in ToSet(u)
    BY <1>3, <1>8, <1>9, <1>10 DEF ToSet
<1>12. y \notin ToSet(u)
    BY <1>3, <1>8, <1>9, <1>10 DEF ToSet
<1>13. y \in ToSet(v)
    BY <1>1, <1>7, <1>12, ElementsConcat
<1> QED BY <1>7, <1>11, <1>12, <1>13

\* And where it can be cut between them, x is ahead of y.
LEMMA AheadJoin ==
    ASSUME NEW T, NEW u \in Seq(T), NEW v \in Seq(T), NEW x \in ToSet(u), NEW y \in ToSet(v),
           y \notin ToSet(u)
    PROVE  Ahead(u \o v, x, y)
<1>1. PICK s, m, n : s = u \o v /\ m = Len(u) /\ n = Len(v)
    OBVIOUS
<1>2. m \in Nat /\ n \in Nat /\ DOMAIN u = 1 .. m
    BY <1>1, LenProperties
<1>3. /\ s \in Seq(T) /\ Len(s) = m + n /\ \A j \in 1 .. m : j \in 1 .. m + n /\ s[j] = u[j]
      /\ ToSet(s) = ToSet(u) \cup ToSet(v)
    <2>1. s \in Seq(T) /\ ToSet(s) = ToSet(u) \cup ToSet(v)
        BY <1>1, ElementsConcat
    <2>2. Len(s) = m + n /\ \A j \in 1 .. m + n : s[j] = IF j <= m THEN u[j] ELSE v[j - m]
        BY <1>1, ConcatProperties
    <2>3. \A j \in 1 .. m : j \in 1 .. m + n /\ j <= m
        BY <1>2
    <2> QED BY <2>1, <2>2, <2>3
<1>4. PICK i \in 1 .. m : u[i] = x
    BY <1>2 DEF ToSet
<1>5. PICK p, q : p = Position(s, x) /\ q = Position(s, y)
    OBVIOUS
<1>6. /\ p \in 1 .. m + n /\ q \in 1 .. m + n /\ s[q] = y
      /\ \A j \in 1 .. m + n : s[j] = x => p <= j
    BY <1>3, <1>5, PositionProperties
<1>7. p <= i
    BY <1>3, <1>4, <1>6
<1>8. q \notin 1 .. m
    <2> SUFFICES ASSUME q \in 1 .. m PROVE FALSE
        OBVIOUS
    <2>1. u[q] = y
        BY <1>3, <1>6
    <2> QED BY <1>2, <2>1 DEF ToSet
<1>9. p < q
    BY <1>2, <1>4, <1>6, <1>7, <1>8
<1>10. Contains(s, x) /\ Contains(s, y)
    BY <1>3, ElementsType
<1> QED BY <1>1, <1>5, <1>9, <1>10 DEF Ahead

\* Two orders are not ahead of each other; what is ahead is listed.
LEMMA AheadOneWay ==
    ASSUME NEW T, NEW s \in Seq(T), NEW x, NEW y, Ahead(s, x, y)
    PROVE  ~ Ahead(s, y, x) /\ x \in ToSet(s) /\ y \in ToSet(s)
<1>1. x \in ToSet(s) /\ y \in ToSet(s)
    BY ElementsType DEF Ahead
<1>2. Position(s, x) \in Nat /\ Position(s, y) \in Nat
    BY <1>1, LenProperties, PositionProperties
<1> QED BY <1>1, <1>2 DEF Ahead

\* Leaving others out keeps who is ahead.
LEMMA AheadKept ==
    ASSUME NEW T, NEW s \in Seq(T), NEW S, NEW x \in S, NEW y \in S, Ahead(s, x, y)
    PROVE  Ahead(Keep(s, S), x, y)
<1>1. PICK u, v \in Seq(T) : s = u \o v /\ x \in ToSet(u) /\ y \notin ToSet(u) /\ y \in ToSet(v)
    BY AheadCut
<1>2. PICK a, b : a = Keep(u, S) /\ b = Keep(v, S)
    OBVIOUS
<1>3. Keep(s, S) = a \o b
    BY <1>1, <1>2, KeepConcat
<1>4. a \in Seq(T) /\ ToSet(a) = ToSet(u) \cap S /\ b \in Seq(T) /\ ToSet(b) = ToSet(v) \cap S
    BY <1>2, KeepElements
<1> QED BY <1>1, <1>3, <1>4, AheadJoin

\* And so does adding others behind.
LEMMA AheadLonger ==
    ASSUME NEW T, NEW s \in Seq(T), NEW t \in Seq(T), NEW x, NEW y, Ahead(s, x, y)
    PROVE  Ahead(s \o t, x, y)
<1>1. PICK u, v \in Seq(T) : s = u \o v /\ x \in ToSet(u) /\ y \notin ToSet(u) /\ y \in ToSet(v)
    BY AheadCut
<1>2. s \o t = u \o (v \o t) /\ v \o t \in Seq(T) /\ ToSet(v \o t) = ToSet(v) \cup ToSet(t)
    <2>1. (u \o v) \o t = u \o (v \o t)
        BY <1>1, ConcatAssociative
    <2>2. v \o t \in Seq(T)
        BY <1>1
    <2>3. ToSet(v \o t) = ToSet(v) \cup ToSet(t)
        BY <1>1, ElementsConcat
    <2> QED BY <1>1, <2>1, <2>2, <2>3
<1>3. PICK b : b = v \o t
    OBVIOUS
<1> QED BY <1>1, <1>2, <1>3, AheadJoin

\* Removing a third order keeps who is ahead of whom.
LEMMA AheadWithout ==
    ASSUME NEW T, NEW s \in Seq(T), NEW o, NEW x, NEW y, x # o, y # o, Ahead(s, x, y)
    PROVE  Ahead(Without(s, o), x, y)
<1>1. x \in ToSet(s) \ {o} /\ y \in ToSet(s) \ {o}
    BY AheadOneWay
<1> QED BY <1>1, AheadKept DEF Without

\* Sending another order to the tail.
LEMMA AheadTail ==
    ASSUME NEW T, NEW s \in Seq(T), NEW o \in T, NEW x, NEW y, x # o, Ahead(s, x, y)
    PROVE  Ahead(Append(Without(s, o), o), x, y)
<1>1. PICK w, t : w = Without(s, o) /\ t = <<o>>
    OBVIOUS
<1>2. w \in Seq(T) /\ ToSet(w) = ToSet(s) \ {o}
    BY <1>1, WithoutProperties
<1>3. t \in Seq(T) /\ o \in ToSet(t)
    BY <1>1 DEF ToSet
<1>4. Append(w, o) = w \o t
    BY <1>1, <1>2, AppendIsConcat
<1>5. CASE y = o
    <2>1. x \in ToSet(w)
        BY <1>2, AheadOneWay
    <2> QED BY <1>1, <1>2, <1>3, <1>4, <1>5, <2>1, AheadJoin
<1>6. CASE y # o
    <2>1. Ahead(w, x, y)
        BY <1>1, <1>6, AheadWithout
    <2> QED BY <1>1, <1>2, <1>3, <1>4, <2>1, AheadLonger
<1> QED BY <1>5, <1>6

\* The executable sequence keeps who is ahead in the saved one.
LEMMA AheadInLine ==
    ASSUME Safe, NEW a \in Apparatuses, NEW x \in Orders \ FrozenOrders,
           NEW y \in Orders \ FrozenOrders, Ahead(seq[a], x, y)
    PROVE  Line(a) \in Seq(Orders) /\ Ahead(Line(a), x, y)
<1>1. seq[a] \in Seq(Orders) /\ Arrival \in Seq(Orders)
    BY RoutesAssumption DEF Safe, TypeOK
<1>2. PICK S, p, t : /\ S = ToSet(Arrival) \ FrozenOrders /\ p = Keep(seq[a], S)
                     /\ t = Keep(Arrival, ToSet(Arrival) \ (FrozenOrders \cup ToSet(p)))
    OBVIOUS
<1>3. x \in S /\ y \in S
    BY <1>1, <1>2, RoutesAssumption, ElementsType
<1>4. p \in Seq(Orders) /\ t \in Seq(Orders)
    BY <1>1, <1>2, KeepElements
<1>5. Ahead(p, x, y)
    BY <1>1, <1>2, <1>3, AheadKept
<1>6. Line(a) = p \o t
    BY <1>2, Zenon DEF Line, EffectiveSequence
<1>7. p \o t \in Seq(Orders)
    BY <1>4, ElementsConcat
<1> QED BY <1>4, <1>5, <1>6, <1>7, AheadLonger

\* Nothing gets ahead of an order that occupies a machine, unless it is itself
\* released to the tail: reorderings obey the barrier on the executable
\* sequence, stops only take orders out, releases only add behind
\* (validate_active_sequence_barrier, apply_apparatus_sequence_delta_tx).
THEOREM NobodyOvertakes == Spec => NobodyOvertakesRunningWork
<1>1. Inv /\ Safe /\ Safe' /\ [Next]_vars =>
          [\A a \in Apparatuses, x, y \in Orders :
              /\ queue[a][x] \in ActiveStates /\ queue'[a][x] \in ActiveStates
              /\ Ahead(seq[a], x, y) /\ ~ IsReleased(x)
              => ~ Ahead(seq'[a], y, x)]_vars
    <2> SUFFICES ASSUME Inv, Safe, Safe', Next, NEW a \in Apparatuses, NEW x \in Orders, NEW y \in Orders,
                        queue[a][x] \in ActiveStates, Ahead(seq[a], x, y), ~ IsReleased(x),
                        Ahead(seq'[a], y, x)
                 PROVE  FALSE
        OBVIOUS
    <2>1. seq \in [Apparatuses -> Seq(Orders)] /\ seq[a] \in Seq(Orders) /\ seq'[a] \in Seq(Orders)
        BY DEF Safe, TypeOK
    <2>2. ~ Ahead(seq'[a], x, y) /\ x \in ToSet(seq'[a]) /\ y \in ToSet(seq'[a])
        BY <2>1, AheadOneWay
    <2>3. CASE seq'[a] = seq[a]
        BY <2>2, <2>3
    <2>4. ASSUME NEW b, NEW s, Reordered(b, s) PROVE FALSE
        <3>1. CASE b # a
            BY <2>1, <2>3, <2>4, <3>1 DEF Reordered
        <3>2. CASE b = a
            <4>1. /\ seq'[a] = s /\ s \in Seq(Orders) /\ ToSet(s) \cap FrozenOrders = {}
                  /\ Barrier(Line(a), s, BarrierOrders(a))
                BY <2>1, <2>4, <3>2 DEF Reordered
            <4>2. x \in Orders \ FrozenOrders /\ y \in Orders \ FrozenOrders
                BY <2>2, <4>1
            <4>3. PICK line, p, q : line = Line(a) /\ p = Position(s, x) /\ q = Position(s, y)
                OBVIOUS
            <4>4. line \in Seq(Orders) /\ Ahead(line, x, y)
                BY <4>2, <4>3, AheadInLine
            <4>5. x \in BarrierOrders(a)
                BY <4>2 DEF BarrierOrders
            <4>6. p \in Nat /\ q \in 1 .. p - 1 /\ s[q] = y
                <5>1. p \in 1 .. Len(s) /\ q \in 1 .. Len(s) /\ s[q] = y
                    BY <2>2, <4>1, <4>3, PositionProperties
                <5>2. q < p
                    BY <4>1, <4>3 DEF Ahead
                <5>3. Len(s) \in Nat
                    BY <4>1, LenProperties
                <5> QED BY <5>1, <5>2, <5>3
            <4>7. Position(line, y) < CurrentPosition(line, x)
                BY <4>1, <4>3, <4>5, <4>6 DEF Barrier
            <4>8. CurrentPosition(line, x) = Position(line, x) /\ Position(line, x) < Position(line, y)
                BY <4>4 DEF Ahead, CurrentPosition
            <4>9. Position(line, x) \in Nat /\ Position(line, y) \in Nat
                <5>1. x \in ToSet(line) /\ y \in ToSet(line)
                    BY <4>4, AheadOneWay
                <5> QED BY <4>4, <5>1, LenProperties, PositionProperties
            <4> QED BY <4>7, <4>8, <4>9
        <3> QED BY <3>1, <3>2
    <2>5. ASSUME NEW o, NEW c, NEW sq, Filed(o, c, sq) PROVE FALSE
        <3>1. /\ o \in Orders
              /\ \/ sq = seq \/ sq = WithoutOrder(seq, o) \/ (sq = AtTail(seq, o) /\ o # x)
              /\ seq' = sq \/ seq' = WithoutOrder(sq, o)
            BY <2>5 DEF Filed
        <3>2. WithoutOrder(seq, o)[a] = Without(seq[a], o)
            BY DEF WithoutOrder
        <3>3. AtTail(seq, o)[a] = Append(Without(seq[a], o), o)
            BY DEF AtTail
        <3>4. WithoutOrder(sq, o)[a] = Without(sq[a], o)
            BY DEF WithoutOrder
        <3>5. Without(seq[a], o) \in Seq(Orders) /\ ToSet(Without(seq[a], o)) = ToSet(seq[a]) \ {o}
            BY <2>1, WithoutProperties
        <3>6. sq[a] \in Seq(Orders)
            <4>1. PICK t : t = Without(seq[a], o)
                OBVIOUS
            <4>2. t \in Seq(Orders) /\ Append(t, o) \in Seq(Orders)
                <5>1. t \in Seq(Orders) /\ o \in Orders
                    BY <3>1, <3>5, <4>1
                <5> QED BY <5>1, AppendProperties
            <4>3. CASE sq = seq
                BY <2>1, <4>3
            <4>4. CASE sq = WithoutOrder(seq, o)
                BY <3>2, <4>1, <4>2, <4>4, Zenon
            <4>5. CASE sq = AtTail(seq, o)
                BY <3>3, <4>1, <4>2, <4>5, Zenon
            <4> QED BY <3>1, <4>3, <4>4, <4>5, Zenon
        <3>7. ToSet(Without(sq[a], o)) = ToSet(sq[a]) \ {o}
            BY <3>6, WithoutProperties
        <3>8. x # o /\ y # o => Ahead(sq[a], x, y)
            BY <2>1, <3>1, <3>2, <3>3, AheadWithout, AheadTail
        <3>9. CASE seq'[a] = Without(sq[a], o)
            <4>1. x # o /\ y # o
                BY <2>2, <3>7, <3>9
            <4>2. Ahead(Without(sq[a], o), x, y)
                BY <3>6, <3>8, <4>1, AheadWithout
            <4> QED BY <2>2, <3>9, <4>2
        <3>10. CASE seq'[a] = sq[a]
            <4>1. CASE sq[a] = seq[a]
                BY <2>3, <3>10, <4>1
            <4>2. CASE sq[a] = Without(seq[a], o)
                <5>1. x # o /\ y # o
                    BY <2>2, <3>5, <3>10, <4>2
                <5> QED BY <2>2, <3>8, <3>10, <5>1
            <4>3. CASE sq[a] = Append(Without(seq[a], o), o) /\ o # x
                <5>1. Ahead(sq[a], x, y)
                    BY <2>1, <3>1, <4>3, AheadTail
                <5> QED BY <2>2, <3>10, <5>1
            <4> QED BY <3>1, <3>2, <3>3, <4>1, <4>2, <4>3
        <3> QED BY <3>1, <3>4, <3>9, <3>10
    <2>6. LineEffect
        BY LineEffects
    <2> QED BY <2>3, <2>4, <2>5, <2>6 DEF LineEffect
<1> QED BY <1>1, Inductive, SafeAlways, PTL DEF Spec, NobodyOvertakesRunningWork

-----------------------------------------------------------------------------
(* Releases, when one process serves every request.                        *)

Stopping(at, w) ==
    at \in {"direct", "publish", "trials", "stages"} \/ (at = "prepared" /\ w.act = "freeze")

\* A frozen row belongs to an order whose stop is recorded.
StopsRecorded ==
    \A a \in Apparatuses, o \in Orders : queue[a][o] = "frozen" => control[o].state # "active"

\* What a request at a place found, and nobody has changed since.
Finds(at, w, q, ctl) ==
    /\ at = "restore" => /\ ctl[w.o].close = "no"
                         /\ \A a \in Apparatuses : q[a][w.o] = "frozen" => a \in w.stages
    /\ at = "prepared" /\ w.act = "decide" => ctl[w.o].state = "active"
    /\ Stopping(at, w) => w.ctl.state # "active"

Orderly ==
    StopsRecorded /\ \A r \in Requests : Finds(pc[r], write[r], queue, control)

\* Settling a request that does not ask to close the order does not close it.
LEMMA SettledOpen ==
    ASSUME NEW c \in ControlRecord, NEW o, NEW q, NEW s, NEW hd
    PROVE  LET f == Finalized(o, c, q, s, hd)
           IN  /\ c.close = "no" => f.close = "no"
               /\ c.state # "active" => f.state # "active"
<1>1. PICK n : n = FrozenNow(c)
    OBVIOUS
<1>2. n.state = "frozen"
    BY <1>1, FrozenNowType
<1>3. c.close = "no" => n.close = "no"
    <2> SUFFICES ASSUME c.close = "no" PROVE n.close = "no"
        OBVIOUS
    <2>1. PICK b, d : b = [c EXCEPT !.state = "frozen"] /\ d = [b EXCEPT !.status = "frozen"]
        OBVIOUS
    <2>2. b \in ControlRecord /\ b.close = "no"
        BY <2>1 DEF ControlRecord
    <2>3. d \in ControlRecord /\ d.close = "no"
        BY <2>1, <2>2 DEF ControlRecord
    <2>4. [d EXCEPT !.close = IF d.close = "asked" THEN "closed" ELSE d.close] = n
        BY <1>1, <2>1, Zenon DEF FrozenNow
    <2>5. [d EXCEPT !.close = IF d.close = "asked" THEN "closed" ELSE d.close].close = "no"
        BY <2>3 DEF ControlRecord
    <2> QED BY <2>4, <2>5
<1>4. PICK f : f = Finalized(o, c, q, s, hd)
    OBVIOUS
<1>5. f = n \/ f = c
    BY <1>1, <1>4 DEF Finalized
<1> QED BY <1>2, <1>3, <1>4, <1>5

\* A transaction that moves one machine of an order, as records go.
LEMMA TxRecords ==
    ASSUME Inv, Safe, StopsRecorded, NEW a, NEW o \in Orders, NEW to, NEW sess, NEW hd,
           NEW c \in ControlRecord, NEW sq, QueueTx(a, o, to, sess, hd, c, sq),
           c.state # "active" \/ (to # "frozen" /\ c = control[o])
    PROVE  StopsRecorded'
<1> SUFFICES ASSUME NEW b \in Apparatuses, NEW p \in Orders, queue'[b][p] = "frozen"
             PROVE  control'[p].state # "active"
    BY DEF StopsRecorded
<1>1. Moved(a, o, to, sess, hd, c)
    BY QueueTxEffect
<1>2. queue'[b][p] = (IF b = a /\ p = o THEN to ELSE queue[b][p]) /\ (p # o => control'[p] = control[p])
    BY <1>1, MovedRows
<1>3. CASE p # o
    BY <1>2, <1>3 DEF StopsRecorded
<1>4. CASE p = o
    <2>1. control'[p] = Finalized(o, c, queue', session', hold')
        BY <1>1, <1>4 DEF Moved, Inv, Tables
    <2>2. c.state # "active"
        BY <1>2, <1>4 DEF StopsRecorded
    <2> QED BY <2>1, <2>2, SettledOpen
<1> QED BY <1>3, <1>4

\* A record that is saved, as frozen rows go.
LEMMA PutRecords ==
    ASSUME Inv, StopsRecorded, NEW o \in Orders, NEW c, PutControl(o, c),
           c.state # "active" \/ \A a \in Apparatuses : queue[a][o] # "frozen"
    PROVE  StopsRecorded'
<1>1. UNCHANGED queue /\ control' = [control EXCEPT ![o] = c]
    BY DEF PutControl
<1>2. \A p \in Orders : control'[p] = IF p = o THEN c ELSE control[p]
    BY <1>1 DEF Inv, Tables
<1> QED BY <1>1, <1>2 DEF StopsRecorded

\* A frozen row of an order whose stop is not recorded never appears.
LEMMA NextRecorded == ASSUME Inv, Safe, Orderly, Next PROVE StopsRecorded'
<1> PICK r \in Requests : Next!(r)
    BY DEF Next
<1>1. PICK w : w = write[r]
    OBVIOUS
<1>2. StopsRecorded /\ Finds(pc[r], w, queue, control)
    BY <1>1 DEF Orderly
<1>3. Bound(pc[r], w) /\ w \in WriteRecord /\ w.ctl \in ControlRecord
    BY <1>1 DEF Safe, Bounds, Bound, Sound
<1>4. \A o \in Orders : control[o] \in ControlRecord
    BY DEF Safe, TypeOK
<1>5. ASSUME UNCHANGED <<queue, control>> PROVE StopsRecorded'
    BY <1>2, <1>5 DEF StopsRecorded
<1>6. ASSUME UNCHANGED store PROVE StopsRecorded'
    BY <1>5, <1>6 DEF store
<1>7. ASSUME Stopping(pc[r], w), w.o \in Orders,
             \/ PutControl(w.o, w.ctl)
             \/ \E a, sess, hd : FreezeTx(a, w.o, sess, hd, w.ctl)
      PROVE  StopsRecorded'
    <2>1. w.ctl.state # "active"
        BY <1>2, <1>7 DEF Finds
    <2>2. CASE PutControl(w.o, w.ctl)
        BY <1>2, <1>7, <2>1, <2>2, PutRecords
    <2>3. ASSUME NEW a, NEW sess, NEW hd, FreezeTx(a, w.o, sess, hd, w.ctl) PROVE StopsRecorded'
        BY <1>2, <1>3, <1>7, <2>1, <2>3, TxRecords DEF FreezeTx
    <2> QED BY <1>7, <2>2, <2>3
<1>8. CASE Commit(r)
    <2>1. w.o \in Orders /\ pc[r] = "prepared"
        BY <1>1, <1>3, <1>8 DEF Commit, Bound
    <2>2. CASE w.act = "freeze"
        <3>1. UNCHANGED store \/ FreezeTx(w.a, w.o, SessionAfter(w), HoldsAfter(w), w.ctl)
            BY <1>1, <1>8, <2>2, Zenon DEF Commit
        <3> QED BY <1>6, <1>7, <2>1, <2>2, <3>1 DEF Stopping
    <2>3. CASE w.act # "freeze"
        <3>1. \/ UNCHANGED store
              \/ QueueTx(w.a, w.o, w.to, SessionAfter(w), HoldsAfter(w), control[w.o], seq)
            BY <1>1, <1>8, <2>3, Zenon DEF Commit
        <3>2. w.act \in {"start", "resume", "pause", "complete"} /\ CarriesPrepared(w)
            BY <1>1, <1>8, <2>1, <2>3 DEF Commit, QueueActs, Inv, Carried
        <3>3. w.to # "frozen"
            BY <3>2 DEF CarriesPrepared
        <3> QED BY <1>2, <1>4, <1>6, <2>1, <3>1, <3>3, TxRecords
    <2> QED BY <2>2, <2>3
<1>9. CASE CommitBegin(r) \/ CommitDecision(r)
    <2>1. UNCHANGED control
        BY <1>9 DEF CommitBegin, CommitDecision, store
    <2>2. ASSUME NEW b \in Apparatuses, NEW p \in Orders, queue'[b][p] = "frozen"
          PROVE  queue[b][p] = "frozen"
        <3>1. CarriesPrepared(w) /\ Fresh(w)
            BY <1>1, <1>9 DEF CommitBegin, CommitDecision, Inv, Carried
        <3>2. UNCHANGED store \/ Begun(w) \/ Decided(w)
            BY <1>1, <1>9, <3>1, Zenon DEF CommitBegin, CommitDecision, Begun, Decided
        <3> QED BY <2>2, <3>2, TrialRows DEF store
    <2> QED BY <1>2, <2>1, <2>2 DEF StopsRecorded
<1>10. CASE StopDirect(r)
    <2>1. pc[r] = "direct" /\ w.o \in Orders
        BY <1>1, <1>3, <1>10 DEF StopDirect, Bound
    <2>2. \/ UNCHANGED store
          \/ PutControl(w.o, w.ctl)
          \/ \E a, sess, hd : FreezeTx(a, w.o, sess, hd, w.ctl)
        BY <1>1, <1>10, Zenon DEF StopDirect
    <2> QED BY <1>6, <1>7, <2>1, <2>2 DEF Stopping
<1>11. CASE StopPublish(r)
    <2>1. pc[r] = "publish" /\ w.o \in Orders
        BY <1>1, <1>3, <1>11 DEF StopPublish, Bound
    <2>2. UNCHANGED store \/ PutControl(w.o, w.ctl)
        BY <1>1, <1>11, Zenon DEF StopPublish
    <2> QED BY <1>6, <1>7, <2>1, <2>2 DEF Stopping
<1>12. ASSUME NEW h \in HoldIds, StopTrial(r, h) PROVE StopsRecorded'
    <2>1. pc[r] = "trials" /\ w.o \in Orders
        BY <1>1, <1>3, <1>12 DEF StopTrial, Bound
    <2>2. UNCHANGED store \/ \E a, sess, hd : FreezeTx(a, w.o, sess, hd, w.ctl)
        BY <1>1, <1>12, Zenon DEF StopTrial
    <2> QED BY <1>6, <1>7, <2>1, <2>2 DEF Stopping
<1>13. ASSUME NEW a \in Apparatuses, StopStage(r, a) PROVE StopsRecorded'
    <2>1. pc[r] = "stages" /\ w.o \in Orders
        BY <1>1, <1>3, <1>13 DEF StopStage, Bound
    <2>2. UNCHANGED store \/ FreezeTx(a, w.o, "frozen", hold, w.ctl)
        BY <1>1, <1>13, Zenon DEF StopStage
    <2> QED BY <1>6, <1>7, <2>1, <2>2 DEF Stopping
<1>14. CASE StopSettle(r)
    <2>1. w.o \in Orders
        BY <1>1, <1>3, <1>14 DEF StopSettle, Bound
    <2>2. UNCHANGED store \/ PutControl(w.o, FrozenNow(w.ctl))
        BY <1>1, <1>14, Zenon DEF StopSettle
    <2>3. FrozenNow(w.ctl).state # "active"
        BY <1>3, FrozenNowType
    <2> QED BY <1>2, <1>6, <2>1, <2>2, <2>3, PutRecords
<1>15. ASSUME NEW o \in Orders, UpgradeToClose(r, o) PROVE StopsRecorded'
    <2>1. PICK d, v : /\ d = [control[o] EXCEPT !.close = v]
                      /\ PutControl(o, d)
        BY <1>15, Zenon DEF UpgradeToClose
    <2>2. d.state = control[o].state
        BY <1>4, <2>1 DEF ControlRecord
    <2>3. control[o].state # "active"
        BY <1>15, Zenon DEF UpgradeToClose
    <2> QED BY <1>2, <2>1, <2>2, <2>3, PutRecords
<1>16. ASSUME NEW a \in Apparatuses, RestoreOne(r, a) PROVE StopsRecorded'
    <2>1. w.o \in Orders
        BY <1>1, <1>3, <1>16 DEF RestoreOne, Bound
    <2>2. \/ UNCHANGED store
          \/ QueueTx(a, w.o, "pending", ReleasedSession(session[a][w.o]), hold,
                     control[w.o], RestoredSequence(seq, w.o))
        BY <1>1, <1>16, Zenon DEF RestoreOne
    <2> QED BY <1>2, <1>4, <1>6, <2>1, <2>2, TxRecords
<1>17. CASE RestoreDone(r)
    <2>1. pc[r] = "restore" /\ w.stages = {} /\ w.o \in Orders
        BY <1>1, <1>3, <1>17 DEF RestoreDone, Bound
    <2>2. \A a \in Apparatuses : queue[a][w.o] # "frozen"
        BY <1>2, <2>1 DEF Finds
    <2>3. UNCHANGED store \/ PutControl(w.o, w.ctl)
        BY <1>1, <1>17, Zenon DEF RestoreDone
    <2> QED BY <1>2, <1>6, <2>1, <2>2, <2>3, PutRecords
<1>18. CASE \E a \in Apparatuses, o \in Orders : \E wish : MoveSequence(r, a, o, wish)
    BY <1>5, <1>18 DEF MoveSequence
<1> QED
    BY <1>6, <1>8, <1>9, <1>10, <1>11, <1>12, <1>13, <1>14, <1>15, <1>16, <1>17, <1>18, ZenonT(60)
       DEF AskStart, PrepareFreeze, PrepareBegin, PrepareResume, PrepareReport, AskDecision,
           StopBegin, RestoreBegin, Withdraw, PrepareStart, PrepareDecision, StopTrialsDone, Crash

\* A request that goes on finds what its place needs; one that changes rows or
\* records holds the guard, or is alone.
Comes(r) ==
    /\ UNCHANGED <<queue, control>> \/ Holding(r) \/ OthersOf(r) = {}
    /\ \/ UNCHANGED <<pc, write>> /\ pc[r] = "idle"
       \/ \E at, w : Enter(r, at, w) /\ Finds(at, w, queue', control')

\* Every step is one of these.
LEMMA Comings == ASSUME Inv, Safe, Orderly, Next PROVE \E r \in Requests : Comes(r)
<1> PICK r \in Requests : Next!(r)
    BY DEF Next
<1> SUFFICES Comes(r)
    OBVIOUS
<1>1. PICK w : w = write[r]
    OBVIOUS
<1>2. Finds(pc[r], w, queue, control) /\ w \in WriteRecord /\ Bound(pc[r], w)
    BY <1>1 DEF Orderly, Safe, Bounds, Bound
<1>3. \A o \in Orders : control[o] \in ControlRecord
    BY DEF Safe, TypeOK
<1>4. ASSUME UNCHANGED store \/ Holding(r) \/ ExclusiveGuard(r), NEW at, NEW x, Enter(r, at, x),
             Finds(at, x, queue', control')
      PROVE  Comes(r)
    BY <1>4 DEF Comes, store, ExclusiveGuard
<1>5. ASSUME UNCHANGED store \/ Holding(r), NEW x, Enter(r, "asked", x) \/ Leave(r) PROVE Comes(r)
    <2>1. \A y, q, ctl : Finds("asked", y, q, ctl) /\ Finds("idle", y, q, ctl)
        BY DEF Finds, Stopping
    <2> QED BY <1>4, <1>5, <2>1 DEF Leave
<1>6. ASSUME UNCHANGED store, NEW x, Enter(r, "prepared", x), x.act \notin {"decide", "freeze"}
      PROVE  Comes(r)
    <2>1. Finds("prepared", x, queue', control')
        BY <1>6 DEF Finds, Stopping
    <2> QED BY <1>4, <1>6, <2>1
<1>7. ASSUME UNCHANGED store \/ Holding(r) \/ ExclusiveGuard(r), NEW at, NEW x, Enter(r, at, x),
             Stopping(at, x), at = "prepared" => x.act = "freeze", x.ctl.state # "active"
      PROVE  Comes(r)
    <2>1. Finds(at, x, queue', control')
        BY <1>7 DEF Finds, Stopping
    <2> QED BY <1>4, <1>7, <2>1
<1>8. ASSUME NEW a, NEW o, NEW h, AskStart(r, a, o, h) PROVE Comes(r)
    BY <1>5, <1>8 DEF AskStart
<1>9. ASSUME NEW h, NEW to, AskDecision(r, h, to) PROVE Comes(r)
    BY <1>5, <1>9 DEF AskDecision
<1>10. ASSUME NEW a \in Apparatuses, NEW o \in Orders, NEW h, PrepareFreeze(r, a, o, h)
       PROVE  Comes(r)
    <2>1. PICK c, x, y : /\ c = Acknowledged(a, o)
                         /\ x = [Command("freeze", a, o, h) EXCEPT !.from = queue[a][o]]
                         /\ y = [x EXCEPT !.to = "frozen"]
        OBVIOUS
    <2>2. PICK v : v = [y EXCEPT !.ctl = c]
        OBVIOUS
    <2>3. x.act = "freeze" /\ DOMAIN x = DOMAIN NoWrite
        BY <2>1, Commands, WriteFields
    <2>4. y.act = "freeze" /\ DOMAIN y = DOMAIN NoWrite
        BY <2>1, <2>3, WriteFields
    <2>5. v.act = "freeze" /\ v.ctl = c
        BY <2>2, <2>4, WriteFields
    <2>6. UNCHANGED store /\ MayAcknowledge(a, o)
        BY <1>10 DEF PrepareFreeze
    <2>7. Enter(r, "prepared", v)
        <3>1. Enter(r, "prepared", [Command("freeze", a, o, h) EXCEPT
                                       !.from = queue[a][o], !.to = "frozen", !.ctl = c])
            BY <1>10, <2>1, Zenon DEF PrepareFreeze
        <3> QED BY <2>1, <2>2, <3>1, Zenon
    <2>8. c.state # "active"
        <3>1. control[o].state = "freeze_requested"
            BY <2>6 DEF MayAcknowledge
        <3>2. c = control[o] \/ c = FrozenNow(control[o])
            BY <2>1 DEF Acknowledged
        <3> QED BY <1>3, <3>1, <3>2, FrozenNowType
    <2> QED BY <1>7, <2>5, <2>6, <2>7, <2>8 DEF Stopping
<1>11. ASSUME NEW a, NEW o, NEW h, PrepareBegin(r, a, o, h) PROVE Comes(r)
    <2>1. PICK x : x = [Command("begin", a, o, h) EXCEPT !.from = queue[a][o]]
        OBVIOUS
    <2>2. x.act = "begin"
        BY <2>1, Commands, WriteFields
    <2> QED BY <1>6, <1>11, <2>1, <2>2 DEF PrepareBegin
<1>12. ASSUME NEW a, NEW o, PrepareResume(r, a, o) PROVE Comes(r)
    <2>1. PICK x : x = Witnessed(Command("resume", a, o, NoHold))
        OBVIOUS
    <2>2. x.act = "resume"
        BY <2>1, Commands, Witnesses
    <2> QED BY <1>6, <1>12, <2>1, <2>2 DEF PrepareResume
<1>13. ASSUME NEW a, NEW o, NEW act \in {"pause", "complete"}, NEW to, PrepareReport(r, act, a, o, to)
       PROVE  Comes(r)
    <2>1. PICK x : x = [Command(act, a, o, NoHold) EXCEPT !.from = queue[a][o], !.to = to]
        OBVIOUS
    <2>2. x.act = act
        BY <2>1, Commands, WriteFields
    <2> QED BY <1>6, <1>13, <2>1, <2>2 DEF PrepareReport
<1>14. CASE PrepareStart(r)
    <2>1. PICK x : x = Witnessed(write[r])
        OBVIOUS
    <2>2. x.act = "start"
        BY <1>14, <2>1, Witnesses DEF PrepareStart, Inv, Carried, CarriesAsked
    <2> QED BY <1>6, <1>14, <2>1, <2>2 DEF PrepareStart
<1>15. CASE PrepareDecision(r)
    <2>1. /\ UNCHANGED store /\ UNCHANGED <<queue, control>> /\ Enter(r, "prepared", w)
          /\ w.act = "decide" /\ control[w.o].state = "active"
        BY <1>1, <1>15 DEF PrepareDecision, store
    <2>2. Finds("prepared", w, queue', control')
        BY <2>1 DEF Finds, Stopping
    <2> QED BY <1>4, <2>1, <2>2
<1>16. ASSUME NEW o \in Orders, NEW asking, StopBegin(r, o, asking) PROVE Comes(r)
    <2>1. PICK h, c, rec, T, W, S :
              /\ c = Command("stop", NoApparatus, o, h) /\ rec = StopRecord(o, asking)
              /\ \/ Enter(r, "publish", [c EXCEPT !.ctl = rec, !.trials = T, !.working = W, !.stages = S])
                 \/ Enter(r, "direct", [c EXCEPT !.ctl = rec, !.trials = T, !.working = W, !.stages = S])
        BY <1>16, Zenon DEF StopBegin
    <2>2. PICK x, y : x = [c EXCEPT !.ctl = rec] /\ y = [x EXCEPT !.trials = T]
        OBVIOUS
    <2>3. PICK z, v : z = [y EXCEPT !.working = W] /\ v = [z EXCEPT !.stages = S]
        OBVIOUS
    <2>4. DOMAIN c = DOMAIN NoWrite
        BY <2>1, Commands
    <2>5. x.ctl = rec
        BY <2>2, <2>4, WriteFields
    <2>6. y.ctl = rec
        BY <2>2, <2>5
    <2>7. v.ctl = rec
        BY <2>3, <2>6
    <2>8. Enter(r, "publish", v) \/ Enter(r, "direct", v)
        BY <2>1, <2>2, <2>3, Zenon
    <2>9. rec.state # "active"
        BY <2>1 DEF StopRecord
    <2>10. UNCHANGED store
        BY <1>16, Zenon DEF StopBegin
    <2> QED BY <1>7, <2>7, <2>8, <2>9, <2>10 DEF Stopping
<1>17. ASSUME NEW o \in Orders, RestoreBegin(r, o) PROVE Comes(r)
    <2>1. PICK c, S, d :
              /\ c = Command("restore", NoApparatus, o, NoHold)
              /\ S = {a \in Apparatuses : session[a][o] = "frozen" \/ queue[a][o] = "frozen"}
              /\ Enter(r, "restore", [c EXCEPT !.stages = S, !.ctl = d])
        BY <1>17, Zenon DEF RestoreBegin
    <2>2. PICK x, v : x = [c EXCEPT !.stages = S] /\ v = [x EXCEPT !.ctl = d]
        OBVIOUS
    <2>3. c.o = o /\ DOMAIN c = DOMAIN NoWrite
        BY <2>1, Commands
    <2>4. x.o = o /\ x.stages = S
        BY <2>2, <2>3, WriteFields
    <2>5. v.o = o /\ v.stages = S
        BY <2>2, <2>4
    <2>6. Enter(r, "restore", v)
        BY <2>1, <2>2, Zenon
    <2>7. UNCHANGED store /\ UNCHANGED <<queue, control>> /\ control[o].close = "no"
        BY <1>17, Zenon DEF RestoreBegin, store
    <2>8. \A a \in Apparatuses : queue[a][o] = "frozen" => a \in S
        BY <2>1
    <2>9. Finds("restore", v, queue', control')
        BY <2>5, <2>7, <2>8 DEF Finds, Stopping
    <2> QED BY <1>4, <2>6, <2>7, <2>9
<1>18. CASE StopPublish(r)
    <2>1. pc[r] = "publish" /\ (Leave(r) \/ Enter(r, "trials", w))
        BY <1>1, <1>18, Zenon DEF StopPublish
    <2>2. Holding(r) /\ w.ctl.state # "active"
        BY <1>2, <2>1 DEF Holding, Finds, Stopping
    <2> QED BY <1>5, <1>7, <2>1, <2>2 DEF Stopping
<1>19. ASSUME NEW h, StopTrial(r, h) PROVE Comes(r)
    <2>1. PICK T, x : /\ pc[r] = "trials" /\ x = [w EXCEPT !.trials = T]
                      /\ Leave(r) \/ Enter(r, "trials", x)
        BY <1>1, <1>19, Zenon DEF StopTrial
    <2>2. x.ctl = w.ctl
        BY <1>2, <2>1, WriteKeeps
    <2>3. Holding(r) /\ w.ctl.state # "active"
        BY <1>2, <2>1 DEF Holding, Finds, Stopping
    <2> QED BY <1>5, <1>7, <2>1, <2>2, <2>3 DEF Stopping
<1>20. CASE StopTrialsDone(r)
    <2>1. pc[r] = "trials" /\ (Leave(r) \/ Enter(r, "stages", w))
        BY <1>1, <1>20 DEF StopTrialsDone
    <2>2. Holding(r) /\ w.ctl.state # "active"
        BY <1>2, <2>1 DEF Holding, Finds, Stopping
    <2> QED BY <1>5, <1>7, <2>1, <2>2 DEF Stopping
<1>21. ASSUME NEW a, StopStage(r, a) PROVE Comes(r)
    <2>1. PICK T, x : /\ pc[r] = "stages" /\ x = [w EXCEPT !.stages = T]
                      /\ Leave(r) \/ Enter(r, "stages", x)
        BY <1>1, <1>21, Zenon DEF StopStage
    <2>2. x.ctl = w.ctl
        BY <1>2, <2>1, WriteKeeps
    <2>3. Holding(r) /\ w.ctl.state # "active"
        BY <1>2, <2>1 DEF Holding, Finds, Stopping
    <2> QED BY <1>5, <1>7, <2>1, <2>2, <2>3 DEF Stopping
<1>22. ASSUME NEW a \in Apparatuses, RestoreOne(r, a) PROVE Comes(r)
    <2>1. pc[r] = "restore" /\ w.o \in Orders /\ Holding(r)
        BY <1>1, <1>2, <1>22 DEF RestoreOne, Bound, Holding
    <2>2. PICK x : x = [w EXCEPT !.stages = w.stages \ {a}]
        OBVIOUS
    <2>3. \/ Leave(r)
          \/ /\ Enter(r, "restore", x)
             /\ QueueTx(a, w.o, "pending", ReleasedSession(session[a][w.o]), hold,
                        control[w.o], RestoredSequence(seq, w.o))
        BY <1>1, <1>22, <2>2, Zenon DEF RestoreOne
    <2>4. x.o = w.o /\ x.stages = w.stages \ {a}
        BY <1>2, <2>2, WriteKeeps
    <2>5. ASSUME QueueTx(a, w.o, "pending", ReleasedSession(session[a][w.o]), hold,
                         control[w.o], RestoredSequence(seq, w.o))
          PROVE  Finds("restore", x, queue', control')
        <3>1. Moved(a, w.o, "pending", ReleasedSession(session[a][w.o]), hold, control[w.o])
            BY <2>5, QueueTxEffect
        <3>2. control'[w.o] = Finalized(w.o, control[w.o], queue', session', hold')
            BY <2>1, <3>1 DEF Moved, Inv, Tables
        <3>3. control'[w.o].close = "no"
            BY <1>2, <1>3, <2>1, <3>2, SettledOpen DEF Finds
        <3>4. ASSUME NEW b \in Apparatuses, queue'[b][w.o] = "frozen" PROVE b \in x.stages
            <4>1. queue'[b][w.o] = IF b = a THEN "pending" ELSE queue[b][w.o]
                BY <2>1, <3>1, MovedRows
            <4>2. b # a /\ queue[b][w.o] = "frozen"
                BY <3>4, <4>1
            <4> QED BY <1>2, <2>1, <2>4, <4>2 DEF Finds
        <3> QED BY <2>4, <3>3, <3>4 DEF Finds, Stopping
    <2> QED BY <1>4, <1>5, <2>1, <2>3, <2>5
<1>23. CASE Withdraw(r)
    BY <1>5, <1>23 DEF Withdraw
<1>24. CASE \/ Commit(r) \/ CommitBegin(r) \/ CommitDecision(r)
            \/ StopDirect(r) \/ StopSettle(r) \/ RestoreDone(r)
    <2>1. Leave(r) /\ pc[r] \in {"prepared", "direct", "stages", "restore"}
        BY <1>24, Zenon DEF Commit, CommitBegin, CommitDecision, StopDirect, StopSettle, RestoreDone
    <2> QED BY <1>5, <2>1 DEF Holding
<1>25. CASE Crash(r)
    BY <1>5, <1>25 DEF Crash
<1>26. CASE \/ \E o \in Orders : UpgradeToClose(r, o)
            \/ \E a \in Apparatuses, o \in Orders : \E wish : MoveSequence(r, a, o, wish)
    <2>1. UNCHANGED <<pc, write>> /\ pc[r] = "idle" /\ OthersOf(r) = {}
        BY <1>26, Zenon DEF UpgradeToClose, MoveSequence, ExclusiveGuard
    <2> QED BY <2>1 DEF Comes
<1> QED
    BY <1>8, <1>9, <1>10, <1>11, <1>12, <1>13, <1>14, <1>15, <1>16, <1>17, <1>18, <1>19,
       <1>20, <1>21, <1>22, <1>23, <1>24, <1>25, <1>26

\* With one server process, every step preserves Orderly.
LEMMA NextOrderly == ASSUME OneProcess, Inv, Safe, Alike, Orderly, Next PROVE Orderly'
<1>1. PICK r \in Requests : Comes(r)
    BY Comings
<1>2. /\ pc \in [Requests -> Places] /\ write \in [Requests -> WriteRecord]
      /\ control \in [Orders -> ControlRecord]
    BY DEF Safe, TypeOK, Places
<1> SUFFICES ASSUME NEW q \in Requests PROVE Finds(pc'[q], write'[q], queue', control')
    BY NextRecorded DEF Orderly
<1>3. Finds(pc[q], write[q], queue, control) /\ Bound(pc[q], write[q])
    BY DEF Orderly, Safe, Bounds
<1>4. ASSUME pc'[q] = pc[q], write'[q] = write[q], q # r \/ pc[q] = "idle"
      PROVE  Finds(pc'[q], write'[q], queue', control')
    <2>1. Stopping(pc[q], write[q]) => write[q].ctl.state # "active"
        BY <1>3 DEF Finds
    <2>2. ASSUME pc[q] = "prepared", write[q].act = "decide"
          PROVE  control'[write[q].o].state = "active"
        <3>1. control[write[q].o].state = "active" /\ write[q].o \in Orders
            BY <1>3, <2>2 DEF Finds, Bound
        <3>2. ASSUME NEW s \in Requests, Holding(s), Alone(write[s].act) PROVE FALSE
            BY <2>2, <3>2 DEF Alike, Guarded, Holding, Alone
        <3> QED BY <3>1, <3>2, WhoStops
    <2>3. ASSUME pc[q] = "restore" PROVE UNCHANGED <<queue, control>>
        <3>1. Holding(q) /\ Alone(write[q].act) /\ q # r
            BY <1>3, <1>4, <2>3 DEF Holding, Bound
        <3>2. ~ Holding(r)
            BY <3>1 DEF Alike, Guarded
        <3>3. q \in OthersOf(r)
            BY <3>1 DEF OneProcess, OthersOf
        <3> QED BY <1>1, <3>2, <3>3 DEF Comes
    <2> QED BY <1>3, <1>4, <2>1, <2>2, <2>3 DEF Finds
<1>5. CASE UNCHANGED <<pc, write>> /\ pc[r] = "idle"
    BY <1>4, <1>5
<1>6. ASSUME NEW at, NEW w, Enter(r, at, w), Finds(at, w, queue', control')
      PROVE  Finds(pc'[q], write'[q], queue', control')
    <2>1. /\ pc'[r] = at /\ write'[r] = w
          /\ q # r => pc'[q] = pc[q] /\ write'[q] = write[q]
        BY <1>2, <1>6 DEF Enter
    <2> QED BY <1>4, <1>6, <2>1
<1> QED BY <1>1, <1>5, <1>6 DEF Comes

\* Only a release makes a frozen row pending: work and decisions are of orders
\* nobody has stopped.
LEMMA OnlyReleases ==
    ASSUME Inv, Safe, Orderly, Next, NEW a \in Apparatuses, NEW o \in Orders,
           queue[a][o] = "frozen", queue'[a][o] = "pending"
    PROVE  \E r \in Requests, b \in Apparatuses :
              /\ pc[r] = "restore" /\ write[r].o = o
              /\ QueueTx(b, o, "pending", ReleasedSession(session[b][o]), hold,
                         control[o], RestoredSequence(seq, o))
<1> DEFINE Goal == \E r \in Requests, b \in Apparatuses :
                      /\ pc[r] = "restore" /\ write[r].o = o
                      /\ QueueTx(b, o, "pending", ReleasedSession(session[b][o]), hold,
                                 control[o], RestoredSequence(seq, o))
<1> SUFFICES Goal
    OBVIOUS
<1> PICK r \in Requests : Next!(r)
    BY DEF Next
<1>1. PICK w : w = write[r]
    OBVIOUS
<1>2. Bound(pc[r], w) /\ Finds(pc[r], w, queue, control)
    BY <1>1 DEF Safe, Bounds, Orderly
<1>3. control[o].state # "active"
    BY DEF Orderly, StopsRecorded
<1>4. CASE UNCHANGED queue
    BY <1>4
<1>5. CASE UNCHANGED store
    BY <1>5 DEF store
<1>6. ASSUME NEW b, NEW p, NEW to, NEW sess, NEW hd, NEW c, NEW sq, QueueTx(b, p, to, sess, hd, c, sq)
      PROVE  b = a /\ p = o /\ to = "pending"
    <2>1. Moved(b, p, to, sess, hd, c)
        BY <1>6, QueueTxEffect
    <2> QED BY <2>1, MovedRows
<1>7. ASSUME NEW b, NEW p, NEW sess, NEW hd, NEW c, FreezeTx(b, p, sess, hd, c) PROVE FALSE
    <2>1. QueueTx(b, p, "frozen", sess, hd, c, WithoutOrder(seq, p))
        BY <1>7 DEF FreezeTx
    <2> QED BY <1>6, <2>1
<1>8. ASSUME NEW p, NEW c, PutControl(p, c) PROVE Goal
    BY <1>4, <1>8 DEF PutControl
<1> HIDE DEF Goal
<1>9. CASE Commit(r)
    <2>1. \/ UNCHANGED store
          \/ FreezeTx(w.a, w.o, SessionAfter(w), HoldsAfter(w), w.ctl)
          \/ /\ ControlsAllow(w) /\ w.act # "freeze"
             /\ QueueTx(w.a, w.o, w.to, SessionAfter(w), HoldsAfter(w), control[w.o], seq)
        BY <1>1, <1>9, Zenon DEF Commit, CommitAllowed
    <2>2. ASSUME ControlsAllow(w), w.act # "freeze",
                 QueueTx(w.a, w.o, w.to, SessionAfter(w), HoldsAfter(w), control[w.o], seq)
          PROVE  FALSE
        <3>1. w.o = o
            BY <1>6, <2>2
        <3>2. control[w.o].state = "active"
            BY <2>2 DEF ControlsAllow
        <3> QED BY <1>3, <3>1, <3>2
    <2> QED BY <1>5, <1>7, <2>1, <2>2
<1>10. CASE CommitBegin(r)
    <2>1. UNCHANGED store \/ queue' = [queue EXCEPT ![w.a][w.o] = "print_preflight"]
        BY <1>1, <1>10, Zenon DEF CommitBegin
    <2>2. CASE queue' = [queue EXCEPT ![w.a][w.o] = "print_preflight"]
        <3>1. queue'[a][o] = IF a = w.a /\ o = w.o THEN "print_preflight" ELSE queue[a][o]
            BY <2>2, Row DEF Inv, Tables
        <3> QED BY <3>1
    <2> QED BY <1>5, <2>1, <2>2
<1>11. CASE CommitDecision(r)
    <2>1. PICK v : UNCHANGED store \/ queue' = [queue EXCEPT ![w.a][w.o] = v]
        BY <1>1, <1>11, Zenon DEF CommitDecision
    <2>2. CASE queue' = [queue EXCEPT ![w.a][w.o] = v]
        <3>1. queue'[a][o] = IF a = w.a /\ o = w.o THEN v ELSE queue[a][o]
            BY <2>2, Row DEF Inv, Tables
        <3>2. o = w.o
            BY <3>1
        <3>3. control[w.o].state = "active"
            BY <1>1, <1>2, <1>11 DEF CommitDecision, Finds
        <3> QED BY <1>3, <3>2, <3>3
    <2> QED BY <1>5, <2>1, <2>2
<1>12. CASE StopDirect(r)
    <2>1. \/ UNCHANGED store \/ PutControl(w.o, w.ctl)
          \/ \E b, sess, hd : FreezeTx(b, w.o, sess, hd, w.ctl)
        BY <1>1, <1>12, Zenon DEF StopDirect
    <2> QED BY <1>5, <1>7, <1>8, <2>1
<1>13. CASE StopPublish(r) \/ RestoreDone(r) \/ StopSettle(r)
    <2>1. UNCHANGED store \/ \E c : PutControl(w.o, c)
        BY <1>1, <1>13, Zenon DEF StopPublish, RestoreDone, StopSettle
    <2> QED BY <1>5, <1>8, <2>1
<1>14. ASSUME NEW h \in HoldIds, StopTrial(r, h) PROVE Goal
    <2>1. UNCHANGED store \/ \E b, sess, hd : FreezeTx(b, w.o, sess, hd, w.ctl)
        BY <1>1, <1>14, Zenon DEF StopTrial
    <2> QED BY <1>5, <1>7, <2>1
<1>15. ASSUME NEW b \in Apparatuses, StopStage(r, b) PROVE Goal
    <2>1. UNCHANGED store \/ FreezeTx(b, w.o, "frozen", hold, w.ctl)
        BY <1>1, <1>15, Zenon DEF StopStage
    <2> QED BY <1>5, <1>7, <2>1
<1>16. ASSUME NEW b \in Apparatuses, RestoreOne(r, b) PROVE Goal
    <2>1. \/ UNCHANGED store
          \/ QueueTx(b, w.o, "pending", ReleasedSession(session[b][w.o]), hold,
                     control[w.o], RestoredSequence(seq, w.o))
        BY <1>1, <1>16, Zenon DEF RestoreOne
    <2>2. pc[r] = "restore"
        BY <1>16 DEF RestoreOne
    <2>3. ASSUME QueueTx(b, w.o, "pending", ReleasedSession(session[b][w.o]), hold,
                         control[w.o], RestoredSequence(seq, w.o))
          PROVE  Goal
        <3>1. w.o = o
            BY <1>6, <2>3
        <3> QED BY <1>1, <2>2, <2>3, <3>1, Zenon DEF Goal
    <2> QED BY <1>5, <2>1, <2>3
<1>17. ASSUME NEW p \in Orders, UpgradeToClose(r, p) PROVE Goal
    <2>1. \E c : PutControl(p, c)
        BY <1>17, Zenon DEF UpgradeToClose
    <2> QED BY <1>8, <2>1
<1>18. CASE \E b \in Apparatuses, p \in Orders : \E wish : MoveSequence(r, b, p, wish)
    BY <1>4, <1>18 DEF MoveSequence
<1> QED
    BY <1>5, <1>9, <1>10, <1>11, <1>12, <1>13, <1>14, <1>15, <1>16, <1>17, <1>18, ZenonT(60)
       DEF AskStart, PrepareFreeze, PrepareBegin, PrepareResume, PrepareReport, AskDecision,
           StopBegin, RestoreBegin, Withdraw, PrepareStart, PrepareDecision, StopTrialsDone, Crash

\* When one process serves every request, a frozen row always belongs to an
\* order whose stop is recorded, and a release or a decision under way finds
\* what it has read (restore_one_frozen_queue, transition_order_control).
LEMMA OrderlyAlways == OneProcess => (Spec => []Orderly)
<1> SUFFICES ASSUME OneProcess PROVE Spec => []Orderly
    OBVIOUS
<1>1. Init => Alike /\ Orderly
    <2> SUFFICES ASSUME Init PROVE Alike /\ Orderly
        OBVIOUS
    <2>1. \A r \in Requests : pc[r] = "idle"
        BY DEF Init
    <2>2. \A a \in Apparatuses, o \in Orders : queue[a][o] = "none"
        BY DEF Init, NoQueue
    <2> QED BY <2>1, <2>2 DEF Alike, Guarded, BeginsActive, Holding, Orderly, StopsRecorded, Finds, Stopping
<1>2. Inv /\ Safe /\ Alike /\ Orderly /\ [Next]_vars => (Alike /\ Orderly)'
    <2> SUFFICES ASSUME Inv, Safe, Alike, Orderly, [Next]_vars PROVE Alike' /\ Orderly'
        OBVIOUS
    <2>1. CASE Next
        BY <2>1, NextAlike, NextOrderly
    <2>2. CASE UNCHANGED vars
        BY <2>2 DEF vars, store, Alike, Guarded, BeginsActive, Holding, Orderly, StopsRecorded, Finds
    <2> QED BY <2>1, <2>2
<1> QED BY <1>1, <1>2, Inductive, SafeAlways, PTL DEF Spec

\* When one process serves every request, released work goes behind every
\* order already waiting, on every apparatus and through stops cut short
\* (restore_one_frozen_queue): nobody closes the order in between, and no late
\* decision on a trial makes its row pending in another way.
THEOREM ReleasedLast == OneProcess => (Spec => ReleasedGoToTheTail)
<1> SUFFICES ASSUME OneProcess PROVE Spec => ReleasedGoToTheTail
    OBVIOUS
<1>1. Spec => []Orderly
    BY OrderlyAlways
<1>2. Inv /\ Safe /\ Orderly /\ [Next]_vars =>
          [\A a \in Apparatuses, o \in Orders :
              queue[a][o] = "frozen" /\ queue'[a][o] = "pending" =>
                  \A b \in Apparatuses : seq'[b] # <<>> /\ Last(seq'[b]) = o]_vars
    <2> SUFFICES ASSUME Inv, Safe, Orderly, Next, NEW a \in Apparatuses, NEW o \in Orders,
                        queue[a][o] = "frozen", queue'[a][o] = "pending", NEW b \in Apparatuses
                 PROVE  seq'[b] # <<>> /\ Last(seq'[b]) = o
        OBVIOUS
    <2>1. PICK r \in Requests, m \in Apparatuses :
              /\ pc[r] = "restore" /\ write[r].o = o
              /\ QueueTx(m, o, "pending", ReleasedSession(session[m][o]), hold,
                         control[o], RestoredSequence(seq, o))
        BY OnlyReleases
    <2>2. PICK f, q, s : f = Finalized(o, control[o], q, s, hold)
                         /\ seq' = IF f.close = "closed" THEN WithoutOrder(AtTail(seq, o), o)
                                                         ELSE AtTail(seq, o)
        BY <2>1, Zenon DEF QueueTx, RestoredSequence
    <2>3. f.close = "no"
        <3>1. control[o].close = "no" /\ control[o] \in ControlRecord
            BY <2>1 DEF Orderly, Finds, Safe, TypeOK
        <3> QED BY <2>2, <3>1, SettledOpen
    <2>4. PICK t : t = Without(seq[b], o) /\ t \in Seq(Orders)
        <3>1. seq[b] \in Seq(Orders)
            BY DEF Safe, TypeOK
        <3> QED BY <3>1, WithoutProperties
    <2>5. seq'[b] = Append(t, o)
        BY <2>2, <2>3, <2>4 DEF AtTail
    <2>6. PICK u, n : u = Append(t, o) /\ n = Len(u)
        OBVIOUS
    <2>7. u # <<>> /\ u[n] = o
        BY <2>4, <2>6, AppendProperties
    <2> QED BY <2>5, <2>6, <2>7 DEF Last
<1> QED BY <1>1, <1>2, Inductive, SafeAlways, PTL DEF Spec, ReleasedGoToTheTail

\* With one server process, whoever stops or releases an order is alone under its
\* guard, and a trial about to begin is of an order nobody stops.
LEMMA AlikeAlways == OneProcess => (Spec => []Alike)
<1> SUFFICES ASSUME OneProcess PROVE Spec => []Alike
    OBVIOUS
<1>1. Init => Alike
    BY DEF Init, Alike, Guarded, BeginsActive, Holding
<1>2. Inv /\ Safe /\ Alike /\ [Next]_vars => Alike'
    <2> SUFFICES ASSUME Inv, Safe, Alike, [Next]_vars PROVE Alike'
        OBVIOUS
    <2>1. CASE UNCHANGED vars
        BY <2>1 DEF vars, store, Alike, Guarded, BeginsActive, Holding
    <2> QED BY <2>1, NextAlike
<1> QED BY <1>1, <1>2, Inductive, SafeAlways, PTL DEF Spec

\* Rows, sessions and trials change by a request that holds the guard and goes on.
Handles(r) ==
    \/ UNCHANGED <<queue, session, hold>>
    \/ Holding(r) /\ ~ (pc'[r] = pc[r] /\ write'[r] = write[r])

\* Every step is one of these.
LEMMA Holders == ASSUME Inv, Safe, Next PROVE \E r \in Requests : Handles(r)
<1> PICK r \in Requests : Next!(r)
    BY DEF Next
<1> SUFFICES Handles(r)
    OBVIOUS
<1>0. DOMAIN pc = Requests /\ DOMAIN write = Requests
    BY DEF Inv, Tables
<1>1. ASSUME NEW at, NEW w, Enter(r, at, w), Holding(r), at # pc[r] \/ w # write[r] PROVE Handles(r)
    BY <1>0, <1>1 DEF Handles, Enter
<1>2. ASSUME Leave(r), Holding(r) PROVE Handles(r)
    BY <1>1, <1>2 DEF Leave, Holding
<1>3. CASE UNCHANGED <<queue, session, hold>>
    BY <1>3 DEF Handles
<1>4. ASSUME NEW o, NEW c, PutControl(o, c) PROVE UNCHANGED <<queue, session, hold>>
    BY <1>4 DEF PutControl
<1>5. CASE \/ Commit(r) \/ CommitBegin(r) \/ CommitDecision(r)
           \/ StopDirect(r) \/ StopSettle(r) \/ RestoreDone(r)
    <2>1. Leave(r) /\ pc[r] \in {"prepared", "direct", "stages", "restore"}
        BY <1>5, Zenon DEF Commit, CommitBegin, CommitDecision, StopDirect, StopSettle, RestoreDone
    <2> QED BY <1>2, <2>1 DEF Holding
<1>6. CASE StopPublish(r)
    <2>1. UNCHANGED store \/ PutControl(write[r].o, write[r].ctl)
        BY <1>6, Zenon DEF StopPublish
    <2> QED BY <1>3, <1>4, <2>1 DEF store
<1>7. ASSUME NEW h \in HoldIds, StopTrial(r, h) PROVE Handles(r)
    <2>1. CASE Leave(r)
        BY <1>2, <1>7, <2>1 DEF StopTrial, Holding
    <2>2. CASE ~ Leave(r)
        <3>1. PICK x, w : x = write[r].trials \ {h} /\ w = [write[r] EXCEPT !.trials = x]
            OBVIOUS
        <3>2. pc[r] = "trials" /\ h \in write[r].trials /\ Enter(r, "trials", w)
            BY <1>7, <2>2, <3>1, Zenon DEF StopTrial
        <3>3. write[r] \in WriteRecord
            BY DEF Safe, Bounds, Bound
        <3>4. w.trials = x
            BY <3>1, <3>3 DEF WriteRecord
        <3>5. w # write[r]
            BY <3>1, <3>2, <3>4
        <3> QED BY <1>1, <3>2, <3>5 DEF Holding
    <2> QED BY <2>1, <2>2
<1>8. ASSUME NEW a \in Apparatuses, StopStage(r, a) \/ RestoreOne(r, a) PROVE Handles(r)
    <2>1. CASE Leave(r)
        BY <1>2, <1>8, <2>1 DEF StopStage, RestoreOne, Holding
    <2>2. CASE ~ Leave(r)
        <3>1. PICK x, w : x = write[r].stages \ {a} /\ w = [write[r] EXCEPT !.stages = x]
            OBVIOUS
        <3>2. pc[r] \in {"stages", "restore"} /\ a \in write[r].stages /\ Enter(r, pc[r], w)
            BY <1>8, <2>2, <3>1, Zenon DEF StopStage, RestoreOne
        <3>3. write[r] \in WriteRecord
            BY DEF Safe, Bounds, Bound
        <3>4. w.stages = x
            BY <3>1, <3>3 DEF WriteRecord
        <3>5. w # write[r]
            BY <3>1, <3>2, <3>4
        <3> QED BY <1>1, <3>2, <3>5 DEF Holding
    <2> QED BY <2>1, <2>2
<1>9. ASSUME NEW o \in Orders, UpgradeToClose(r, o) PROVE Handles(r)
    BY <1>3, <1>9 DEF UpgradeToClose, PutControl
<1>10. CASE \E a \in Apparatuses, o \in Orders : \E wish : MoveSequence(r, a, o, wish)
    BY <1>3, <1>10 DEF MoveSequence
<1>11. CASE UNCHANGED store
    BY <1>3, <1>11 DEF store
<1> QED
    BY <1>5, <1>6, <1>7, <1>8, <1>9, <1>10, <1>11, ZenonT(60)
       DEF AskStart, PrepareFreeze, PrepareBegin, PrepareResume, PrepareReport, AskDecision,
           StopBegin, RestoreBegin, Withdraw, PrepareStart, PrepareDecision, StopTrialsDone,
           Crash

\* While a request stops or releases an order, no other request of its process
\* changes rows, sessions or trials.
LEMMA AloneUndisturbed ==
    ASSUME OneProcess, Inv, Safe, Alike, Next, NEW q \in Requests, Holding(q), Alone(write[q].act),
           pc'[q] = pc[q], write'[q] = write[q]
    PROVE  UNCHANGED <<queue, session, hold>>
<1>1. PICK r \in Requests : Handles(r)
    BY Holders
<1>2. CASE r = q
    BY <1>1, <1>2 DEF Handles
<1>3. CASE r # q
    <2>1. ~ Holding(r)
        BY <1>3 DEF Alike, Guarded
    <2> QED BY <1>1, <2>1 DEF Handles
<1> QED BY <1>2, <1>3

-----------------------------------------------------------------------------
(* Trials and their rows, when nobody comes between check and commit.      *)

\* A machine has at most one live trial.
OneTrial ==
    \A h, k \in HoldIds :
        Live(h) /\ Live(k) /\ hold[h].apparatus = hold[k].apparatus => h = k

\* The row of a live trial says so.
RowsInTrial ==
    \A h \in HoldIds : Live(h) => queue[hold[h].apparatus][hold[h].order] = "print_preflight"

\* Only a start, and a stop that takes the trial down, leave a row in trial.
LeavesTrial(at, w) ==
    at = "prepared" /\ w.from = "print_preflight" =>
        /\ w.act \notin {"resume", "pause", "complete"}
        /\ w.act = "freeze" => w.h # NoHold

\* A start without a trial found none on its machine.
NoTrialThere(at, w, hd) ==
    at \in {"asked", "prepared"} /\ w.act = "start" /\ w.h = NoHold /\ w.a \in Printing =>
        \A h \in HoldIds : hd[h].status \in {"running", "passed"} => hd[h].apparatus # w.a

\* Every request is over before the next begins.
OneRequest == \A r, q \in Requests : r = q

\* Nobody comes between the check of a start and a trial: requests come one at a
\* time, or one process serves them on machines without colour trials.
Serial == OneRequest \/ (OneProcess /\ Printing = {})

\* Trials and rows in step: one trial per machine, its row in trial, and nobody
\* about to part the two.
InStep ==
    /\ OneTrial /\ RowsInTrial
    /\ \A r \in Requests : LeavesTrial(pc[r], write[r]) /\ NoTrialThere(pc[r], write[r], hold)

\* What a request that goes on carries: a check is made on the trials as they
\* are, and nothing else happens in the step.
Presents(r) ==
    \/ UNCHANGED <<pc, write>> /\ pc[r] = "idle"
    \/ \E at, w : /\ Enter(r, at, w) /\ LeavesTrial(at, w)
                  /\ \/ at \notin {"asked", "prepared"}
                     \/ UNCHANGED hold /\ NoTrialThere(at, w, hold)

\* Every step is one of these.
LEMMA Presented == ASSUME Inv, Safe, InStep, Next PROVE \E r \in Requests : Presents(r)
<1> PICK r \in Requests : Next!(r)
    BY DEF Next
<1> SUFFICES Presents(r)
    OBVIOUS
<1>0. ASSUME NEW at, NEW w, Enter(r, at, w), LeavesTrial(at, w),
             at \notin {"asked", "prepared"} \/ (UNCHANGED hold /\ NoTrialThere(at, w, hold))
      PROVE  Presents(r)
    BY <1>0 DEF Presents
<1>1. ASSUME NEW at, NEW w, Enter(r, at, w), at \notin {"asked", "prepared"} PROVE Presents(r)
    BY <1>0, <1>1 DEF LeavesTrial
<1>2. CASE Leave(r)
    BY <1>1, <1>2 DEF Leave
<1>3. write[r] \in WriteRecord /\ Bound(pc[r], write[r])
      /\ LeavesTrial(pc[r], write[r]) /\ NoTrialThere(pc[r], write[r], hold)
    BY DEF InStep, Safe, Bounds, Bound
<1>4. ASSUME NEW a \in Apparatuses, NEW o \in Orders PROVE Parsed(queue[a][o]) \in QueueStates
    BY <1>4 DEF Safe, TypeOK, Parsed, QueueStates
<1>5. ASSUME NEW a \in Apparatuses, NEW o \in Orders, NEW h \in HoldIds \union {NoHold},
             AskStart(r, a, o, h)
      PROVE  Presents(r)
    <2>1. PICK w : w = Command("start", a, o, h)
        OBVIOUS
    <2>2. w.a = a /\ w.h = h
        BY <2>1, Commands
    <2>3. Enter(r, "asked", w) /\ UNCHANGED hold /\ TrialAllowsStart(a, o, h)
        BY <1>5, <2>1 DEF AskStart, store
    <2>4. NoTrialThere("asked", w, hold)
        BY <2>2, <2>3 DEF NoTrialThere, TrialAllowsStart, LiveOn, Live
    <2> QED BY <1>0, <2>3, <2>4 DEF LeavesTrial
<1>6. ASSUME NEW a \in Apparatuses, NEW o \in Orders, NEW h \in HoldIds \union {NoHold},
             PrepareFreeze(r, a, o, h)
      PROVE  Presents(r)
    <2>1. PICK b, d, w : /\ b = [Command("freeze", a, o, h) EXCEPT !.from = queue[a][o]]
                         /\ d = [b EXCEPT !.to = "frozen"]
                         /\ w = [d EXCEPT !.ctl = Acknowledged(a, o)]
        OBVIOUS
    <2>2. w.act = "freeze" /\ w.h = h /\ w.from = queue[a][o]
        BY <2>1, Commands, WriteFields
    <2>3. Enter(r, "prepared", w)
        BY <1>6, <2>1, Zenon DEF PrepareFreeze
    <2>4. UNCHANGED hold /\ (queue[a][o] = "print_preflight" => h \in HoldIds)
        BY <1>6 DEF PrepareFreeze, store
    <2>5. LeavesTrial("prepared", w) /\ NoTrialThere("prepared", w, hold)
        BY <2>2, <2>4, RoutesAssumption DEF LeavesTrial, NoTrialThere
    <2> QED BY <1>0, <2>3, <2>4, <2>5
<1>7. ASSUME NEW a \in Apparatuses, NEW o \in Orders, NEW h \in HoldIds, PrepareBegin(r, a, o, h)
      PROVE  Presents(r)
    <2>1. PICK w : w = [Command("begin", a, o, h) EXCEPT !.from = queue[a][o]]
        OBVIOUS
    <2>2. w.act = "begin"
        BY <2>1, Commands, WriteFields
    <2>3. Enter(r, "prepared", w) /\ UNCHANGED hold
        BY <1>7, <2>1 DEF PrepareBegin, store
    <2> QED BY <1>0, <2>2, <2>3 DEF LeavesTrial, NoTrialThere
<1>8. ASSUME NEW a \in Apparatuses, NEW o \in Orders, NEW act \in {"pause", "complete"},
             NEW to \in Reported(act), PrepareReport(r, act, a, o, to)
      PROVE  Presents(r)
    <2>1. PICK b, w : /\ b = [Command(act, a, o, NoHold) EXCEPT !.from = queue[a][o]]
                      /\ w = [b EXCEPT !.to = to]
        OBVIOUS
    <2>2. w.act = act /\ w.from = queue[a][o]
        BY <2>1, Commands, WriteFields
    <2>3. Enter(r, "prepared", w)
        BY <1>8, <2>1, Zenon DEF PrepareReport
    <2>4. UNCHANGED hold /\ (MayMove(queue[a][o], act) \/ queue[a][o] = "paused")
        BY <1>8 DEF PrepareReport, store, Closing
    <2>5. queue[a][o] # "print_preflight"
        BY <2>4 DEF MayMove, Transitions
    <2> QED BY <1>0, <2>2, <2>3, <2>4, <2>5 DEF LeavesTrial, NoTrialThere
<1>9. ASSUME NEW v \in WriteRecord
      PROVE  LET w == Witnessed(v)
             IN  w.act = v.act /\ w.a = v.a /\ w.h = v.h /\ w.from = Parsed(queue[v.a][v.o])
    <2>1. PICK b, c, d, w : /\ b = [v EXCEPT !.from = Parsed(queue[v.a][v.o])]
                            /\ c = [b EXCEPT !.to = "in_progress"]
                            /\ d = [c EXCEPT !.seen = queue[v.a]]
                            /\ w = [d EXCEPT !.line = seq[v.a]]
        OBVIOUS
    <2>2. w = Witnessed(v)
        BY <2>1, Zenon DEF Witnessed
    <2>3. DOMAIN v = DOMAIN NoWrite
        BY <1>9 DEF WriteRecord, NoWrite
    <2>4. w.act = v.act /\ w.a = v.a /\ w.h = v.h /\ w.from = Parsed(queue[v.a][v.o])
        BY <2>1, <2>3, WriteFields
    <2> QED BY <2>2, <2>4
<1>10. ASSUME NEW a \in Apparatuses, NEW o \in Orders, PrepareResume(r, a, o) PROVE Presents(r)
    <2>1. PICK v, w : v = Command("resume", a, o, NoHold) /\ w = Witnessed(v)
        OBVIOUS
    <2>2. v \in WriteRecord /\ v.act = "resume" /\ v.o = o /\ v.a = a
        BY <2>1, CommandType, Commands DEF Acts
    <2>3. w.act = "resume" /\ w.from = Parsed(queue[a][o])
        BY <1>9, <2>1, <2>2
    <2>4. /\ Enter(r, "prepared", w) /\ UNCHANGED hold
          /\ Parsed(queue[a][o]) = "pending" \/ MayMove(Parsed(queue[a][o]), "resume")
        BY <1>10, <2>1 DEF PrepareResume, store
    <2>5. Parsed(queue[a][o]) # "print_preflight"
        BY <2>4 DEF MayMove, Transitions
    <2> QED BY <1>0, <2>3, <2>4, <2>5 DEF LeavesTrial, NoTrialThere
<1>11. CASE PrepareStart(r)
    <2>1. PICK v, w : v = write[r] /\ w = Witnessed(v)
        OBVIOUS
    <2>2. v \in WriteRecord /\ pc[r] = "asked" /\ v.act = "start" /\ NoTrialThere("asked", v, hold)
        BY <1>3, <1>11, <2>1 DEF PrepareStart
    <2>3. w.act = "start" /\ w.a = v.a /\ w.h = v.h
        BY <1>9, <2>1, <2>2
    <2>4. Enter(r, "prepared", w) /\ UNCHANGED hold
        BY <1>11, <2>1 DEF PrepareStart, store
    <2>5. LeavesTrial("prepared", w) /\ NoTrialThere("prepared", w, hold)
        BY <2>2, <2>3 DEF LeavesTrial, NoTrialThere
    <2> QED BY <1>0, <2>4, <2>5
<1>12. ASSUME NEW h \in HoldIds, NEW to \in HoldStates, AskDecision(r, h, to) PROVE Presents(r)
    <2>1. PICK a, o, b, w : /\ a = hold[h].apparatus /\ o = hold[h].order
                            /\ b = [Command("decide", a, o, h) EXCEPT !.to = to]
                            /\ w = [b EXCEPT !.rev = hold[h].revision]
        OBVIOUS
    <2>2. w.act = "decide"
        BY <2>1, Commands, WriteFields
    <2>3. Enter(r, "asked", w)
        BY <1>12, <2>1, Zenon DEF AskDecision
    <2>4. UNCHANGED hold
        BY <1>12 DEF AskDecision, store
    <2> QED BY <1>0, <2>2, <2>3, <2>4 DEF LeavesTrial, NoTrialThere
<1>13. CASE PrepareDecision(r)
    <2>1. PICK w : w = write[r]
        OBVIOUS
    <2>2. w.act = "decide" /\ Enter(r, "prepared", w) /\ UNCHANGED hold
        BY <1>13, <2>1 DEF PrepareDecision, store
    <2> QED BY <1>0, <2>2 DEF LeavesTrial, NoTrialThere
<1>14. CASE \/ \E o \in Orders, asking \in BOOLEAN : StopBegin(r, o, asking)
            \/ \E o \in Orders : RestoreBegin(r, o)
            \/ StopPublish(r) \/ \E h \in HoldIds : StopTrial(r, h)
            \/ StopTrialsDone(r) \/ \E a \in Apparatuses : StopStage(r, a) \/ RestoreOne(r, a)
    <2>1. \E at \in {"direct", "publish", "trials", "stages", "restore", "idle"} :
             \E w : Enter(r, at, w)
        BY <1>14, Zenon DEF StopBegin, RestoreBegin, StopPublish, StopTrial, StopTrialsDone,
                            StopStage, RestoreOne, Leave
    <2> QED BY <1>1, <2>1
<1>15. CASE \/ Withdraw(r) \/ Commit(r) \/ CommitBegin(r) \/ CommitDecision(r)
            \/ StopDirect(r) \/ StopSettle(r) \/ RestoreDone(r) \/ Crash(r)
    <2>1. Leave(r)
        BY <1>15, Zenon DEF Withdraw, Commit, CommitBegin, CommitDecision, StopDirect, StopSettle,
                            RestoreDone, Crash
    <2> QED BY <1>2, <2>1
<1>16. CASE \/ \E o \in Orders : UpgradeToClose(r, o)
            \/ \E a \in Apparatuses, o \in Orders : \E wish : MoveSequence(r, a, o, wish)
    BY <1>16 DEF UpgradeToClose, MoveSequence, Presents
<1> QED
    BY <1>5, <1>6, <1>7, <1>8, <1>10, <1>11, <1>12, <1>13, <1>14, <1>15, <1>16

\* A row in trial is left together with its trial, or by a start that found no
\* trial on its machine.
RowLeaves ==
    \A b \in Apparatuses, p \in Orders :
        queue[b][p] = "print_preflight" /\ queue'[b][p] # "print_preflight" =>
            \/ \E h \in HoldIds :
                  /\ Live(h) /\ hold[h].order = p /\ hold[h].apparatus = b
                  /\ hold'[h].status \notin {"running", "passed"}
            \/ \A h \in HoldIds : Live(h) => hold[h].apparatus # b

\* A transaction that writes one row.
LEMMA TxLeaves ==
    ASSUME Inv, NEW a, NEW o, NEW to, NEW sess, NEW h, NEW status, NEW c, NEW sq,
           QueueTx(a, o, to, sess, HoldAfter(h, status), c, sq),
           status \in {"consumed", "cancelled"},
           \/ queue[a][o] # "print_preflight"
           \/ h \in HoldIds /\ Live(h) /\ hold[h].order = o /\ hold[h].apparatus = a
           \/ \A k \in HoldIds : Live(k) => hold[k].apparatus # a
    PROVE  RowLeaves
<1>1. queue' = [queue EXCEPT ![a][o] = to] /\ hold' = HoldAfter(h, status)
    BY Zenon DEF QueueTx
<1>2. \A b \in Apparatuses, p \in Orders : ~ (b = a /\ p = o) => queue'[b][p] = queue[b][p]
    BY <1>1, Row DEF Inv, Tables
<1>3. h \in HoldIds => hold'[h].status = status
    BY <1>1, HoldStep, RoutesAssumption DEF TrialStep, Inv
<1> QED BY <1>2, <1>3 DEF RowLeaves

\* Every step leaves rows in trial the way RowLeaves says.
LEMMA RowsLeave == ASSUME Inv, Safe, InStep, Next PROVE RowLeaves
<1> PICK r \in Requests : Next!(r)
    BY DEF Next
<1>1. ASSUME UNCHANGED queue PROVE RowLeaves
    BY <1>1 DEF RowLeaves
<1>2. ASSUME UNCHANGED store PROVE RowLeaves
    BY <1>1, <1>2 DEF store
<1>3. PICK w : w = write[r]
    OBVIOUS
<1>4. /\ Bound(pc[r], w) /\ About(pc[r], w, hold) /\ w \in WriteRecord
      /\ LeavesTrial(pc[r], w) /\ NoTrialThere(pc[r], w, hold)
    BY <1>3 DEF InStep, Safe, Bounds, Bound
<1>5. w.h \in HoldIds \union {NoHold} /\ w.trials \subseteq HoldIds /\ NoHold \notin HoldIds
    BY <1>4, RoutesAssumption DEF WriteRecord
<1>6. ASSUME NEW a, NEW sess, NEW h, NEW c,
             FreezeTx(a, w.o, sess, HoldAfter(h, "cancelled"), c),
             \/ queue[a][w.o] # "print_preflight"
             \/ h \in HoldIds /\ Live(h) /\ hold[h].order = w.o /\ hold[h].apparatus = a
      PROVE  RowLeaves
    BY <1>6, TxLeaves DEF FreezeTx
<1>7. CASE Commit(r)
    <2>1. CASE UNCHANGED store
        BY <1>2, <2>1
    <2>2. CASE ~ UNCHANGED store
        <3>1. CommitAllowed(w) /\ CarriesPrepared(w) /\ w.act \in QueueActs /\ pc[r] = "prepared"
            BY <1>3, <1>7, <2>2 DEF Commit, Inv, Carried
        <3>2. w.h # NoHold => w.h \in HoldIds /\ Live(w.h) /\ hold[w.h].order = w.o /\ hold[w.h].apparatus = w.a
            BY <1>5, <3>1 DEF CommitAllowed, HoldUsable, Live
        <3>3. queue[w.a][w.o] = "print_preflight" => w.from = "print_preflight"
            BY <3>1 DEF CommitAllowed, WitnessHolds, Parsed
        <3>4. CASE w.act = "freeze"
            <4>1. FreezeTx(w.a, w.o, SessionAfter(w), HoldAfter(w.h, "cancelled"), w.ctl)
                BY <1>3, <1>7, <3>1, <3>4 DEF Commit, HoldsAfter
            <4>2. queue[w.a][w.o] # "print_preflight" \/ w.h # NoHold
                BY <1>4, <3>1, <3>3, <3>4 DEF LeavesTrial
            <4> QED BY <1>6, <3>2, <4>1, <4>2
        <3>5. CASE w.act # "freeze"
            <4>1. \E status \in {"consumed", "cancelled"} :
                      QueueTx(w.a, w.o, w.to, SessionAfter(w), HoldAfter(w.h, status), control[w.o], seq)
                BY <1>3, <1>7, <3>1, <3>5, Zenon DEF Commit, HoldsAfter
            <4>2. CASE w.act # "start"
                <5>1. queue[w.a][w.o] # "print_preflight"
                    BY <1>4, <3>1, <3>3, <3>5, <4>2 DEF LeavesTrial, QueueActs
                <5> QED BY <4>1, <5>1, TxLeaves
            <4>3. CASE w.act = "start" /\ w.h # NoHold
                BY <3>2, <4>1, <4>3, TxLeaves
            <4>4. CASE w.act = "start" /\ w.h = NoHold
                <5>1. \A k \in HoldIds : Live(k) => hold[k].apparatus # w.a
                    <6>1. CASE w.a \in Printing
                        BY <1>4, <3>1, <4>4, <6>1 DEF NoTrialThere, Live
                    <6>2. CASE w.a \notin Printing
                        BY <6>2 DEF Inv, Trials, Live
                    <6> QED BY <6>1, <6>2
                <5> QED BY <4>1, <5>1, TxLeaves
            <4> QED BY <4>2, <4>3, <4>4
        <3> QED BY <3>4, <3>5
    <2> QED BY <2>1, <2>2
<1>8. CASE CommitBegin(r)
    <2>1. CASE BeginAllowed(w)
        <3>1. queue' = [queue EXCEPT ![w.a][w.o] = "print_preflight"]
            BY <1>3, <1>8, <2>1 DEF CommitBegin
        <3>2. \A b \in Apparatuses, p \in Orders :
                  queue'[b][p] = IF b = w.a /\ p = w.o THEN "print_preflight" ELSE queue[b][p]
            BY <3>1, Row DEF Inv, Tables
        <3> QED BY <3>2 DEF RowLeaves
    <2> QED BY <1>2, <1>3, <1>8, <2>1 DEF CommitBegin
<1>9. CASE CommitDecision(r)
    <2>1. CASE DecisionAllowed(w)
        <3>1. /\ hold' = HoldAfter(w.h, w.to) /\ w.act = "decide" /\ pc[r] = "prepared"
              /\ queue' = [queue EXCEPT ![w.a][w.o] = QueueAfterDecision(w)]
            BY <1>3, <1>9, <2>1 DEF CommitDecision
        <3>2. Names(hold, w.h, w.o, w.a)
            BY <1>4, <3>1 DEF About
        <3>3. w.h \in HoldIds /\ Live(w.h) /\ hold[w.h].order = w.o /\ hold[w.h].apparatus = w.a
            BY <2>1, <3>2 DEF Names, DecisionAllowed
        <3>4. \A b \in Apparatuses, p \in Orders :
                  queue'[b][p] = IF b = w.a /\ p = w.o THEN QueueAfterDecision(w) ELSE queue[b][p]
            BY <3>1, Row DEF Inv, Tables
        <3>5. hold'[w.h].status = w.to
            BY <1>5, <3>1, <3>3, HoldStep DEF TrialStep, Inv
        <3>6. w.to \in {"running", "passed"} => QueueAfterDecision(w) = "print_preflight"
            BY DEF QueueAfterDecision
        <3> HIDE DEF QueueAfterDecision
        <3> QED BY <3>3, <3>4, <3>5, <3>6 DEF RowLeaves
    <2> QED BY <1>2, <1>3, <1>9, <2>1 DEF CommitDecision
<1>10. CASE StopDirect(r)
    <2> DEFINE paused == w.ctl.bySession /\ w.ctl.state = "frozen"
               from == IF w.ctl.target # NoApparatus THEN {w.ctl.target}
                       ELSE {b \in Apparatuses : queue[b][w.o] = "paused"}
               machines == {a \in from : Stoppable(a, w.o, paused, w.h \in w.trials)}
               after(a) == IF w.ctl.bySession THEN "frozen" ELSE session[a][w.o]
    <2>1. ASSUME NEW a \in machines, NEW sess, StopAllowed(a, w.o, w.h, sess, w.ctl),
                 FreezeTx(a, w.o, sess, HoldAfter(w.h, "cancelled"), w.ctl)
          PROVE  RowLeaves
        <3>1. Stoppable(a, w.o, paused, w.h \in w.trials)
              /\ (w.ctl.target # NoApparatus => a = w.ctl.target)
            BY <2>1
        <3>2. w.h # NoHold => w.h \in HoldIds /\ Live(w.h) /\ hold[w.h].order = w.o /\ hold[w.h].apparatus = a
            BY <1>3, <1>4, <1>10, <2>1, <3>1 DEF StopDirect, StopAllowed, About, Names
        <3>3. queue[a][w.o] = "print_preflight" => w.h # NoHold
            BY <1>5, <3>1 DEF Stoppable
        <3> QED BY <1>6, <2>1, <3>2, <3>3
    <2>2. \/ \E a \in machines : /\ StopAllowed(a, w.o, w.h, after(a), w.ctl)
                                 /\ FreezeTx(a, w.o, after(a), HoldAfter(w.h, "cancelled"), w.ctl)
          \/ PutControl(w.o, w.ctl)
          \/ UNCHANGED store
        BY <1>3, <1>10, Zenon DEF StopDirect
    <2> HIDE DEF machines, after
    <2>3. PutControl(w.o, w.ctl) => UNCHANGED queue
        BY DEF PutControl
    <2> QED BY <1>1, <1>2, <2>1, <2>2, <2>3
<1>11. ASSUME NEW h \in HoldIds, StopTrial(r, h) PROVE RowLeaves
    <2>1. CASE UNCHANGED store
        BY <1>2, <2>1
    <2>2. CASE ~ UNCHANGED store
        <3>1. /\ StopAllowed(hold[h].apparatus, w.o, h, session[hold[h].apparatus][w.o], w.ctl)
              /\ FreezeTx(hold[h].apparatus, w.o, session[hold[h].apparatus][w.o],
                          HoldAfter(h, "cancelled"), w.ctl)
              /\ pc[r] = "trials" /\ h \in w.trials
            BY <1>3, <1>11, <2>2, Zenon DEF StopTrial
        <3>2. Live(h)
            BY <1>5, <3>1 DEF StopAllowed
        <3>3. hold[h].order = w.o
            BY <1>4, <3>1 DEF About
        <3> QED BY <1>6, <3>1, <3>2, <3>3
    <2> QED BY <2>1, <2>2
<1>12. ASSUME NEW a \in Apparatuses, StopStage(r, a) PROVE RowLeaves
    <2>1. \/ UNCHANGED store
          \/ FreezeTx(a, w.o, "frozen", hold, w.ctl) /\ Stoppable(a, w.o, TRUE, FALSE)
        BY <1>3, <1>12, Zenon DEF StopStage
    <2>2. hold = HoldAfter(NoHold, "cancelled")
        BY DEF HoldAfter
    <2>3. Stoppable(a, w.o, TRUE, FALSE) => queue[a][w.o] # "print_preflight"
        BY DEF Stoppable
    <2> QED BY <1>2, <1>6, <2>1, <2>2, <2>3
<1>13. ASSUME NEW a \in Apparatuses, RestoreOne(r, a) PROVE RowLeaves
    <2>1. \/ UNCHANGED store
          \/ /\ queue[a][w.o] = "frozen"
             /\ QueueTx(a, w.o, "pending", ReleasedSession(session[a][w.o]), hold,
                        control[w.o], RestoredSequence(seq, w.o))
        BY <1>3, <1>13, Zenon DEF RestoreOne
    <2>2. hold = HoldAfter(NoHold, "cancelled")
        BY DEF HoldAfter
    <2> QED BY <1>2, <2>1, <2>2, TxLeaves
<1>14. CASE StopPublish(r) \/ StopSettle(r) \/ RestoreDone(r)
    <2>1. UNCHANGED store \/ \E o, c : PutControl(o, c)
        BY <1>14, Zenon DEF StopPublish, StopSettle, RestoreDone
    <2> QED BY <1>1, <1>2, <2>1 DEF PutControl
<1>15. ASSUME NEW o \in Orders, UpgradeToClose(r, o) PROVE RowLeaves
    BY <1>1, <1>15 DEF UpgradeToClose, PutControl
<1>16. CASE \E a \in Apparatuses, o \in Orders : \E wish : MoveSequence(r, a, o, wish)
    BY <1>1, <1>16 DEF MoveSequence
<1> QED
    BY <1>2, <1>7, <1>8, <1>9, <1>10, <1>11, <1>12, <1>13, <1>14, <1>15, <1>16, ZenonT(60)
       DEF AskStart, PrepareFreeze, PrepareBegin, PrepareResume, PrepareReport, AskDecision,
           StopBegin, RestoreBegin, Withdraw, PrepareStart, PrepareDecision, StopTrialsDone,
           Crash

\* A trial that is live after a step was live before, on the same row, or has
\* begun in the step, on a machine without one.
LEMMA LiveBefore ==
    ASSUME Inv, Safe, Next, NEW h \in HoldIds, hold'[h].status \in {"running", "passed"}
    PROVE  \/ /\ Live(h) /\ hold'[h].order = hold[h].order
              /\ hold'[h].apparatus = hold[h].apparatus
           \/ /\ \A k \in HoldIds : k # h => hold'[k] = hold[k]
              /\ \A k \in HoldIds : Live(k) => hold[k].apparatus # hold'[h].apparatus
              /\ queue'[hold'[h].apparatus][hold'[h].order] = "print_preflight"
<1>1. Effect /\ TrialFollows
    BY Effects, TrialsFollow
<1>2. CASE Live(h)
    BY <1>1, <1>2, NamesLast DEF Live
<1>3. CASE ~ Live(h)
    <2>1. ASSUME NEW w, Begun(w) PROVE w.h = h
        <3>1. hold' = [hold EXCEPT ![w.h] =
                          [status |-> "running", order |-> w.o, apparatus |-> w.a,
                           previous |-> w.from, revision |-> 0]]
            BY <2>1 DEF Begun
        <3>2. w.h # h => hold'[h] = hold[h]
            BY <3>1 DEF Inv, Trials
        <3> QED BY <1>3, <3>2 DEF Live
    <2>2. ASSUME NEW k \in HoldIds, NEW to, hold' = HoldAfter(k, to), Live(k) PROVE FALSE
        <3>1. hold'[h] = hold[h]
            BY <1>3, <2>2, HoldStep DEF Inv
        <3> QED BY <1>3, <3>1 DEF Live
    <2>3. hold' # hold
        BY <1>3 DEF Live
    <2>4. PICK w : Begun(w)
        BY <1>1, <2>2, <2>3 DEF TrialFollows
    <2>5. /\ w.a \in Printing /\ w.o \in Orders /\ w.h = h /\ LiveOn(w.a) = {}
          /\ hold' = [hold EXCEPT ![h] =
                        [status |-> "running", order |-> w.o, apparatus |-> w.a,
                         previous |-> w.from, revision |-> 0]]
          /\ queue' = [queue EXCEPT ![w.a][w.o] = "print_preflight"]
        BY <2>1, <2>4 DEF Begun, CarriesPrepared, BeginAllowed
    <2>6. hold'[h] = [status |-> "running", order |-> w.o, apparatus |-> w.a,
                      previous |-> w.from, revision |-> 0]
          /\ \A k \in HoldIds : k # h => hold'[k] = hold[k]
        BY <2>5 DEF Inv, Trials
    <2>7. hold'[h].order = w.o /\ hold'[h].apparatus = w.a
        BY <2>6
    <2>8. queue'[w.a][w.o] = "print_preflight"
        BY <2>5, Row, RoutesAssumption DEF Inv, Tables
    <2>9. \A k \in HoldIds : Live(k) => hold[k].apparatus # w.a
        BY <2>5 DEF LiveOn
    <2> QED BY <2>6, <2>7, <2>8, <2>9
<1> QED BY <1>2, <1>3

\* No step gives a machine a second trial.
LEMMA NextOneTrial == ASSUME Inv, Safe, OneTrial, Next PROVE OneTrial'
<1> SUFFICES ASSUME NEW h \in HoldIds, NEW k \in HoldIds,
                    hold'[h].status \in {"running", "passed"},
                    hold'[k].status \in {"running", "passed"},
                    hold'[h].apparatus = hold'[k].apparatus, h # k
             PROVE  FALSE
    BY DEF OneTrial, Live
<1>1. CASE Live(h) /\ Live(k)
    BY <1>1, Effects, NamesLast DEF OneTrial, Live
<1>2. CASE ~ Live(h)
    <2>1. hold'[k] = hold[k] /\ (Live(k) => hold[k].apparatus # hold'[h].apparatus)
        BY <1>2, LiveBefore
    <2> QED BY <2>1 DEF Live
<1>3. CASE ~ Live(k)
    <2>1. hold'[h] = hold[h] /\ (Live(h) => hold[h].apparatus # hold'[k].apparatus)
        BY <1>3, LiveBefore
    <2> QED BY <2>1 DEF Live
<1> QED BY <1>1, <1>2, <1>3

\* However many processes there are, a machine has at most one live colour trial:
\* the transaction that begins one finds no other (put_with_event).
THEOREM OneTrialPerMachine == Spec => []OneTrial
<1>1. Init => OneTrial
    BY DEF Init, OneTrial, Live, FreeHold
<1>2. Inv /\ Safe /\ OneTrial /\ [Next]_vars => OneTrial'
    <2> SUFFICES ASSUME Inv, Safe, OneTrial, [Next]_vars PROVE OneTrial'
        OBVIOUS
    <2>1. CASE UNCHANGED vars
        BY <2>1 DEF vars, store, OneTrial, Live
    <2> QED BY <2>1, NextOneTrial
<1> QED BY <1>1, <1>2, Inductive, SafeAlways, PTL DEF Spec

\* Under Serial, every step keeps InStep.
LEMMA NextInStep == ASSUME Serial, Inv, Safe, InStep, Next PROVE InStep'
<1>1. OneTrial'
    BY NextOneTrial DEF InStep
<1>2. RowsInTrial'
    <2> SUFFICES ASSUME NEW h \in HoldIds, hold'[h].status \in {"running", "passed"}
                 PROVE  queue'[hold'[h].apparatus][hold'[h].order] = "print_preflight"
        BY DEF RowsInTrial, Live
    <2>1. CASE Live(h) /\ hold'[h].order = hold[h].order /\ hold'[h].apparatus = hold[h].apparatus
        <3>1. PICK b, p : b = hold[h].apparatus /\ p = hold[h].order
            OBVIOUS
        <3>2. b \in Apparatuses /\ p \in Orders /\ queue[b][p] = "print_preflight"
            BY <2>1, <3>1, RoutesAssumption
               DEF InStep, RowsInTrial, Live, Inv, Trials, Safe, TrialOrders
        <3>3. SUFFICES ASSUME queue'[b][p] # "print_preflight" PROVE FALSE
            BY <2>1, <3>1
        <3>4. \/ \E k \in HoldIds : /\ Live(k) /\ hold[k].order = p /\ hold[k].apparatus = b
                                    /\ hold'[k].status \notin {"running", "passed"}
              \/ \A k \in HoldIds : Live(k) => hold[k].apparatus # b
            BY <3>2, <3>3, RowsLeave DEF RowLeaves
        <3> QED BY <2>1, <3>1, <3>4 DEF InStep, OneTrial
    <2> QED BY <2>1, LiveBefore
<1>3. ASSUME NEW q \in Requests
      PROVE  LeavesTrial(pc'[q], write'[q]) /\ NoTrialThere(pc'[q], write'[q], hold')
    <2>0. PICK r \in Requests : Presents(r)
        BY Presented
    <2>1. CASE r # q
        <3>1. Printing = {}
            BY <2>1 DEF Serial, OneRequest
        <3>2. pc'[q] = pc[q] /\ write'[q] = write[q]
            BY <2>0, <2>1 DEF Presents, Enter, Inv, Tables
        <3>3. LeavesTrial(pc[q], write[q])
            BY DEF InStep
        <3> QED BY <3>1, <3>2, <3>3 DEF NoTrialThere
    <2>2. CASE UNCHANGED <<pc, write>> /\ pc[q] = "idle"
        BY <2>2 DEF LeavesTrial, NoTrialThere
    <2>3. ASSUME NEW at, NEW w, Enter(q, at, w), LeavesTrial(at, w),
                 at \notin {"asked", "prepared"} \/ (UNCHANGED hold /\ NoTrialThere(at, w, hold))
          PROVE  LeavesTrial(pc'[q], write'[q]) /\ NoTrialThere(pc'[q], write'[q], hold')
        <3>1. pc'[q] = at /\ write'[q] = w
            BY <2>3 DEF Enter, Inv, Tables
        <3>2. NoTrialThere(at, w, hold')
            BY <2>3 DEF NoTrialThere
        <3> QED BY <2>3, <3>1, <3>2
    <2> QED BY <2>0, <2>1, <2>2, <2>3 DEF Presents
<1> QED BY <1>1, <1>2, <1>3 DEF InStep

\* Under Serial, every trial has its row, and no request under way would part
\* them (put_with_event, persist_queue_status).
LEMMA InStepAlways == Serial => (Spec => []InStep)
<1> SUFFICES ASSUME Serial PROVE Spec => []InStep
    OBVIOUS
<1>1. Init => InStep
    BY DEF Init, InStep, OneTrial, RowsInTrial, Live, FreeHold, LeavesTrial, NoTrialThere
<1>2. Inv /\ Safe /\ InStep /\ [Next]_vars => InStep'
    <2> SUFFICES ASSUME Inv, Safe, InStep, [Next]_vars PROVE InStep'
        OBVIOUS
    <2>1. CASE UNCHANGED vars
        BY <2>1 DEF vars, store, InStep, OneTrial, RowsInTrial, Live, LeavesTrial, NoTrialThere
    <2> QED BY <2>1, NextInStep
<1> QED BY <1>1, <1>2, Inductive, SafeAlways, PTL DEF Spec

\* When requests come one at a time, a row is in trial exactly while its trial is
\* live, on plants with any machines and orders, through decisions, reopenings,
\* starts, stops, releases and requests cut short (persist_queue_status).  A
\* start that was checked before a trial began would leave the trial behind: the
\* hypothesis excludes it.
THEOREM RowsMatchTrials == OneRequest => (Spec => []TrialMatchesQueue)
<1> SUFFICES ASSUME OneRequest PROVE Spec => []TrialMatchesQueue
    OBVIOUS
<1>1. Safe /\ InStep => TrialMatchesQueue
    BY DEF Safe, InStep, RowsInTrial, TrialRowIsDecidable, TrialMatchesQueue
<1>2. Serial
    BY DEF Serial
<1> QED BY <1>1, <1>2, InStepAlways, SafeAlways, PTL

-----------------------------------------------------------------------------
(* Runs left open, when nobody comes between check and commit.             *)

\* The plant is one machine.
OneMachine == \A a, b \in Apparatuses : a = b

\* What the session of a run says of its queue row.  On several machines a
\* stop may freeze a paused row without its session.
RowFits(q, s) ==
    /\ s = "active" => q = "in_progress"
    /\ s = "requeued" => Parsed(q) = "pending"
    /\ s = "frozen" => q = "frozen"
    /\ OneMachine /\ s = "paused" => q = "paused"

RowsFit == \A a \in Apparatuses, o \in Orders : RowFits(queue[a][o], session[a][o])

\* A write that leaves the session alone finds none it would strand.
LeavesOpen(at, w, s) ==
    /\ at = "prepared" /\ w.act = "begin" => s[w.a][w.o] # "requeued"
    /\ at = "prepared" /\ w.act = "freeze" /\ w.h # NoHold => w.from = "print_preflight"
    /\ at = "direct" /\ ~ w.ctl.bySession /\ OneMachine =>
          \A a \in Apparatuses : s[a][w.o] # "paused"

Fitting == RowsFit /\ \A r \in Requests : LeavesOpen(pc[r], write[r], session)

\* A stop of an order paused on the only machine is a stop of that session.
LEMMA PausedStops ==
    ASSUME OneMachine, Inv, Safe, InStep, RowsFit, NEW o \in Orders, NEW asking,
           NEW a \in Apparatuses, session[a][o] = "paused"
    PROVE  StopRecord(o, asking).bySession
<1> DEFINE active == SessionsIn(o, {"active"})
           paused == SessionsIn(o, {"paused", "requeued"})
           trials == TrialsOf(o)
           passed == {h \in trials : hold[h].status = "passed"}
           waits  == \/ Working(o)
                     \/ passed # {} /\ (Cardinality(trials) > 1 \/ paused # {})
<1>1. StopRecord(o, asking).bySession =
          IF waits THEN Cardinality(active) = 1 /\ trials = {} ELSE Cardinality(paused) = 1
    BY Zenon DEF StopRecord
<1>2. queue[a][o] = "paused" /\ \A b \in Apparatuses : b = a
    BY DEF OneMachine, RowsFit, RowFits
<1>3. ASSUME NEW h \in HoldIds, Live(h), hold[h].order = o PROVE FALSE
    <2>1. hold[h].apparatus \in Apparatuses /\ queue[hold[h].apparatus][o] = "print_preflight"
        BY <1>3, RoutesAssumption DEF InStep, RowsInTrial, Inv, Trials, Live
    <2> QED BY <1>2, <2>1
<1>4. trials = {}
    BY <1>3 DEF TrialsOf
<1>5. ~ Working(o)
    BY <1>2, <1>3 DEF Working, Live
<1>6. paused = {a}
    BY <1>2 DEF SessionsIn
<1>7. Cardinality(paused) = 1
    BY <1>6, FS_Singleton
<1>8. ~ waits
    BY <1>4, <1>5
<1> HIDE DEF waits, paused, active, trials
<1> QED BY <1>1, <1>7, <1>8

\* What a request that goes on has found of the sessions.
Leaves(r) ==
    \/ UNCHANGED <<pc, write>> /\ pc[r] = "idle"
    \/ \E at, w : Enter(r, at, w) /\ LeavesOpen(at, w, session')

\* Every step is one of these.
LEMMA LeavesAll == ASSUME Inv, Safe, InStep, Fitting, Next PROVE \E r \in Requests : Leaves(r)
<1> PICK r \in Requests : Next!(r)
    BY DEF Next
<1> SUFFICES Leaves(r)
    OBVIOUS
<1>1. ASSUME NEW at, NEW w, Enter(r, at, w), at \notin {"prepared", "direct"} PROVE Leaves(r)
    BY <1>1 DEF Leaves, LeavesOpen
<1>2. ASSUME NEW w, Enter(r, "prepared", w), w.act \notin {"begin", "freeze"} PROVE Leaves(r)
    BY <1>2 DEF Leaves, LeavesOpen
<1>3. ASSUME NEW a \in Apparatuses, NEW o \in Orders, NEW h \in HoldIds \union {NoHold},
             PrepareFreeze(r, a, o, h)
      PROVE  Leaves(r)
    <2>1. PICK b, d, w : /\ b = [Command("freeze", a, o, h) EXCEPT !.from = queue[a][o]]
                         /\ d = [b EXCEPT !.to = "frozen"]
                         /\ w = [d EXCEPT !.ctl = Acknowledged(a, o)]
        OBVIOUS
    <2>2. w.act = "freeze" /\ w.h = h /\ w.from = queue[a][o]
        BY <2>1, Commands, WriteFields
    <2>3. Enter(r, "prepared", w)
        BY <1>3, <2>1, Zenon DEF PrepareFreeze
    <2>4. queue[a][o] = "print_preflight" \/ h = NoHold
        BY <1>3 DEF PrepareFreeze
    <2>5. LeavesOpen("prepared", w, session')
        BY <2>2, <2>4 DEF LeavesOpen
    <2> QED BY <2>3, <2>5 DEF Leaves
<1>4. ASSUME NEW a \in Apparatuses, NEW o \in Orders, NEW h \in HoldIds, PrepareBegin(r, a, o, h)
      PROVE  Leaves(r)
    <2>1. PICK w : w = [Command("begin", a, o, h) EXCEPT !.from = queue[a][o]]
        OBVIOUS
    <2>2. w.act = "begin" /\ w.a = a /\ w.o = o
        BY <2>1, Commands, WriteFields
    <2>3. Enter(r, "prepared", w) /\ UNCHANGED session /\ session[a][o] # "requeued"
        BY <1>4, <2>1 DEF PrepareBegin, store
    <2>4. LeavesOpen("prepared", w, session')
        BY <2>2, <2>3 DEF LeavesOpen
    <2> QED BY <2>3, <2>4 DEF Leaves
<1>5. ASSUME NEW a \in Apparatuses, NEW o \in Orders, NEW act \in {"pause", "complete"},
             NEW to \in Reported(act), PrepareReport(r, act, a, o, to)
      PROVE  Leaves(r)
    <2>1. PICK b, w : /\ b = [Command(act, a, o, NoHold) EXCEPT !.from = queue[a][o]]
                      /\ w = [b EXCEPT !.to = to]
        OBVIOUS
    <2>2. w.act = act
        BY <2>1, Commands, WriteFields
    <2>3. Enter(r, "prepared", w)
        BY <1>5, <2>1, Zenon DEF PrepareReport
    <2> QED BY <1>2, <2>2, <2>3
<1>6. ASSUME NEW a \in Apparatuses, NEW o \in Orders, PrepareResume(r, a, o) PROVE Leaves(r)
    <2>1. PICK w : w = Witnessed(Command("resume", a, o, NoHold))
        OBVIOUS
    <2>2. w.act = "resume"
        BY <2>1, Commands, Witnesses
    <2> QED BY <1>2, <1>6, <2>1, <2>2 DEF PrepareResume
<1>7. CASE PrepareStart(r)
    <2>1. PICK w : w = Witnessed(write[r])
        OBVIOUS
    <2>2. write[r] \in WriteRecord /\ write[r].act = "start"
        BY <1>7 DEF PrepareStart, Safe, Bounds, Bound
    <2>3. DOMAIN write[r] = DOMAIN NoWrite
        BY <2>2 DEF WriteRecord, NoWrite
    <2>4. w.act = "start"
        BY <2>1, <2>2, <2>3, Witnesses
    <2> QED BY <1>2, <1>7, <2>1, <2>4 DEF PrepareStart
<1>8. CASE PrepareDecision(r)
    BY <1>2, <1>8 DEF PrepareDecision
<1>9. ASSUME NEW o \in Orders, NEW asking \in BOOLEAN, StopBegin(r, o, asking) PROVE Leaves(r)
    <2>1. PICK h, c, rec, T, W, S :
              /\ c = Command("stop", NoApparatus, o, h) /\ rec = StopRecord(o, asking)
              /\ \/ Enter(r, "publish", [c EXCEPT !.ctl = rec, !.trials = T, !.working = W, !.stages = S])
                 \/ Enter(r, "direct", [c EXCEPT !.ctl = rec, !.trials = T, !.working = W, !.stages = S])
        BY <1>9, Zenon DEF StopBegin
    <2>2. PICK x, y : x = [c EXCEPT !.ctl = rec] /\ y = [x EXCEPT !.trials = T]
        OBVIOUS
    <2>3. PICK z, v : z = [y EXCEPT !.working = W] /\ v = [z EXCEPT !.stages = S]
        OBVIOUS
    <2>4. DOMAIN c = DOMAIN NoWrite /\ c.o = o
        BY <2>1, Commands
    <2>5. x.ctl = rec /\ x.o = o
        BY <2>2, <2>4, WriteFields
    <2>6. y.ctl = rec /\ y.o = o
        BY <2>2, <2>5
    <2>7. v.ctl = rec /\ v.o = o
        BY <2>3, <2>6
    <2>8. Enter(r, "publish", v) \/ Enter(r, "direct", v)
        BY <2>1, <2>2, <2>3, Zenon
    <2>9. UNCHANGED session
        BY <1>9, Zenon DEF StopBegin, store
    <2>10. OneMachine /\ ~ rec.bySession => \A a \in Apparatuses : session[a][o] # "paused"
        BY <2>1, PausedStops DEF Fitting
    <2>11. LeavesOpen("direct", v, session')
        BY <2>7, <2>9, <2>10 DEF LeavesOpen
    <2> QED BY <1>1, <2>8, <2>11 DEF Leaves
<1>10. CASE \/ \E a \in Apparatuses, o \in Orders, h \in HoldIds \union {NoHold} : AskStart(r, a, o, h)
            \/ \E h \in HoldIds, to \in HoldStates : AskDecision(r, h, to)
            \/ \E o \in Orders : RestoreBegin(r, o)
            \/ StopPublish(r) \/ \E h \in HoldIds : StopTrial(r, h)
            \/ StopTrialsDone(r) \/ \E a \in Apparatuses : StopStage(r, a) \/ RestoreOne(r, a)
    <2>1. \E at \in {"asked", "publish", "trials", "stages", "restore", "idle"} :
             \E w : Enter(r, at, w)
        BY <1>10, Zenon DEF AskStart, AskDecision, RestoreBegin, StopPublish, StopTrial,
                            StopTrialsDone, StopStage, RestoreOne, Leave
    <2> QED BY <1>1, <2>1
<1>11. CASE \/ Withdraw(r) \/ Commit(r) \/ CommitBegin(r) \/ CommitDecision(r)
            \/ StopDirect(r) \/ StopSettle(r) \/ RestoreDone(r) \/ Crash(r)
    <2>1. Leave(r)
        BY <1>11, Zenon DEF Withdraw, Commit, CommitBegin, CommitDecision, StopDirect, StopSettle,
                            RestoreDone, Crash
    <2> QED BY <1>1, <2>1 DEF Leave
<1>12. CASE \/ \E o \in Orders : UpgradeToClose(r, o)
            \/ \E a \in Apparatuses, o \in Orders : \E wish : MoveSequence(r, a, o, wish)
    BY <1>12 DEF UpgradeToClose, MoveSequence, Leaves
<1> QED
    BY <1>3, <1>4, <1>5, <1>6, <1>7, <1>8, <1>9, <1>10, <1>11, <1>12

\* A transaction that writes a row and its session.
LEMMA TxFits ==
    ASSUME Inv, RowsFit, NEW a, NEW o, NEW to, NEW sess, NEW hd, NEW c, NEW sq,
           QueueTx(a, o, to, sess, hd, c, sq), RowFits(to, sess)
    PROVE  RowsFit'
<1>1. queue' = [queue EXCEPT ![a][o] = to] /\ session' = [session EXCEPT ![a][o] = sess]
    BY Zenon DEF QueueTx
<1>2. \A b \in Apparatuses, p \in Orders :
          /\ queue'[b][p] = IF b = a /\ p = o THEN to ELSE queue[b][p]
          /\ session'[b][p] = IF b = a /\ p = o THEN sess ELSE session[b][p]
    BY <1>1, Row DEF Inv, Tables
<1> QED BY <1>2 DEF RowsFit, RowFits

\* A write of a row alone.
LEMMA RowFitsAlone ==
    ASSUME Inv, RowsFit, NEW a \in Apparatuses, NEW o \in Orders, NEW to,
           queue' = [queue EXCEPT ![a][o] = to], UNCHANGED session, RowFits(to, session[a][o])
    PROVE  RowsFit'
<1>1. \A b \in Apparatuses, p \in Orders :
          queue'[b][p] = IF b = a /\ p = o THEN to ELSE queue[b][p]
    BY Row DEF Inv, Tables
<1> QED BY <1>1 DEF RowsFit, RowFits

\* Every step keeps rows and sessions together.
LEMMA NextFits == ASSUME Inv, Safe, InStep, Fitting, Next PROVE RowsFit'
<1> PICK r \in Requests : Next!(r)
    BY DEF Next
<1>0. RowsFit
    BY DEF Fitting
<1>1. ASSUME UNCHANGED <<queue, session>> PROVE RowsFit'
    BY <1>0, <1>1 DEF RowsFit, RowFits
<1>2. ASSUME UNCHANGED store PROVE RowsFit'
    BY <1>1, <1>2 DEF store
<1>3. PICK w : w = write[r]
    OBVIOUS
<1>4. /\ Bound(pc[r], w) /\ About(pc[r], w, hold) /\ w \in WriteRecord
      /\ LeavesOpen(pc[r], w, session)
    BY <1>3 DEF Fitting, Safe, Bounds, Bound
<1>5. /\ w.h \in HoldIds \union {NoHold} /\ w.trials \subseteq HoldIds /\ NoHold \notin HoldIds
      /\ pc[r] # "idle" => w.o \in Orders
      /\ pc[r] = "prepared" => w.a \in Apparatuses
    BY <1>4, RoutesAssumption DEF WriteRecord, Bound
<1>6. ASSUME NEW a \in Apparatuses, NEW o \in Orders,
             \/ queue[a][o] = "print_preflight"
             \/ queue[a][o] \in {"paused", "frozen"} /\ (OneMachine => session[a][o] # "paused")
      PROVE  RowFits("frozen", session[a][o])
    <2>1. RowFits(queue[a][o], session[a][o])
        BY <1>0 DEF RowsFit
    <2> QED BY <1>6, <2>1 DEF RowFits, Parsed
<1>7. ASSUME NEW a, NEW sess, NEW hd, NEW c, FreezeTx(a, w.o, sess, hd, c), RowFits("frozen", sess)
      PROVE  RowsFit'
    BY <1>0, <1>7, TxFits DEF FreezeTx
<1>8. RowFits("frozen", "frozen")
    BY DEF RowFits
<1>9. ASSUME NEW h \in HoldIds, Live(h)
      PROVE  /\ hold[h].apparatus \in Apparatuses
             /\ queue[hold[h].apparatus][hold[h].order] = "print_preflight"
    BY <1>9, RoutesAssumption DEF InStep, RowsInTrial, Inv, Trials, Live
<1>10. CASE Commit(r)
    <2>1. CASE UNCHANGED store
        BY <1>2, <2>1
    <2>2. CASE ~ UNCHANGED store
        <3>1. CommitAllowed(w) /\ CarriesPrepared(w) /\ w.act \in QueueActs /\ pc[r] = "prepared"
            BY <1>3, <1>10, <2>2 DEF Commit, Inv, Carried
        <3>2. CASE w.act = "freeze"
            <4>1. FreezeTx(w.a, w.o, SessionAfter(w), HoldsAfter(w), w.ctl)
                BY <1>3, <1>10, <3>1, <3>2 DEF Commit
            <4>2. SessionAfter(w) = IF w.h = NoHold THEN "frozen" ELSE session[w.a][w.o]
                BY <3>2 DEF SessionAfter
            <4>3. CASE w.h = NoHold
                BY <1>7, <1>8, <4>1, <4>2, <4>3
            <4>4. CASE w.h # NoHold
                <5>1. queue[w.a][w.o] = "print_preflight"
                    BY <1>4, <3>1, <3>2, <4>4 DEF LeavesOpen, CommitAllowed, WitnessHolds, Parsed
                <5>2. RowFits("frozen", session[w.a][w.o])
                    BY <1>5, <1>6, <3>1, <5>1
                <5> QED BY <1>7, <4>1, <4>2, <4>4, <5>2
            <4> QED BY <4>3, <4>4
        <3>3. CASE w.act # "freeze"
            <4>1. QueueTx(w.a, w.o, w.to, SessionAfter(w), HoldsAfter(w), control[w.o], seq)
                BY <1>3, <1>10, <3>1, <3>3 DEF Commit
            <4>2. RowFits(w.to, SessionAfter(w))
                BY <3>1, <3>3 DEF RowFits, SessionAfter, CarriesPrepared, QueueActs
            <4> QED BY <1>0, <4>1, <4>2, TxFits
        <3> QED BY <3>2, <3>3
    <2> QED BY <2>1, <2>2
<1>11. CASE CommitBegin(r)
    <2>1. CASE BeginAllowed(w)
        <3>1. /\ queue' = [queue EXCEPT ![w.a][w.o] = "print_preflight"] /\ UNCHANGED session
              /\ pc[r] = "prepared" /\ w.act = "begin"
            BY <1>3, <1>11, <2>1 DEF CommitBegin
        <3>2. CarriesPrepared(w)
            BY <1>3, <3>1 DEF Inv, Carried
        <3>3. queue[w.a][w.o] \in {"none", "pending"} /\ session[w.a][w.o] # "requeued"
            BY <1>4, <2>1, <3>1, <3>2 DEF CarriesPrepared, BeginAllowed, LeavesOpen
        <3>4. RowFits("print_preflight", session[w.a][w.o])
            BY <1>0, <1>5, <3>1, <3>3 DEF RowsFit, RowFits
        <3> QED BY <1>0, <1>5, <3>1, <3>4, RowFitsAlone
    <2> QED BY <1>2, <1>3, <1>11, <2>1 DEF CommitBegin
<1>12. CASE CommitDecision(r)
    <2>1. CASE DecisionAllowed(w)
        <3>1. PICK to : /\ queue' = [queue EXCEPT ![w.a][w.o] = to] /\ UNCHANGED session
                        /\ pc[r] = "prepared" /\ w.act = "decide"
            BY <1>3, <1>12, <2>1, Zenon DEF CommitDecision
        <3>2. w.h \in HoldIds /\ Live(w.h) /\ hold[w.h].order = w.o /\ hold[w.h].apparatus = w.a
            BY <1>4, <2>1, <3>1 DEF About, Names, DecisionAllowed
        <3>3. queue[w.a][w.o] = "print_preflight"
            BY <1>9, <3>2
        <3>4. RowFits(to, session[w.a][w.o])
            BY <1>0, <1>5, <3>1, <3>3 DEF RowsFit, RowFits, Parsed
        <3> QED BY <1>0, <1>5, <3>1, <3>4, RowFitsAlone
    <2> QED BY <1>2, <1>3, <1>12, <2>1 DEF CommitDecision
<1>13. CASE StopDirect(r)
    <2> DEFINE paused == w.ctl.bySession /\ w.ctl.state = "frozen"
               from == IF w.ctl.target # NoApparatus THEN {w.ctl.target}
                       ELSE {b \in Apparatuses : queue[b][w.o] = "paused"}
               machines == {a \in from : Stoppable(a, w.o, paused, w.h \in w.trials)}
               after(a) == IF w.ctl.bySession THEN "frozen" ELSE session[a][w.o]
    <2>1. ASSUME NEW a \in machines, StopAllowed(a, w.o, w.h, after(a), w.ctl),
                 FreezeTx(a, w.o, after(a), HoldAfter(w.h, "cancelled"), w.ctl)
          PROVE  RowsFit'
        <3>1. CASE w.ctl.bySession
            BY <1>7, <1>8, <2>1, <3>1
        <3>2. CASE ~ w.ctl.bySession
            <4>1. a \in Apparatuses
                BY <1>4, <2>1 DEF WriteRecord, ControlRecord
            <4>2. queue[a][w.o] \in {"paused", "frozen", "print_preflight"}
                BY <2>1, <3>2 DEF Stoppable, StopAllowed
            <4>3. pc[r] = "direct" /\ (OneMachine => session[a][w.o] # "paused")
                BY <1>3, <1>4, <1>13, <3>2, <4>1 DEF StopDirect, LeavesOpen
            <4>4. RowFits("frozen", session[a][w.o])
                BY <1>5, <1>6, <4>1, <4>2, <4>3
            <4> QED BY <1>7, <2>1, <3>2, <4>4
        <3> QED BY <3>1, <3>2
    <2>2. \/ \E a \in machines : /\ StopAllowed(a, w.o, w.h, after(a), w.ctl)
                                 /\ FreezeTx(a, w.o, after(a), HoldAfter(w.h, "cancelled"), w.ctl)
          \/ PutControl(w.o, w.ctl)
          \/ UNCHANGED store
        BY <1>3, <1>13, Zenon DEF StopDirect
    <2> HIDE DEF machines, after
    <2>3. PutControl(w.o, w.ctl) => UNCHANGED <<queue, session>>
        BY DEF PutControl
    <2> QED BY <1>1, <1>2, <2>1, <2>2, <2>3
<1>14. ASSUME NEW h \in HoldIds, StopTrial(r, h) PROVE RowsFit'
    <2>1. CASE UNCHANGED store
        BY <1>2, <2>1
    <2>2. CASE ~ UNCHANGED store
        <3>1. PICK a : a = hold[h].apparatus
            OBVIOUS
        <3>2. /\ StopAllowed(a, w.o, h, session[a][w.o], w.ctl)
              /\ FreezeTx(a, w.o, session[a][w.o], HoldAfter(h, "cancelled"), w.ctl)
              /\ pc[r] = "trials" /\ h \in w.trials
            BY <1>3, <1>14, <2>2, <3>1, Zenon DEF StopTrial
        <3>3. Live(h) /\ hold[h].order = w.o
            BY <1>4, <1>5, <3>2 DEF StopAllowed, About
        <3>4. a \in Apparatuses /\ queue[a][w.o] = "print_preflight"
            BY <1>9, <3>1, <3>3
        <3>5. RowFits("frozen", session[a][w.o])
            BY <1>5, <1>6, <3>2, <3>4
        <3> QED BY <1>7, <3>2, <3>5
    <2> QED BY <2>1, <2>2
<1>15. ASSUME NEW a \in Apparatuses, StopStage(r, a) PROVE RowsFit'
    <2>1. UNCHANGED store \/ FreezeTx(a, w.o, "frozen", hold, w.ctl)
        BY <1>3, <1>15, Zenon DEF StopStage
    <2> QED BY <1>2, <1>7, <1>8, <2>1
<1>16. ASSUME NEW a \in Apparatuses, RestoreOne(r, a) PROVE RowsFit'
    <2>1. \/ UNCHANGED store
          \/ /\ queue[a][w.o] = "frozen"
             /\ QueueTx(a, w.o, "pending", ReleasedSession(session[a][w.o]), hold,
                        control[w.o], RestoredSequence(seq, w.o))
        BY <1>3, <1>16, Zenon DEF RestoreOne
    <2>2. w.o \in Orders
        BY <1>3, <1>5, <1>16 DEF RestoreOne
    <2>3. queue[a][w.o] = "frozen" => RowFits("pending", ReleasedSession(session[a][w.o]))
        BY <1>0, <2>2 DEF RowsFit, RowFits, ReleasedSession, Parsed
    <2> QED BY <1>0, <1>2, <2>1, <2>3, TxFits
<1>17. CASE StopPublish(r) \/ StopSettle(r) \/ RestoreDone(r)
    <2>1. UNCHANGED store \/ \E o, c : PutControl(o, c)
        BY <1>17, Zenon DEF StopPublish, StopSettle, RestoreDone
    <2> QED BY <1>1, <1>2, <2>1 DEF PutControl
<1>18. ASSUME NEW o \in Orders, UpgradeToClose(r, o) PROVE RowsFit'
    BY <1>1, <1>18 DEF UpgradeToClose, PutControl
<1>19. CASE \E a \in Apparatuses, o \in Orders : \E wish : MoveSequence(r, a, o, wish)
    BY <1>1, <1>19 DEF MoveSequence
<1> QED
    BY <1>2, <1>10, <1>11, <1>12, <1>13, <1>14, <1>15, <1>16, <1>17, <1>18, <1>19, ZenonT(60)
       DEF AskStart, PrepareFreeze, PrepareBegin, PrepareResume, PrepareReport, AskDecision,
           StopBegin, RestoreBegin, Withdraw, PrepareStart, PrepareDecision, StopTrialsDone,
           Crash

\* With requests one at a time, or concurrent in one process without colour
\* trials, on any machines: a run that goes on has its row in progress, a run an
\* administrator froze has a frozen row, and a released run waits in a pending
\* row, through stops and releases cut short (restore_one_frozen_queue,
\* prepare_direct_freeze_queue_write).
THEOREM RunsKeepTheirRows == Serial => (Spec => []RowsFit)
<1> SUFFICES ASSUME Serial PROVE Spec => []RowsFit
    OBVIOUS
<1>0. OneProcess
    BY DEF Serial, OneRequest, OneProcess
<1>1. Init => Fitting
    <2> SUFFICES ASSUME Init PROVE Fitting
        OBVIOUS
    <2>1. \A a \in Apparatuses, o \in Orders : session[a][o] = "none"
        BY DEF Init
    <2>2. \A r \in Requests : pc[r] = "idle"
        BY DEF Init
    <2> QED BY <2>1, <2>2 DEF Fitting, RowsFit, RowFits, LeavesOpen
<1>2. Inv /\ Safe /\ InStep /\ Alike /\ Fitting /\ [Next]_vars => Fitting'
    <2> SUFFICES ASSUME Inv, Safe, InStep, Alike, Fitting, [Next]_vars PROVE Fitting'
        OBVIOUS
    <2>1. CASE UNCHANGED vars
        BY <2>1 DEF vars, store, Fitting, RowsFit, RowFits, LeavesOpen
    <2>2. CASE Next
        <3>1. RowsFit'
            BY <2>2, NextFits
        <3>2. ASSUME NEW q \in Requests PROVE LeavesOpen(pc'[q], write'[q], session')
            <4>0. PICK r \in Requests : Leaves(r)
                BY <2>2, LeavesAll
            <4>1. CASE r # q
                <5>1. Printing = {}
                    BY <4>1 DEF Serial, OneRequest
                <5>2. pc'[q] = pc[q] /\ write'[q] = write[q]
                    BY <4>0, <4>1 DEF Leaves, Enter, Inv, Tables
                <5>3. LeavesOpen(pc[q], write[q], session)
                    BY DEF Fitting
                <5>4. pc[q] = "prepared" => write[q].act # "begin"
                    BY <5>1 DEF Inv, Carried, CarriesPrepared
                <5>5. pc[q] = "direct" => UNCHANGED session
                    BY <1>0, <2>2, <5>2, AloneUndisturbed DEF Safe, Bounds, Bound, Holding
                <5> QED BY <5>2, <5>3, <5>4, <5>5 DEF LeavesOpen
            <4>2. CASE UNCHANGED <<pc, write>> /\ pc[q] = "idle"
                BY <4>2 DEF LeavesOpen
            <4>3. ASSUME NEW at, NEW w, Enter(q, at, w), LeavesOpen(at, w, session')
                  PROVE  LeavesOpen(pc'[q], write'[q], session')
                <5>1. pc'[q] = at /\ write'[q] = w
                    BY <4>3 DEF Enter, Inv, Tables
                <5> QED BY <4>3, <5>1
            <4> QED BY <4>0, <4>1, <4>2, <4>3 DEF Leaves
        <3> QED BY <3>1, <3>2 DEF Fitting
    <2> QED BY <2>1, <2>2
<1>3. Spec => []InStep
    BY InStepAlways
<1>4. Fitting => RowsFit
    BY DEF Fitting
<1>5. Spec => []Alike
    BY <1>0, AlikeAlways
<1> QED BY <1>1, <1>2, <1>3, <1>4, <1>5, Inductive, SafeAlways, PTL DEF Spec

\* On one machine, with requests one at a time, or with any number of concurrent
\* requests of one process on a machine without colour trials, work left open is
\* never lost: whatever stops, releases, trials and requests cut short came in
\* between, the paused run of an order that is not stopped can be resumed
\* (queue_requeued_resume, unfrozen_order_run_session).  On several machines a
\* stop of an order paused on two of them strands one, a late second request
\* strands a run behind a trial, and a second process pauses what a stop has
\* counted as running: the hypotheses are needed.
THEOREM OpenWorkResumes == Serial /\ OneMachine => (Spec => []WorkCanResume)
<1> SUFFICES ASSUME Serial, OneMachine PROVE Spec => []WorkCanResume
    OBVIOUS
<1>1. OneProcess
    BY DEF Serial, OneRequest, OneProcess
<1>2. Spec => []RowsFit
    BY RunsKeepTheirRows
<1>3. Spec => []Orderly
    BY <1>1, OrderlyAlways
<1>4. RowsFit /\ Orderly => WorkCanResume
    BY DEF RowsFit, RowFits, Orderly, StopsRecorded, WorkCanResume
<1> QED BY <1>2, <1>3, <1>4, PTL

-----------------------------------------------------------------------------
(* Stops on one machine, when nobody comes between check and commit.       *)

\* A worker can still answer the stop c of an order: its machine runs the order
\* or a colour trial of it.
WaitsFor(c, o, q, s, hd) ==
    /\ c.status = "pending"
    /\ \E a \in Apparatuses :
          /\ c.target \in {NoApparatus, a}
          /\ \/ /\ q[a][o] = "print_preflight"
                /\ \E h \in HoldIds : /\ hd[h].status = "running" /\ hd[h].order = o
                                      /\ hd[h].apparatus = a
             \/ /\ q[a][o] = "in_progress" /\ s[a][o] = "active"
                /\ c.target = NoApparatus \/ c.bySession

Answers ==
    \A o \in Orders : control[o].state = "freeze_requested" =>
        WaitsFor(control[o], o, queue, session, hold)

\* On one machine a stop is one transaction; one that has to wait found work.
StopsShort(at, w, q, s, hd) ==
    /\ at \notin {"publish", "trials", "stages"}
    /\ at = "direct" /\ w.ctl.state = "freeze_requested" =>
          WaitsFor(w.ctl, w.o, q, s, hd) /\ w.trials = {}
    /\ at = "prepared" /\ w.act = "freeze" => w.ctl.state = "frozen"
    /\ at = "restore" => w.ctl.state = "active"

Answerable ==
    Answers /\ \A r \in Requests : StopsShort(pc[r], write[r], queue, session, hold)

\* The record of a stop that waits names the machine that works.
LEMMA StopWaits ==
    ASSUME OneMachine, Inv, Safe, InStep, RowsFit, NEW o \in Orders, NEW asking,
           StopRecord(o, asking).state = "freeze_requested",
           SessionsIn(o, {"active"}) # {} \/ TrialsOf(o) # {}
    PROVE  /\ WaitsFor(StopRecord(o, asking), o, queue, session, hold)
           /\ {h \in TrialsOf(o) : hold[h].status = "passed"} = {}
<1> DEFINE active == SessionsIn(o, {"active"})
           paused == SessionsIn(o, {"paused", "requeued"})
           trials == TrialsOf(o)
           passed == {h \in trials : hold[h].status = "passed"}
           waits  == \/ Working(o)
                     \/ passed # {} /\ (Cardinality(trials) > 1 \/ paused # {})
           bySession == IF waits THEN Cardinality(active) = 1 /\ trials = {}
                                 ELSE Cardinality(paused) = 1
           byTrial == /\ ~ bySession /\ (waits => active = {})
                      /\ Cardinality(trials) = 1
           rec == StopRecord(o, asking)
<1>1. /\ rec.state = IF waits THEN "freeze_requested" ELSE "frozen"
      /\ rec.status = IF waits THEN "pending" ELSE "frozen"
      /\ rec.bySession = bySession
      /\ rec.target = IF bySession THEN The(IF waits THEN active ELSE paused)
                      ELSE IF byTrial THEN hold[The(trials)].apparatus ELSE NoApparatus
    BY Zenon DEF StopRecord
<1>2. waits
    <2> HIDE DEF waits
    <2> QED BY <1>1
<1>3. /\ rec.status = "pending"
      /\ rec.bySession = (Cardinality(active) = 1 /\ trials = {})
      /\ rec.target = IF rec.bySession THEN The(active)
                      ELSE IF active = {} /\ Cardinality(trials) = 1 THEN hold[The(trials)].apparatus
                      ELSE NoApparatus
    <2> HIDE DEF waits, active, trials, paused, rec
    <2> QED BY <1>1, <1>2
<1>4. ASSUME NEW h \in HoldIds, Live(h), hold[h].order = o
      PROVE  hold[h].apparatus \in Apparatuses /\ queue[hold[h].apparatus][o] = "print_preflight"
    BY <1>4, RoutesAssumption DEF InStep, RowsInTrial, Inv, Trials, Live
<1>5. CASE active # {}
    <2>1. PICK a \in Apparatuses : session[a][o] = "active"
        BY <1>5 DEF SessionsIn
    <2>2. queue[a][o] = "in_progress" /\ \A b \in Apparatuses : b = a
        BY <2>1 DEF OneMachine, RowsFit, RowFits
    <2>3. trials = {}
        BY <1>4, <2>2 DEF TrialsOf
    <2>4. active = {a}
        BY <2>1, <2>2 DEF SessionsIn
    <2>5. Cardinality(active) = 1 /\ The(active) \in active
        BY <2>4, FS_Singleton, TheOne
    <2> HIDE DEF waits, active, trials, paused, rec
    <2>6. rec.bySession /\ rec.target = a
        BY <1>3, <2>3, <2>4, <2>5
    <2>7. WaitsFor(rec, o, queue, session, hold)
        BY <1>3, <2>1, <2>2, <2>6 DEF WaitsFor
    <2> QED BY <2>3, <2>7 DEF rec, trials
<1>6. CASE active = {}
    <2>1. PICK h : h \in trials
        BY <1>6
    <2>2. h \in HoldIds /\ Live(h) /\ hold[h].order = o
        BY <2>1 DEF TrialsOf
    <2>3. PICK a \in Apparatuses : a = hold[h].apparatus /\ queue[a][o] = "print_preflight"
        BY <1>4, <2>2
    <2>4. \A b \in Apparatuses : b = a
        BY DEF OneMachine
    <2>5. ASSUME NEW k \in HoldIds, Live(k), hold[k].order = o PROVE k = h
        BY <1>4, <2>2, <2>3, <2>4, <2>5 DEF InStep, OneTrial
    <2>6. trials = {h}
        BY <2>1, <2>5 DEF TrialsOf
    <2>7. Cardinality(trials) = 1 /\ The(trials) = h
        BY <2>6, FS_Singleton, TheOne
    <2>8. paused = {}
        BY <2>3, <2>4 DEF SessionsIn, RowsFit, RowFits, Parsed
    <2>9. Working(o)
        <3> HIDE DEF paused, trials, passed
        <3> QED BY <1>2, <2>7, <2>8
    <2>10. hold[h].status = "running"
        <3>1. \A b \in Apparatuses : session[b][o] # "active" /\ queue[b][o] # "in_progress"
            BY <1>6, <2>3, <2>4 DEF SessionsIn
        <3>2. PICK k \in HoldIds : hold[k].order = o /\ hold[k].status = "running"
            BY <2>9, <3>1 DEF Working
        <3> QED BY <2>5, <3>2 DEF Live
    <2>11. passed = {}
        BY <2>6, <2>10
    <2>12. ~ rec.bySession
        BY <1>3, <2>1
    <2>13. rec.target = a
        <3> HIDE DEF waits, active, trials, paused, rec
        <3> QED BY <1>3, <1>6, <2>3, <2>7, <2>12
    <2> HIDE DEF waits, active, trials, paused, rec
    <2>14. WaitsFor(rec, o, queue, session, hold)
        BY <1>3, <2>2, <2>3, <2>10, <2>13 DEF WaitsFor
    <2> QED BY <2>11, <2>14 DEF rec, trials
<1> QED BY <1>5, <1>6

\* What a stop waits for lasts while others work.
LEMMA WaitsLasts ==
    ASSUME NEW c, NEW o, WaitsFor(c, o, queue, session, hold),
           \A a \in Apparatuses : queue'[a][o] = queue[a][o] /\ session'[a][o] = session[a][o],
           \A h \in HoldIds : hold[h].status = "running" /\ hold[h].order = o => hold'[h] = hold[h]
    PROVE  WaitsFor(c, o, queue', session', hold')
BY DEF WaitsFor

\* A transaction on one machine whose order no longer waits.
LEMMA TxAnswers ==
    ASSUME Inv, Answers, NEW a, NEW p, NEW to, NEW sess, NEW h, NEW status, NEW c, NEW sq,
           QueueTx(a, p, to, sess, HoldAfter(h, status), c, sq),
           c.state # "freeze_requested", h \in HoldIds => hold[h].order = p
    PROVE  Answers'
<1>1. Moved(a, p, to, sess, HoldAfter(h, status), c)
    BY QueueTxEffect
<1>2. /\ queue' = [queue EXCEPT ![a][p] = to] /\ session' = [session EXCEPT ![a][p] = sess]
      /\ hold' = HoldAfter(h, status) /\ control' = [control EXCEPT ![p] = c]
    BY <1>1 DEF Moved, Finalized
<1>3. \A k \in HoldIds : k # h => hold'[k] = hold[k]
    BY <1>2, HoldStep DEF Inv
<1> SUFFICES ASSUME NEW o \in Orders, control'[o].state = "freeze_requested"
             PROVE  WaitsFor(control'[o], o, queue', session', hold')
    BY DEF Answers
<1>4. o # p /\ control'[o] = control[o]
    BY <1>2 DEF Inv, Tables
<1>5. \A b \in Apparatuses : queue'[b][o] = queue[b][o] /\ session'[b][o] = session[b][o]
    BY <1>2, <1>4, Row DEF Inv, Tables
<1>6. \A k \in HoldIds : hold[k].order = o => hold'[k] = hold[k]
    BY <1>3, <1>4
<1>7. WaitsFor(control[o], o, queue, session, hold)
    BY <1>4 DEF Answers
<1> QED BY <1>4, <1>5, <1>6, <1>7, WaitsLasts

\* A record that is saved.
LEMMA PutAnswers ==
    ASSUME Inv, Answers, NEW p, NEW c, PutControl(p, c),
           c.state = "freeze_requested" => WaitsFor(c, p, queue, session, hold)
    PROVE  Answers'
<1>1. UNCHANGED <<queue, session, hold>> /\ control' = [control EXCEPT ![p] = c]
    BY DEF PutControl
<1>2. \A o \in Orders : control'[o] = IF o = p THEN c ELSE control[o]
    BY <1>1 DEF Inv, Tables
<1>3. ASSUME NEW o \in Orders, control'[o].state = "freeze_requested"
      PROVE  WaitsFor(control'[o], o, queue, session, hold)
    BY <1>2, <1>3 DEF Answers
<1> QED BY <1>1, <1>3 DEF Answers

\* A trial begun or decided on a machine whose order does not wait.
LEMMA TrialAnswers ==
    ASSUME Inv, Answers, NEW a, NEW p, NEW to, NEW h \in HoldIds,
           queue' = [queue EXCEPT ![a][p] = to], UNCHANGED <<session, control>>,
           \A k \in HoldIds : k # h => hold'[k] = hold[k],
           hold[h].status # "running" \/ hold[h].order = p,
           control[p].state # "freeze_requested"
    PROVE  Answers'
<1> SUFFICES ASSUME NEW o \in Orders, control[o].state = "freeze_requested"
             PROVE  WaitsFor(control[o], o, queue', session', hold')
    BY DEF Answers
<1>1. o # p
    OBVIOUS
<1>2. \A b \in Apparatuses : queue'[b][o] = queue[b][o] /\ session'[b][o] = session[b][o]
    BY <1>1, Row DEF Inv, Tables
<1>3. \A k \in HoldIds : hold[k].status = "running" /\ hold[k].order = o => hold'[k] = hold[k]
    BY <1>1
<1>4. WaitsFor(control[o], o, queue, session, hold)
    BY DEF Answers
<1> QED BY <1>2, <1>3, <1>4, WaitsLasts

\* A row in which nothing runs is of an order that does not wait.
LEMMA NobodyWaits ==
    ASSUME OneMachine, Answers, NEW a \in Apparatuses, NEW o \in Orders,
           queue[a][o] \notin {"print_preflight", "in_progress"}
    PROVE  control[o].state # "freeze_requested"
BY DEF OneMachine, Answers, WaitsFor

\* Every step keeps the stops that wait answerable.
LEMMA NextAnswers ==
    ASSUME OneMachine, Inv, Safe, Orderly, Answerable, Next PROVE Answers'
<1> PICK r \in Requests : Next!(r)
    BY DEF Next
<1>0. Answers
    BY DEF Answerable
<1>1. ASSUME UNCHANGED store PROVE Answers'
    BY <1>0, <1>1 DEF Answers, store
<1>2. PICK w : w = write[r]
    OBVIOUS
<1>3. /\ Bound(pc[r], w) /\ About(pc[r], w, hold) /\ w \in WriteRecord
      /\ StopsShort(pc[r], w, queue, session, hold) /\ Finds(pc[r], w, queue, control)
    BY <1>2 DEF Answerable, Orderly, Safe, Bounds, Bound
<1>4. /\ w.h \in HoldIds \union {NoHold} /\ NoHold \notin HoldIds
      /\ pc[r] # "idle" => w.o \in Orders
      /\ pc[r] = "prepared" => w.a \in Apparatuses
    BY <1>3, RoutesAssumption DEF WriteRecord, Bound
<1>5. CASE Commit(r)
    <2>1. CASE UNCHANGED store
        BY <1>1, <2>1
    <2>2. CASE ~ UNCHANGED store
        <3>1. CommitAllowed(w) /\ w.act \in QueueActs /\ pc[r] = "prepared"
            BY <1>2, <1>5, <2>2 DEF Commit
        <3>2. w.h \in HoldIds => hold[w.h].order = w.o
            BY <1>4, <3>1 DEF CommitAllowed, HoldUsable
        <3>3. CASE w.act = "freeze"
            <4>1. FreezeTx(w.a, w.o, SessionAfter(w), HoldAfter(w.h, "cancelled"), w.ctl)
                BY <1>2, <1>5, <3>1, <3>3 DEF Commit, HoldsAfter
            <4>2. w.ctl.state = "frozen"
                BY <1>3, <3>1, <3>3 DEF StopsShort
            <4> QED BY <1>0, <3>2, <4>1, <4>2, TxAnswers DEF FreezeTx
        <3>4. CASE w.act # "freeze"
            <4>1. \E status : QueueTx(w.a, w.o, w.to, SessionAfter(w), HoldAfter(w.h, status),
                                      control[w.o], seq)
                BY <1>2, <1>5, <3>1, <3>4, Zenon DEF Commit, HoldsAfter
            <4>2. control[w.o].state = "active"
                BY <3>1, <3>4 DEF CommitAllowed, ControlsAllow
            <4> QED BY <1>0, <3>2, <4>1, <4>2, TxAnswers
        <3> QED BY <3>3, <3>4
    <2> QED BY <2>1, <2>2
<1>6. CASE CommitBegin(r)
    <2>1. CASE BeginAllowed(w)
        <3>1. PICK t : /\ hold' = [hold EXCEPT ![w.h] = t]
                       /\ queue' = [queue EXCEPT ![w.a][w.o] = "print_preflight"]
                       /\ UNCHANGED <<session, control>>
                       /\ pc[r] = "prepared" /\ w.act = "begin"
            BY <1>2, <1>6, <2>1, Zenon DEF CommitBegin
        <3>2. CarriesPrepared(w)
            BY <1>2, <3>1 DEF Inv, Carried
        <3>3. /\ w.h \in HoldIds /\ hold[w.h].status = "free"
              /\ queue[w.a][w.o] \in {"none", "pending"}
            BY <2>1, <3>1, <3>2 DEF CarriesPrepared, BeginAllowed
        <3>4. control[w.o].state # "freeze_requested"
            BY <1>0, <1>4, <3>1, <3>3, NobodyWaits
        <3>5. \A k \in HoldIds : k # w.h => hold'[k] = hold[k]
            BY <3>1 DEF Inv, Trials
        <3> QED BY <1>0, <3>1, <3>3, <3>4, <3>5, TrialAnswers
    <2> QED BY <1>1, <1>2, <1>6, <2>1 DEF CommitBegin
<1>7. CASE CommitDecision(r)
    <2>1. CASE DecisionAllowed(w)
        <3>1. PICK to : /\ queue' = [queue EXCEPT ![w.a][w.o] = to] /\ hold' = HoldAfter(w.h, w.to)
                        /\ UNCHANGED <<session, control>>
                        /\ pc[r] = "prepared" /\ w.act = "decide"
            BY <1>2, <1>7, <2>1, Zenon DEF CommitDecision
        <3>2. w.h \in HoldIds /\ hold[w.h].order = w.o
            BY <1>3, <3>1 DEF About, Names
        <3>3. control[w.o].state = "active"
            BY <1>3, <3>1 DEF Finds
        <3>4. \A k \in HoldIds : k # w.h => hold'[k] = hold[k]
            BY <3>1, HoldStep DEF Inv
        <3> QED BY <1>0, <3>1, <3>2, <3>3, <3>4, TrialAnswers
    <2> QED BY <1>1, <1>2, <1>7, <2>1 DEF CommitDecision
<1>8. CASE StopDirect(r)
    <2> DEFINE paused == w.ctl.bySession /\ w.ctl.state = "frozen"
               from == IF w.ctl.target # NoApparatus THEN {w.ctl.target}
                       ELSE {b \in Apparatuses : queue[b][w.o] = "paused"}
               machines == {a \in from : Stoppable(a, w.o, paused, w.h \in w.trials)}
               after(a) == IF w.ctl.bySession THEN "frozen" ELSE session[a][w.o]
    <2>0. pc[r] = "direct"
        BY <1>8, Zenon DEF StopDirect
    <2>1. ASSUME NEW a \in machines, NEW sess, FreezeTx(a, w.o, sess, HoldAfter(w.h, "cancelled"), w.ctl)
          PROVE  Answers'
        <3>1. a \in Apparatuses
            BY <1>3, <2>1 DEF WriteRecord, ControlRecord
        <3>2. Stoppable(a, w.o, paused, w.h \in w.trials)
            BY <2>1
        <3>3. w.ctl.state # "freeze_requested"
            BY <1>3, <2>0, <3>1, <3>2 DEF StopsShort, WaitsFor, OneMachine, Stoppable
        <3>4. w.h \in HoldIds => hold[w.h].order = w.o
            BY <1>3, <1>4, <2>0 DEF About, Names
        <3> QED BY <1>0, <2>1, <3>3, <3>4, TxAnswers DEF FreezeTx
    <2>2. \/ \E a \in machines : FreezeTx(a, w.o, after(a), HoldAfter(w.h, "cancelled"), w.ctl)
          \/ PutControl(w.o, w.ctl)
          \/ UNCHANGED store
        BY <1>2, <1>8, Zenon DEF StopDirect
    <2> HIDE DEF machines, after
    <2>3. PutControl(w.o, w.ctl) => Answers'
        BY <1>0, <1>3, <2>0, PutAnswers DEF StopsShort
    <2> QED BY <1>1, <2>1, <2>2, <2>3
<1>9. ASSUME NEW a \in Apparatuses, RestoreOne(r, a) PROVE Answers'
    <2>1. \/ UNCHANGED store
          \/ /\ queue[a][w.o] = "frozen"
             /\ QueueTx(a, w.o, "pending", ReleasedSession(session[a][w.o]), hold,
                        control[w.o], RestoredSequence(seq, w.o))
        BY <1>2, <1>9, Zenon DEF RestoreOne
    <2>2. w.o \in Orders
        BY <1>2, <1>4, <1>9 DEF RestoreOne
    <2>3. queue[a][w.o] = "frozen" => control[w.o].state # "freeze_requested"
        BY <1>0, <2>2, NobodyWaits
    <2>4. hold = HoldAfter(NoHold, "cancelled")
        BY DEF HoldAfter
    <2> QED BY <1>0, <1>1, <1>4, <2>1, <2>3, <2>4, TxAnswers
<1>10. CASE RestoreDone(r)
    <2>1. pc[r] = "restore" /\ (UNCHANGED store \/ PutControl(w.o, w.ctl))
        BY <1>2, <1>10, Zenon DEF RestoreDone
    <2>2. w.ctl.state = "active"
        BY <1>3, <2>1 DEF StopsShort
    <2> QED BY <1>0, <1>1, <2>1, <2>2, PutAnswers
<1>11. CASE \/ StopPublish(r) \/ \E h \in HoldIds : StopTrial(r, h)
            \/ \E a \in Apparatuses : StopStage(r, a)
            \/ StopSettle(r)
    <2>1. pc[r] \in {"publish", "trials", "stages"}
        BY <1>11, Zenon DEF StopPublish, StopTrial, StopStage, StopSettle
    <2> QED BY <1>3, <2>1 DEF StopsShort
<1>12. ASSUME NEW o \in Orders, UpgradeToClose(r, o) PROVE Answers'
    <2>1. PICK x, c : /\ c = [control[o] EXCEPT !.close = x] /\ PutControl(o, c)
        BY <1>12, Zenon DEF UpgradeToClose
    <2>2. control[o] \in ControlRecord
        BY DEF Safe, TypeOK
    <2>3. /\ c.state = control[o].state /\ c.status = control[o].status
          /\ c.target = control[o].target /\ c.bySession = control[o].bySession
        BY <2>1, <2>2 DEF ControlRecord
    <2>4. c.state = "freeze_requested" => WaitsFor(c, o, queue, session, hold)
        BY <1>0, <2>3 DEF Answers, WaitsFor
    <2> QED BY <1>0, <2>1, <2>4, PutAnswers
<1>13. CASE \E a \in Apparatuses, o \in Orders : \E wish : MoveSequence(r, a, o, wish)
    BY <1>0, <1>13 DEF MoveSequence, Answers
<1> QED
    BY <1>1, <1>5, <1>6, <1>7, <1>8, <1>9, <1>10, <1>11, <1>12, <1>13, ZenonT(60)
       DEF AskStart, PrepareFreeze, PrepareBegin, PrepareResume, PrepareReport, AskDecision,
           StopBegin, RestoreBegin, Withdraw, PrepareStart, PrepareDecision, StopTrialsDone,
           Crash

\* What a request that goes on carries of the stop it makes or withdraws.
Short(r) ==
    \/ UNCHANGED <<pc, write>> /\ pc[r] = "idle"
    \/ \E at, w : Enter(r, at, w) /\ StopsShort(at, w, queue', session', hold')

\* Every step is one of these.
LEMMA ShortAll ==
    ASSUME OneMachine, Inv, Safe, InStep, RowsFit, Answerable, Next PROVE \E r \in Requests : Short(r)
<1> PICK r \in Requests : Next!(r)
    BY DEF Next
<1> SUFFICES Short(r)
    OBVIOUS
<1>0. ASSUME NEW at, NEW w, Enter(r, at, w), StopsShort(at, w, queue', session', hold') PROVE Short(r)
    BY <1>0 DEF Short
<1>1. ASSUME NEW at \in {"idle", "asked"}, NEW w, Enter(r, at, w) PROVE Short(r)
    BY <1>1 DEF Short, StopsShort
<1>2. ASSUME NEW w, Enter(r, "prepared", w), w.act # "freeze" PROVE Short(r)
    BY <1>2 DEF Short, StopsShort
<1>3. ASSUME NEW a \in Apparatuses, NEW o \in Orders, NEW h \in HoldIds \union {NoHold},
             PrepareFreeze(r, a, o, h)
      PROVE  Short(r)
    <2>1. PICK b, d, w : /\ b = [Command("freeze", a, o, h) EXCEPT !.from = queue[a][o]]
                         /\ d = [b EXCEPT !.to = "frozen"]
                         /\ w = [d EXCEPT !.ctl = Acknowledged(a, o)]
        OBVIOUS
    <2>2. DOMAIN b = DOMAIN NoWrite
        BY <2>1, Commands
    <2>3. DOMAIN d = DOMAIN NoWrite
        BY <2>1, <2>2
    <2>4. w.ctl = Acknowledged(a, o)
        BY <2>1, <2>3, WriteFields
    <2>5. Enter(r, "prepared", w)
        BY <1>3, <2>1, Zenon DEF PrepareFreeze
    <2>6. ASSUME NEW k \in HoldIds, hold[k].status = "running" PROVE hold[k].apparatus = a
        BY <2>6, RoutesAssumption DEF OneMachine, Inv, Trials
    <2>7. Acknowledged(a, o) = FrozenNow(control[o])
        <3>1. ~ \E b2 \in Apparatuses \ {a} : session[b2][o] = "active"
            BY DEF OneMachine
        <3>2. ~ \E k \in HoldIds : /\ hold[k].status = "running" /\ hold[k].order = o
                                   /\ hold[k].apparatus # a
            BY <2>6
        <3> QED BY <3>1, <3>2, Zenon DEF Acknowledged
    <2>8. w.ctl.state = "frozen"
        <3>1. control[o] \in ControlRecord
            BY DEF Safe, TypeOK
        <3> QED BY <2>4, <2>7, <3>1, FrozenNowType
    <2>9. StopsShort("prepared", w, queue', session', hold')
        BY <2>8 DEF StopsShort
    <2> QED BY <1>0, <2>5, <2>9
<1>4. ASSUME NEW a \in Apparatuses, NEW o \in Orders, NEW h \in HoldIds, PrepareBegin(r, a, o, h)
      PROVE  Short(r)
    <2>1. PICK w : w = [Command("begin", a, o, h) EXCEPT !.from = queue[a][o]]
        OBVIOUS
    <2>2. w.act = "begin"
        BY <2>1, Commands, WriteFields
    <2> QED BY <1>2, <1>4, <2>1, <2>2 DEF PrepareBegin
<1>5. ASSUME NEW a \in Apparatuses, NEW o \in Orders, NEW act \in {"pause", "complete"},
             NEW to \in Reported(act), PrepareReport(r, act, a, o, to)
      PROVE  Short(r)
    <2>1. PICK b, w : /\ b = [Command(act, a, o, NoHold) EXCEPT !.from = queue[a][o]]
                      /\ w = [b EXCEPT !.to = to]
        OBVIOUS
    <2>2. w.act = act
        BY <2>1, Commands, WriteFields
    <2>3. Enter(r, "prepared", w)
        BY <1>5, <2>1, Zenon DEF PrepareReport
    <2> QED BY <1>2, <2>2, <2>3
<1>6. ASSUME NEW a \in Apparatuses, NEW o \in Orders, PrepareResume(r, a, o) PROVE Short(r)
    <2>1. PICK w : w = Witnessed(Command("resume", a, o, NoHold))
        OBVIOUS
    <2>2. w.act = "resume"
        BY <2>1, Commands, Witnesses
    <2> QED BY <1>2, <1>6, <2>1, <2>2 DEF PrepareResume
<1>7. CASE PrepareStart(r)
    <2>1. PICK w : w = Witnessed(write[r])
        OBVIOUS
    <2>2. write[r] \in WriteRecord /\ write[r].act = "start"
        BY <1>7 DEF PrepareStart, Safe, Bounds, Bound
    <2>3. DOMAIN write[r] = DOMAIN NoWrite
        BY <2>2 DEF WriteRecord, NoWrite
    <2>4. w.act = "start"
        BY <2>1, <2>2, <2>3, Witnesses
    <2> QED BY <1>2, <1>7, <2>1, <2>4 DEF PrepareStart
<1>8. CASE PrepareDecision(r)
    BY <1>2, <1>8 DEF PrepareDecision
<1>9. ASSUME NEW o \in Orders, NEW asking \in BOOLEAN, StopBegin(r, o, asking) PROVE Short(r)
    <2>1. PICK rec, passed : /\ rec = StopRecord(o, asking)
                             /\ passed = {h \in TrialsOf(o) : hold[h].status = "passed"}
        OBVIOUS
    <2>2. /\ UNCHANGED <<queue, session, hold>>
          /\ rec.state = "freeze_requested" => SessionsIn(o, {"active"}) # {} \/ TrialsOf(o) # {}
        BY <1>9, <2>1, Zenon DEF StopBegin, store
    <2>3. rec.state = "freeze_requested" => WaitsFor(rec, o, queue, session, hold) /\ passed = {}
        BY <2>1, <2>2, StopWaits
    <2>4. PICK h, c, W, S :
              /\ c = Command("stop", NoApparatus, o, h)
              /\ Enter(r, IF rec.state = "freeze_requested" /\ passed # {} THEN "publish" ELSE "direct",
                       [c EXCEPT !.ctl = rec, !.trials = passed, !.working = W, !.stages = S])
        BY <1>9, <2>1, Zenon DEF StopBegin
    <2>5. Enter(r, "direct", [c EXCEPT !.ctl = rec, !.trials = passed, !.working = W, !.stages = S])
        BY <2>3, <2>4
    <2>6. PICK x, y : x = [c EXCEPT !.ctl = rec] /\ y = [x EXCEPT !.trials = passed]
        OBVIOUS
    <2>7. PICK z, v : z = [y EXCEPT !.working = W] /\ v = [z EXCEPT !.stages = S]
        OBVIOUS
    <2>8. DOMAIN c = DOMAIN NoWrite /\ c.o = o
        BY <2>4, Commands
    <2>9. x.ctl = rec /\ x.o = o /\ DOMAIN x = DOMAIN NoWrite
        BY <2>6, <2>8, WriteFields
    <2>10. y.ctl = rec /\ y.o = o /\ y.trials = passed
        <3>1. "trials" \in DOMAIN NoWrite
            BY DEF NoWrite
        <3> QED BY <2>6, <2>9, <3>1
    <2>11. v.ctl = rec /\ v.o = o /\ v.trials = passed
        BY <2>7, <2>10
    <2>12. Enter(r, "direct", v)
        BY <2>5, <2>6, <2>7, Zenon
    <2>13. StopsShort("direct", v, queue', session', hold')
        BY <2>2, <2>3, <2>11 DEF StopsShort
    <2> QED BY <1>0, <2>12, <2>13
<1>10. ASSUME NEW o \in Orders, RestoreBegin(r, o) PROVE Short(r)
    <2>1. PICK c, S, st, d, e :
              /\ c = Command("restore", NoApparatus, o, NoHold)
              /\ d = [control[o] EXCEPT !.state = "active"] /\ e = [d EXCEPT !.status = st]
              /\ Enter(r, "restore", [c EXCEPT !.stages = S, !.ctl =
                                        [control[o] EXCEPT !.state = "active", !.status = st]])
        BY <1>10, Zenon DEF RestoreBegin
    <2>2. PICK x, v : x = [c EXCEPT !.stages = S] /\ v = [x EXCEPT !.ctl = e]
        OBVIOUS
    <2>3. DOMAIN c = DOMAIN NoWrite
        BY <2>1, Commands
    <2>4. DOMAIN x = DOMAIN NoWrite
        BY <2>2, <2>3
    <2>5. v.ctl = e
        BY <2>2, <2>4, WriteFields
    <2>6. e.state = "active"
        <3>1. control[o] \in ControlRecord
            BY DEF Safe, TypeOK
        <3>2. d.state = "active"
            BY <2>1, <3>1 DEF ControlRecord
        <3> QED BY <2>1, <3>2
    <2>7. Enter(r, "restore", v)
        BY <2>1, <2>2, Zenon
    <2>8. StopsShort("restore", v, queue', session', hold')
        BY <2>5, <2>6 DEF StopsShort
    <2> QED BY <1>0, <2>7, <2>8
<1>11. ASSUME NEW a \in Apparatuses, RestoreOne(r, a) PROVE Short(r)
    <2>1. CASE Leave(r)
        BY <1>1, <2>1 DEF Leave
    <2>2. CASE ~ Leave(r)
        <3>1. PICK x, v : /\ x = write[r].stages \ {a} /\ v = [write[r] EXCEPT !.stages = x]
            OBVIOUS
        <3>2. Enter(r, "restore", v) /\ pc[r] = "restore"
            BY <1>11, <2>2, <3>1, Zenon DEF RestoreOne
        <3>3. v.ctl = write[r].ctl
            BY <3>1
        <3>4. write[r].ctl.state = "active"
            BY <3>2 DEF Answerable, StopsShort
        <3>5. StopsShort("restore", v, queue', session', hold')
            BY <3>3, <3>4 DEF StopsShort
        <3> QED BY <1>0, <3>2, <3>5
    <2> QED BY <2>1, <2>2
<1>12. CASE \/ StopPublish(r) \/ \E h \in HoldIds : StopTrial(r, h)
            \/ StopTrialsDone(r) \/ \E a \in Apparatuses : StopStage(r, a)
            \/ StopSettle(r)
    <2>1. pc[r] \in {"publish", "trials", "stages"}
        BY <1>12, Zenon DEF StopPublish, StopTrial, StopTrialsDone, StopStage, StopSettle
    <2> QED BY <2>1 DEF Answerable, StopsShort
<1>13. CASE \/ \E a \in Apparatuses, o \in Orders, h \in HoldIds \union {NoHold} : AskStart(r, a, o, h)
            \/ \E h \in HoldIds, to \in HoldStates : AskDecision(r, h, to)
    <2>1. \E w : Enter(r, "asked", w)
        BY <1>13, Zenon DEF AskStart, AskDecision
    <2> QED BY <1>1, <2>1
<1>14. CASE \/ Withdraw(r) \/ Commit(r) \/ CommitBegin(r) \/ CommitDecision(r)
            \/ StopDirect(r) \/ RestoreDone(r) \/ Crash(r)
    <2>1. Leave(r)
        BY <1>14, Zenon DEF Withdraw, Commit, CommitBegin, CommitDecision, StopDirect,
                            RestoreDone, Crash
    <2> QED BY <1>1, <2>1 DEF Leave
<1>15. CASE \/ \E o \in Orders : UpgradeToClose(r, o)
            \/ \E a \in Apparatuses, o \in Orders : \E wish : MoveSequence(r, a, o, wish)
    BY <1>15 DEF UpgradeToClose, MoveSequence, Short
<1> QED
    BY <1>3, <1>4, <1>5, <1>6, <1>7, <1>8, <1>9, <1>10, <1>11, <1>12, <1>13, <1>14, <1>15

\* On one machine, with requests one at a time or concurrent in one process
\* without colour trials, every stop that waits has a worker who can acknowledge
\* it, whether it is to close the order or could be withdrawn, and through
\* requests cut short (request_order_stop, prepare_direct_freeze_queue_write):
\* the record names the machine that works, nobody ends that work without the
\* acknowledgement, and no trial is decided while its order is being stopped.  On
\* several machines a close cut short breaks this, and so does a second process,
\* which pauses what the stop has counted as running.
THEOREM StopsAreAnswered == Serial /\ OneMachine => (Spec => []StopHasAWayOut)
<1> SUFFICES ASSUME Serial, OneMachine PROVE Spec => []StopHasAWayOut
    OBVIOUS
<1>0. OneProcess
    BY DEF Serial, OneRequest, OneProcess
<1>1. Init => Answerable
    <2> SUFFICES ASSUME Init PROVE Answerable
        OBVIOUS
    <2>1. \A o \in Orders : control[o].state = "active"
        BY DEF Init, NoControl
    <2>2. \A r \in Requests : pc[r] = "idle"
        BY DEF Init
    <2> QED BY <2>1, <2>2 DEF Answerable, Answers, StopsShort
<1>2. Inv /\ Safe /\ InStep /\ RowsFit /\ Alike /\ Orderly /\ Answerable /\ [Next]_vars => Answerable'
    <2> SUFFICES ASSUME Inv, Safe, InStep, RowsFit, Alike, Orderly, Answerable, [Next]_vars
                 PROVE  Answerable'
        OBVIOUS
    <2>1. CASE UNCHANGED vars
        BY <2>1 DEF vars, store, Answerable, Answers, StopsShort
    <2>2. CASE Next
        <3>1. Answers'
            BY <2>2, NextAnswers
        <3>2. ASSUME NEW q \in Requests
              PROVE  StopsShort(pc'[q], write'[q], queue', session', hold')
            <4>0. PICK r \in Requests : Short(r)
                BY <2>2, ShortAll
            <4>1. CASE r # q
                <5>1. pc'[q] = pc[q] /\ write'[q] = write[q]
                    BY <4>0, <4>1 DEF Short, Enter, Inv, Tables
                <5>2. StopsShort(pc[q], write[q], queue, session, hold)
                    BY DEF Answerable
                <5>3. pc[q] = "direct" => UNCHANGED <<queue, session, hold>>
                    BY <1>0, <2>2, <5>1, AloneUndisturbed DEF Safe, Bounds, Bound, Holding
                <5> QED BY <5>1, <5>2, <5>3 DEF StopsShort
            <4>2. CASE UNCHANGED <<pc, write>> /\ pc[q] = "idle"
                BY <4>2 DEF StopsShort
            <4>3. ASSUME NEW at, NEW w, Enter(q, at, w), StopsShort(at, w, queue', session', hold')
                  PROVE  StopsShort(pc'[q], write'[q], queue', session', hold')
                <5>1. pc'[q] = at /\ write'[q] = w
                    BY <4>3 DEF Enter, Inv, Tables
                <5> QED BY <4>3, <5>1
            <4> QED BY <4>0, <4>1, <4>2, <4>3 DEF Short
        <3> QED BY <3>1, <3>2 DEF Answerable
    <2> QED BY <2>1, <2>2
<1>4. Spec => [](InStep /\ RowsFit /\ Alike /\ Orderly)
    BY <1>0, InStepAlways, RunsKeepTheirRows, AlikeAlways, OrderlyAlways, PTL
<1>5. Safe /\ Answerable => StopHasAWayOut
    <2> SUFFICES ASSUME Safe, Answerable, NEW o \in Orders, control[o].state = "freeze_requested"
                 PROVE  \E a \in Apparatuses : MayAcknowledge(a, o)
        BY DEF StopHasAWayOut
    <2>1. WaitsFor(control[o], o, queue, session, hold)
        BY DEF Answerable, Answers
    <2>2. PICK a \in Apparatuses :
              /\ control[o].target \in {NoApparatus, a}
              /\ \/ /\ queue[a][o] = "print_preflight"
                    /\ \E h \in HoldIds : RunningTrial(a, o, h)
                 \/ /\ queue[a][o] = "in_progress" /\ session[a][o] = "active"
                    /\ control[o].target = NoApparatus \/ control[o].bySession
        BY <2>1 DEF WaitsFor, RunningTrial
    <2>3. PICK s : s = Line(a)
        OBVIOUS
    <2>4. seq[a] \in Seq(Orders) /\ Arrival \in Seq(Orders)
        BY RoutesAssumption DEF Safe, TypeOK
    <2>5. s \in Seq(Orders) /\ ToSet(s) = ToSet(Arrival) \ FrozenOrders
        BY <2>3, <2>4, EffectiveElements DEF Line
    <2>6. o \in ToSet(Arrival) /\ o \notin FrozenOrders
        BY <2>4, RoutesAssumption, ElementsType DEF FrozenOrders
    <2>7. Contains(Line(a), o)
        BY <2>3, <2>5, <2>6, ElementsType
    <2>8. MayAcknowledge(a, o)
        BY <2>1, <2>2, <2>7 DEF MayAcknowledge, WaitsFor, Open
    <2> QED BY <2>8
<1> QED BY <1>1, <1>2, <1>4, <1>5, Inductive, SafeAlways, PTL DEF Spec

=============================================================================
