-------------------------------- MODULE Tooling --------------------------------
(***************************************************************************)
(* Printing molds ("qolip"): the warehouse that issues them, takes them    *)
(* back, sends them to rework, packs and archives them, and the printing   *)
(* orders that own them while they are open.                               *)
(* (core/qolip, db/postgres_qolip, db/postgres_production_map/qolip,       *)
(* migrations 0165 and 0174, http queue_action_execution.rs)               *)
(*                                                                         *)
(* A warehouse command is one transaction.  A start or resume looks the    *)
(* molds up, reads the order's session and commits; an administrator's     *)
(* freeze reads the session and commits.  Warehouse commands, and queue    *)
(* actions on the machines of other processes, fall between any two of     *)
(* these steps; on its own machine a queue action is alone, by the guard   *)
(* of its process and by the commit's check of the queue it read.  A       *)
(* refused or dropped request leaves nothing behind.                       *)
(*                                                                         *)
(* Every order here has a machine of its own, whose queue holds other work *)
(* too: of that queue only its head matters.  A mold of Stock 0 is known   *)
(* to the catalogue only and never issued.  An order keeps the one set of  *)
(* molds its product needs.                                                *)
(***************************************************************************)
EXTENDS Integers, FiniteSets

CONSTANTS
    Molds,
    Orders,
    Workers,
    Needs,          \* order -> the molds of its set
    Stock,          \* mold -> 1 when the warehouse received it, else 0
    Strict,         \* the orders whose machine takes work from the head only
    None

ASSUME ToolingAssumption ==
    /\ Needs \in [Orders -> SUBSET Molds]
    /\ Stock \in [Molds -> {0, 1}]
    /\ Strict \subseteq Orders
    /\ None \notin Workers

VARIABLES
    shelf,          \* mold -> quantity of its row of mini_qolip_locations
    issued,         \* mold -> worker -> open rows of mini_qolip_checkouts
    away,           \* molds with an open row of mini_qolip_reworks
    stored,         \* mold -> "free", "packed" (on the pallet) or "archived"
    pallet,         \* the pallet: locked, archived
    session,        \* order -> its row of mini_order_run_sessions
    first,          \* the orders at the head of their machine's queue
    req             \* order -> the queue action under way on it, or None

warehouseVars == <<shelf, issued, away, stored, pallet>>
queueVars == <<session, first, req>>
vars == <<warehouseVars, queueVars>>

NoSession == [status |-> "none", owner |-> FALSE, worker |-> None, released |-> "no"]

Init ==
    /\ shelf = Stock
    /\ issued = [m \in Molds |-> [w \in Workers |-> 0]]
    /\ away = {}
    /\ stored = [m \in Molds |-> "free"]
    /\ pallet = [locked |-> FALSE, archived |-> FALSE]
    /\ session = [o \in Orders |-> NoSession]
    /\ first \in SUBSET Orders
    /\ req = [o \in Orders |-> None]

-----------------------------------------------------------------------------
(* What the statements on a mold look at.                                  *)

OpenStatus == {"active", "paused", "frozen"}

\* An open session whose payload says qolip_lock_owner, and lists the mold.
Owns(o, m) ==
    /\ session[o].status \in OpenStatus
    /\ session[o].owner
    /\ m \in Needs[o]

Owners(m) == {o \in Orders : Owns(o, m)}

CheckedOut(m) == \E w \in Workers : issued[m][w] > 0

\* The triggers on locations and checkouts: mini_qolip_guard_rework_code and
\* mini_qolip_guard_storage_code.
Writable(m) == m \notin away /\ stored[m] = "free"

\* product_transfer::reject_in_use, and is_in_use of the pallet's molds.
InUse(m) == CheckedOut(m) \/ Owners(m) # {}

Released(s) == s.released # "no"

-----------------------------------------------------------------------------
(* Warehouse commands.                                                     *)

Issue(m, w) ==
    /\ Owners(m) = {}
    /\ Writable(m)
    /\ shelf[m] > 0
    /\ shelf' = [shelf EXCEPT ![m] = @ - 1]
    /\ issued' = [issued EXCEPT ![m][w] = @ + 1]
    /\ UNCHANGED <<away, stored, pallet, queueVars>>

\* blocks_return: a running order, or the paused order at the queue's head.
BlocksReturn(o) ==
    \/ session[o].status = "active"
    \/ session[o].status = "paused" /\ o \in first

Return(m, w) ==
    /\ issued[m][w] > 0
    /\ Writable(m)
    /\ \A o \in Owners(m) : ~ BlocksReturn(o)
    /\ shelf' = [shelf EXCEPT ![m] = @ + 1]
    /\ issued' = [issued EXCEPT ![m][w] = @ - 1]
    /\ session' = [o \in Orders |->
          IF o \in Owners(m)
            THEN [session[o] EXCEPT !.owner = FALSE, !.released = "return"]
            ELSE session[o]]
    /\ UNCHANGED <<away, stored, pallet, first, req>>

Send(m) ==
    /\ Writable(m)
    /\ ~ InUse(m)
    /\ away' = away \cup {m}
    /\ UNCHANGED <<shelf, issued, stored, pallet, queueVars>>

Receive(m) ==
    /\ m \in away
    /\ stored[m] = "free"
    /\ away' = away \ {m}
    /\ UNCHANGED <<shelf, issued, stored, pallet, queueVars>>

AvailableWithoutSessions(m) == Writable(m) /\ ~ CheckedOut(m)

\* check_available.
Available(m) == Writable(m) /\ ~ InUse(m)

Packed == {m \in Molds : stored[m] = "packed"}

Pack(m) ==
    /\ ~ pallet.archived /\ ~ pallet.locked
    /\ Available(m)
    /\ stored' = [stored EXCEPT ![m] = "packed"]
    /\ UNCHANGED <<shelf, issued, away, pallet, queueVars>>

Unpack(m) ==
    /\ ~ pallet.archived /\ ~ pallet.locked
    /\ m \in Packed
    /\ stored' = [stored EXCEPT ![m] = "free"]
    /\ UNCHANGED <<shelf, issued, away, pallet, queueVars>>

LockPallet ==
    /\ ~ pallet.archived /\ ~ pallet.locked
    /\ Packed # {}
    /\ pallet' = [pallet EXCEPT !.locked = TRUE]
    /\ UNCHANGED <<shelf, issued, away, stored, queueVars>>

UnlockPallet ==
    /\ ~ pallet.archived /\ pallet.locked
    /\ pallet' = [pallet EXCEPT !.locked = FALSE]
    /\ UNCHANGED <<shelf, issued, away, stored, queueVars>>

ArchivePallet ==
    /\ ~ pallet.archived
    /\ Packed # {}
    /\ \A m \in Packed : ~ InUse(m) /\ m \notin away
    /\ pallet' = [pallet EXCEPT !.archived = TRUE]
    /\ UNCHANGED <<shelf, issued, away, stored, queueVars>>

RestorePallet ==
    /\ pallet.archived
    /\ pallet' = [pallet EXCEPT !.archived = FALSE]
    /\ UNCHANGED <<shelf, issued, away, stored, queueVars>>

Archive(m) ==
    /\ Available(m)
    /\ stored' = [stored EXCEPT ![m] = "archived"]
    /\ UNCHANGED <<shelf, issued, away, pallet, queueVars>>

Restore(m) ==
    /\ stored[m] = "archived"
    /\ ~ InUse(m) /\ m \notin away
    /\ stored' = [stored EXCEPT ![m] = "free"]
    /\ UNCHANGED <<shelf, issued, away, pallet, queueVars>>

-----------------------------------------------------------------------------
(* Start and resume: look the molds up, read the session, commit.          *)

\* qolip_validation_required_for_action.
NeedsMolds(s) == s.status = "none" \/ Released(s)

\* prepare_qolip_for_order_start and reject_qolip_in_use, for one mold.
Usable(o, m, w) ==
    /\ Owners(m) \subseteq {o}
    /\ stored[m] = "free"
    /\ \A v \in Workers : issued[m][v] > 0 => v = w /\ shelf[m] = 0

\* A mold on the shelf is to be checked out with the order; one the worker
\* holds already, or the catalogue only knows, is not.
Prepare(o, w) ==
    /\ req[o] = None
    /\ session[o].status \in {"none", "paused"}
    /\ o \in Strict => o \in first
    /\ Needs[o] \cap away = {}
    /\ NeedsMolds(session[o]) => \A m \in Needs[o] : Usable(o, m, w)
    /\ req' = [req EXCEPT ![o] =
          [pc     |-> "prepared", worker |-> w, molds |-> NeedsMolds(session[o]),
           take   |-> {m \in Needs[o] : NeedsMolds(session[o]) /\ shelf[m] > 0},
           reacquires |-> FALSE, session |-> NoSession]]
    /\ UNCHANGED <<warehouseVars, session, first>>

\* The session as the action will write it: molds that were looked up are
\* attached to it (attach_qolip_set_details), others stay as they were read.
Read(o) ==
    /\ req[o] # None /\ req[o].pc = "prepared"
    /\ req' = [req EXCEPT
          ![o].pc = "read",
          ![o].reacquires = req[o].molds /\ Released(session[o]),
          ![o].session =
             [status   |-> "active",
              owner    |-> req[o].molds \/ session[o].owner,
              worker   |-> req[o].worker,
              released |-> IF req[o].molds THEN "no" ELSE session[o].released]]
    /\ UNCHANGED <<warehouseVars, session, first>>

AnyResume(o, s, reacquires) == TRUE

\* validate_returned_qolip_resume_tx: the warehouse took the molds back.
ResumeIsCurrent(o, s, reacquires) ==
    session[o].released = "return" => reacquires /\ s.owner /\ ~ Released(s)

HoldsWithoutOwners(o) == \A m \in Needs[o] : Writable(m)

\* reject_qolip_in_use_tx, for a session that owns its molds.
Holds(o) == \A m \in Needs[o] : Writable(m) /\ Owners(m) \subseteq {o}

OnShelfUnread(ms) == TRUE

\* save_checkout_tx finds the mold on the shelf.
OnShelf(ms) == \A m \in ms : shelf[m] > 0

\* validate_reacquired_qolip_checkouts_tx, on what this transaction wrote.
Reacquired(o, w) ==
    \A m \in Needs[o] :
        \/ issued'[m][w] > 0
        \/ shelf'[m] = 0 /\ \A v \in Workers : issued'[m][v] = 0

Commit(o) ==
    /\ req[o] # None /\ req[o].pc = "read"
    /\ ResumeIsCurrent(o, req[o].session, req[o].reacquires)
    /\ Needs[o] \cap away = {}
    /\ req[o].session.owner => Holds(o)
    /\ OnShelf(req[o].take)
    /\ shelf' = [m \in Molds |-> IF m \in req[o].take THEN shelf[m] - 1 ELSE shelf[m]]
    /\ issued' = [m \in Molds |->
          IF m \in req[o].take
            THEN [issued[m] EXCEPT ![req[o].worker] = @ + 1] ELSE issued[m]]
    /\ req[o].reacquires => Reacquired(o, req[o].worker)
    /\ session' = [session EXCEPT ![o] = req[o].session]
    /\ req' = [req EXCEPT ![o] = None]
    /\ UNCHANGED <<away, stored, pallet, first>>

\* A check refuses the request, or it is dropped.
Abandon(o) ==
    /\ req[o] # None
    /\ req' = [req EXCEPT ![o] = None]
    /\ UNCHANGED <<warehouseVars, session, first>>

-----------------------------------------------------------------------------
(* The other queue actions.                                                *)

\* A return that leaves the checkout open.
TakesBackOpen(o, w) ==
    /\ shelf' = [m \in Molds |->
          IF m \in Needs[o] THEN shelf[m] + issued[m][w] ELSE shelf[m]]
    /\ UNCHANGED issued

\* return_stopped_session_checkouts_tx: every open checkout its worker has of
\* the session's molds goes back to the shelf.
TakesBack(o, w) ==
    /\ \A m \in Needs[o] : issued[m][w] > 0 => Writable(m)
    /\ shelf' = [m \in Molds |->
          IF m \in Needs[o] THEN shelf[m] + issued[m][w] ELSE shelf[m]]
    /\ issued' = [m \in Molds |->
          IF m \in Needs[o] THEN [issued[m] EXCEPT ![w] = 0] ELSE issued[m]]

\* A freeze that returns checkouts however often it is repeated.
PutFrozenAgain(o, s) ==
    /\ TakesBack(o, s.worker)
    /\ session' = [session EXCEPT ![o] =
          IF s.owner THEN [s EXCEPT !.owner = FALSE, !.released = "freeze"] ELSE s]

\* put_order_run_session_tx of a frozen session.
PutFrozen(o, s) ==
    /\ IF session[o].released # "freeze" /\ (s.owner \/ Released(s))
         THEN TakesBack(o, s.worker)
         ELSE UNCHANGED <<shelf, issued>>
    /\ session' = [session EXCEPT ![o] =
          IF s.owner THEN [s EXCEPT !.owner = FALSE, !.released = "freeze"] ELSE s]

Running(o) == req[o] = None /\ session[o].status = "active"

Pause(o, w) ==
    /\ Running(o)
    /\ session[o].owner => Holds(o)
    /\ session' = [session EXCEPT ![o].status = "paused", ![o].worker = w]
    /\ UNCHANGED <<warehouseVars, first, req>>

Complete(o, w) ==
    /\ Running(o)
    /\ session' = [session EXCEPT ![o].status = "completed", ![o].worker = w]
    /\ IF session[o].owner THEN TakesBack(o, w) ELSE UNCHANGED <<shelf, issued>>
    /\ first' = first \ {o}
    /\ UNCHANGED <<away, stored, pallet, req>>

Freeze(o, w) ==
    /\ Running(o)
    /\ session[o].owner => Holds(o)
    /\ PutFrozen(o, [session[o] EXCEPT !.status = "frozen", !.worker = w])
    /\ first' = first \ {o}
    /\ UNCHANGED <<away, stored, pallet, req>>

\* request_order_stop of an order with one paused session.
ReadFreeze(o) ==
    /\ req[o] = None
    /\ session[o].status = "paused"
    /\ LET frozen == [session[o] EXCEPT !.status = "frozen"]
       IN  req' = [req EXCEPT ![o] =
             [pc |-> "freeze", worker |-> session[o].worker, molds |-> FALSE,
              take |-> {}, reacquires |-> FALSE,
              session |-> IF frozen.owner
                THEN [frozen EXCEPT !.owner = FALSE, !.released = "freeze"]
                ELSE frozen]]
    /\ UNCHANGED <<warehouseVars, session, first>>

CommitFreeze(o) ==
    /\ req[o] # None /\ req[o].pc = "freeze"
    /\ PutFrozen(o, req[o].session)
    /\ first' = first \ {o}
    /\ req' = [req EXCEPT ![o] = None]
    /\ UNCHANGED <<away, stored, pallet>>

\* unfrozen_order_run_session: paused again, at the tail.
Unfreeze(o) ==
    /\ req[o] = None
    /\ session[o].status = "frozen"
    /\ session' = [session EXCEPT ![o].status = "paused"]
    /\ UNCHANGED <<warehouseVars, first, req>>

\* Other work of the machine goes ahead of the order, which a running order
\* prevents (Barrier of QueueRules), or leaves it at the head.
Overtaken(o) ==
    /\ req[o] = None
    /\ o \in first
    /\ session[o].status \in {"none", "paused"}
    /\ first' = first \ {o}
    /\ UNCHANGED <<warehouseVars, session, req>>

ComesFirst(o) ==
    /\ req[o] = None
    /\ o \notin first
    /\ session[o].status \in {"none", "active", "paused"}
    /\ first' = first \cup {o}
    /\ UNCHANGED <<warehouseVars, session, req>>

Next ==
    \/ \E m \in Molds :
          \/ \E w \in Workers : Issue(m, w) \/ Return(m, w)
          \/ Send(m) \/ Receive(m)
          \/ Pack(m) \/ Unpack(m) \/ Archive(m) \/ Restore(m)
    \/ LockPallet \/ UnlockPallet \/ ArchivePallet \/ RestorePallet
    \/ \E o \in Orders :
          \/ \E w \in Workers :
                Prepare(o, w) \/ Pause(o, w) \/ Complete(o, w) \/ Freeze(o, w)
          \/ Read(o) \/ Commit(o) \/ Abandon(o)
          \/ ReadFreeze(o) \/ CommitFreeze(o) \/ Unfreeze(o)
          \/ Overtaken(o) \/ ComesFirst(o)

Spec == Init /\ [][Next]_vars

-----------------------------------------------------------------------------
(* Properties.                                                             *)

Sessions == [status : OpenStatus \cup {"none", "completed"}, owner : BOOLEAN,
             worker : Workers \cup {None}, released : {"no", "freeze", "return"}]

Requests == [pc : {"prepared", "read", "freeze"}, worker : Workers, molds : BOOLEAN,
             take : SUBSET Molds, reacquires : BOOLEAN, session : Sessions]

\* Every variable has its type: no quantity on the shelf goes below zero, and
\* a queue has only open orders that are not frozen at its head.
TypeOK ==
    /\ shelf \in [Molds -> Nat]
    /\ issued \in [Molds -> [Workers -> Nat]]
    /\ away \subseteq Molds
    /\ stored \in [Molds -> {"free", "packed", "archived"}]
    /\ pallet \in [locked : BOOLEAN, archived : BOOLEAN]
    /\ session \in [Orders -> Sessions]
    /\ first \subseteq {o \in Orders : session[o].status \in {"none", "active", "paused"}}
    /\ req \in [Orders -> Requests \cup {None}]

\* A mold belongs to one open order at most (reject_qolip_in_use_tx), though
\* any number of orders looked it up while it was free.
OneOwner == \A m \in Molds : Cardinality(Owners(m)) <= 1

\* While an open order owns a mold it is neither in rework, nor on the pallet,
\* nor archived: the warehouse's checks and the order's transaction exclude
\* each other both ways.
OwnedIsAvailable == \A m \in Molds : Owners(m) # {} => Writable(m)

\* A mold is on the shelf or with one worker, never in two places and never in
\* none: checkout, return, and the returns a freeze or a completion makes on
\* its own (save_checkout_tx, restore_checkout_location_tx) conserve it.
MoldsConserved ==
    \A m \in Molds :
        \/ shelf[m] = Stock[m] /\ ~ CheckedOut(m)
        \/ /\ Stock[m] = 1
           /\ shelf[m] = 0
           /\ \E w \in Workers : issued[m] = [v \in Workers |-> IF v = w THEN 1 ELSE 0]

\* An order that gave its molds up, to a freeze or to the warehouse, runs
\* again only with every physical mold of its set issued to the worker who
\* resumes it, whatever the warehouse did since the resume looked them up.
ResumesWithItsMolds ==
    [][\A o \in Orders :
          Released(session[o]) /\ session'[o].status = "active"
            => \A m \in Needs[o] : Stock[m] = 0 \/ issued'[m][session'[o].worker] > 0]_vars

\* The freeze that closes a checkout of another order: the warehouse took the
\* molds of o back, they were issued again, and o is frozen afterwards.
FreezesReturned(o, m) ==
    /\ m \in Needs[o]
    /\ session[o].released = "return"
    /\ session[o].status = "paused" /\ session'[o].status = "frozen"

\* A running order keeps its molds: neither the warehouse nor another order's
\* pause, completion or repeated freeze (put_order_run_session_tx, "A repeated
\* freeze must not return a later checkout of the same molds") closes the
\* checkout of a mold it owns.  The one exception the code makes is explicit.
RunningOrderKeepsItsMolds ==
    [][\A o \in Orders, m \in Molds :
          /\ Owns(o, m) /\ CheckedOut(m)
          /\ session[o].status = "active" /\ session'[o].status = "active"
          => CheckedOut(m)' \/ \E p \in Orders \ {o} : FreezesReturned(p, m)]_vars

=============================================================================
