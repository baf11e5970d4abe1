------------------------------- MODULE Weighing -------------------------------
(***************************************************************************)
(* Weighing raw material: an owner's batch, the labels printed in it, the  *)
(* receipt drawn up for each label and the stock the receipt books.        *)
(* (core/rps_batch, db/postgres_rps_batch.rs, db/postgres_gscale_receipt*, *)
(* crates/mini_rs_gscale_domain/src/service/, http/handlers/rps_batch.rs)  *)
(*                                                                         *)
(* Starting, updating and stopping a batch hold the lifecycle lock for     *)
(* writing and are one step each.  A print operation holds it for reading  *)
(* from the check of its batch to its answer, so operations overlap each   *)
(* other: each statement they send is a step, and any of them may be       *)
(* dropped between two steps.  A label is printed by the driver during     *)
(* the operation, or by the client, who prepares it first and confirms it  *)
(* afterwards, as often as it gets no answer.  The direct print knows no   *)
(* batch: its receipt is recorded by a task that runs beside the printer.  *)
(*                                                                         *)
(* Goods stands for everything a batch fixes about its labels (item,       *)
(* warehouse, dimensions); quantities and order assignments are left out.  *)
(***************************************************************************)
EXTENDS Integers, FiniteSets

CONSTANTS
    Batches,        \* the ids clients give to batches
    Epcs,           \* label codes
    DirectEpcs,     \* those among them the direct print may draw
    Operations,     \* requests in flight
    Goods,
    None,
    MaxRevision     \* bound on the updates of a batch

ASSUME ConstantsAssumption ==
    /\ DirectEpcs \subseteq Epcs
    /\ MaxRevision \in Nat \ {0}
    /\ None \notin Batches \cup Epcs \cup Goods

\* None is no row of a table.
ASSUME NoneAssumption ==
    /\ None \notin [id : Batches, code : Nat, revision : Nat, active : BOOLEAN,
                   goods : Goods, prints : SUBSET Epcs]
    /\ None \notin [by : {"client", "driver", "direct"}, batch : Batches \cup {None},
                   revision : Nat, goods : Goods]

\* There are finitely many ids to give to batches.
ASSUME BatchesAssumption == IsFiniteSet(Batches)

VARIABLES
    current,        \* the owner's row of mini_rps_batches, or None
    history,        \* batch -> the prints its row of mini_rps_batch_history lists
    identities,     \* batch -> its code in mini_rps_batch_identities, or 0
    receipts,       \* epc -> [status, goods] of mini_gscale_receipts
    stock,          \* epc -> [status, goods] of mini_raw_material_stock
    labels,         \* epc -> the label stuck on a roll, or None
    op,             \* operation -> the state of its handler
    direct,         \* epc -> [pc, print, goods]: recording task and its channel
    answered,       \* history variable: <<batch, epc>> answered with success
    shared          \* history variable: EPCs two operations worked on at once

batchVars == <<current, history, identities>>
stockVars == <<receipts, stock>>
vars == <<batchVars, stockVars, labels, op, direct, answered, shared>>

NoRow == [status |-> "none", goods |-> None]
Idle == [pc |-> "idle", by |-> "driver", batch |-> None, epc |-> None,
         goods |-> None, draft |-> NoRow]
NoTask == [pc |-> "none", print |-> "none", goods |-> None]

Init ==
    /\ current = None
    /\ history = [b \in Batches |-> {}]
    /\ identities = [b \in Batches |-> 0]
    /\ receipts = [e \in Epcs |-> NoRow]
    /\ stock = [e \in Epcs |-> NoRow]
    /\ labels = [e \in Epcs |-> None]
    /\ op = [p \in Operations |-> Idle]
    /\ direct = [e \in Epcs |-> NoTask]
    /\ answered = {}
    /\ shared = {}

-----------------------------------------------------------------------------
(* The batch store: put and complete, one transaction each.                *)

\* reserve_batch_identity: an id keeps the code it was first stored with, and
\* a code its id.
Reserves(b) ==
    /\ identities[b.id] \in {0, b.code}
    /\ \A other \in Batches \ {b.id} : identities[other] # b.code

Put(b) ==
    /\ Reserves(b)
    /\ identities' = [identities EXCEPT ![b.id] = b.code]
    /\ current' = b
    /\ UNCHANGED history

Complete(b) ==
    /\ Reserves(b)
    /\ identities' = [identities EXCEPT ![b.id] = b.code]
    /\ current' = b
    /\ history' = [history EXCEPT ![b.id] = b.prints]

-----------------------------------------------------------------------------
(* The life of a batch, under the lifecycle lock held for writing.         *)

WriteLockIgnored == TRUE

\* No operation holds the lifecycle lock for reading.
WriteLock == \A p \in Operations : op[p].pc = "idle"

Active == current # None /\ current.active

\* new_batch_code: a code no batch has.
NewCode == 1 + Cardinality({b \in Batches : identities[b] # 0})

Start(b, g) ==
    /\ WriteLock
    /\ ~Active
    /\ Put([id |-> b, code |-> NewCode, revision |-> 1, active |-> TRUE,
            goods |-> g, prints |-> {}])
    /\ UNCHANGED <<stockVars, labels, op, direct, answered, shared>>

AcceptsAnyRevision(b, revision) == Active /\ current.id = b

\* validate_update_context, validate_print_context, and validate_stop_context
\* of an active batch: a request names the batch and the revision it saw.
Accepts(b, revision) ==
    /\ Active
    /\ current.id = b
    /\ current.revision = revision

Update(b, revision, g) ==
    /\ WriteLock
    /\ Accepts(b, revision)
    /\ current.revision < MaxRevision
    /\ Put([current EXCEPT !.goods = g, !.revision = @ + 1])
    /\ UNCHANGED <<stockVars, labels, op, direct, answered, shared>>

\* Stopping a stopped batch again answers and changes nothing.
Stop(b, revision) ==
    /\ WriteLock
    /\ Accepts(b, revision)
    /\ Complete([current EXCEPT !.active = FALSE, !.revision = @ + 1])
    /\ UNCHANGED <<stockVars, labels, op, direct, answered, shared>>

-----------------------------------------------------------------------------
(* Labels.                                                                 *)

\* next_epc: a code nothing was printed or stored with.
Fresh(e) ==
    /\ labels[e] = None
    /\ receipts[e] = NoRow
    /\ direct[e] = NoTask
    /\ \A p \in Operations : op[p].epc # e

Label(by, b, revision, g) == [by |-> by, batch |-> b, revision |-> revision, goods |-> g]

\* client_print_prepare answers with a code and the batch's goods; the client
\* prints the label and keeps the context it was prepared in.
Prepare(e, b, revision) ==
    /\ Accepts(b, revision)
    /\ Fresh(e)
    /\ labels' = [labels EXCEPT ![e] = Label("client", b, revision, current.goods)]
    /\ UNCHANGED <<batchVars, stockVars, op, direct, answered, shared>>

\* client_print_confirm, with the context of the preparation: the first time,
\* or again.  The goods are the batch's, whatever the label says.
Confirm(p, e) ==
    /\ op[p].pc = "idle"
    /\ labels[e] # None /\ labels[e].by = "client"
    /\ Accepts(labels[e].batch, labels[e].revision)
    /\ op' = [op EXCEPT ![p] = [Idle EXCEPT !.pc = "draft", !.by = "client", !.epc = e,
                                            !.batch = current.id, !.goods = current.goods]]
    /\ shared' = shared \cup (IF \E q \in Operations : op[q].epc = e THEN {e} ELSE {})
    /\ UNCHANGED <<batchVars, stockVars, labels, direct, answered>>

\* print: the batch is checked and the driver is asked.
AskDriver(p, b, revision) ==
    /\ op[p].pc = "idle"
    /\ Accepts(b, revision)
    /\ op' = [op EXCEPT ![p] = [Idle EXCEPT !.pc = "print", !.batch = b,
                                            !.goods = current.goods]]
    /\ UNCHANGED <<batchVars, stockVars, labels, direct, answered, shared>>

DriverPrints(p, e) ==
    /\ op[p].pc = "print"
    /\ Fresh(e)
    /\ labels' = [labels EXCEPT ![e] = Label("driver", op[p].batch, 0, op[p].goods)]
    /\ op' = [op EXCEPT ![p].pc = "draft", ![p].epc = e]
    /\ UNCHANGED <<batchVars, stockVars, direct, answered, shared>>

\* An error: what is left to do is to fail the batch.
Fails(p) == op' = [op EXCEPT ![p] = [Idle EXCEPT !.pc = "fail", !.batch = op[p].batch]]

\* The driver answers with an error, or not at all; a label may have come out.
DriverFails(p) ==
    /\ op[p].pc = "print"
    /\ Fails(p)
    /\ \/ UNCHANGED labels
       \/ \E e \in Epcs :
            /\ Fresh(e)
            /\ labels' = [labels EXCEPT ![e] = Label("driver", op[p].batch, 0, op[p].goods)]
    /\ UNCHANGED <<batchVars, stockVars, direct, answered, shared>>

-----------------------------------------------------------------------------
(* record_confirmed_material_receipt, statement by statement.              *)

Goto(p, pc) == op' = [op EXCEPT ![p].pc = pc, ![p].draft = NoRow]

ReadDraft(p) ==
    /\ op[p].pc = "draft"
    /\ op' = [op EXCEPT ![p].pc = "stock", ![p].draft = receipts[op[p].epc]]
    /\ UNCHANGED <<batchVars, stockVars, labels, direct, answered, shared>>

\* raw_material_stock_by_barcode finds the stock, unless it was deleted.
Booked(e) == stock[e].status \notin {"none", "deleted"}

\* The receipt already booked is the answer; a draft already drawn up is
\* submitted; both must describe the same goods.
ReadStock(p) ==
    LET o == op[p] IN
    /\ o.pc = "stock"
    /\ IF Booked(o.epc)
       THEN IF stock[o.epc].goods = o.goods THEN Goto(p, "record") ELSE Fails(p)
       ELSE IF o.draft = NoRow
            THEN Goto(p, "create")
            ELSE IF o.draft.goods = o.goods THEN Goto(p, "submit") ELSE Fails(p)
    /\ UNCHANGED <<batchVars, stockVars, labels, direct, answered, shared>>

\* create_material_receipt_draft: a deleted roll is refused ...
CheckDeleted(p) ==
    /\ op[p].pc = "create"
    /\ IF stock[op[p].epc].status = "deleted" THEN Fails(p) ELSE Goto(p, "upsert")
    /\ UNCHANGED <<batchVars, stockVars, labels, direct, answered, shared>>

\* ... and the upsert makes the receipt a draft again, whatever it was.
CreateDraft(p) ==
    /\ op[p].pc = "upsert"
    /\ receipts' = [receipts EXCEPT ![op[p].epc] = [status |-> "draft", goods |-> op[p].goods]]
    /\ Goto(p, "submit")
    /\ UNCHANGED <<batchVars, stock, labels, direct, answered, shared>>

SubmitsAnything(e) == receipts[e].status = "draft"

Submits(e) == receipts[e].status = "draft" /\ stock[e].status # "deleted"

\* submit_stock_entry_draft and upsert_raw_material_stock_tx, one transaction.
Book(e) ==
    /\ receipts' = [receipts EXCEPT ![e].status = "submitted"]
    /\ stock' = [stock EXCEPT ![e] = [status |-> "available", goods |-> receipts[e].goods]]

Submit(p) ==
    /\ op[p].pc = "submit"
    /\ IF Submits(op[p].epc) THEN Book(op[p].epc) /\ Goto(p, "record")
                             ELSE Fails(p) /\ UNCHANGED stockVars
    /\ UNCHANGED <<batchVars, labels, direct, answered, shared>>

-----------------------------------------------------------------------------
(* The end of an operation.                                                *)

PutAlways(b) == Put(b)

\* record_print keeps an active batch, or one that another operation failed
\* meanwhile, where it belongs.
Save(b) == IF b.active THEN Put(b) ELSE Complete(b)

\* record_print, and the answer.  A driver print of several labels goes on
\* with the next one.
Record(p) ==
    LET o == op[p] IN
    /\ o.pc = "record"
    /\ current # None /\ current.id = o.batch
    /\ IF o.epc \in current.prints
       THEN UNCHANGED batchVars
       ELSE Save([current EXCEPT !.prints = @ \cup {o.epc}])
    /\ answered' = answered \cup {<<o.batch, o.epc>>}
    /\ \/ op' = [op EXCEPT ![p] = Idle]
       \/ o.by = "driver"
          /\ op' = [op EXCEPT ![p] = [Idle EXCEPT !.pc = "print", !.batch = o.batch,
                                                  !.goods = o.goods]]
    /\ UNCHANGED <<stockVars, labels, direct, shared>>

\* Failing a batch that is failed or stopped already leaves its revision.
FailedRevision == IF current.active THEN current.revision + 1 ELSE current.revision

\* fail_batch_after_operation_error: the operation's error ends the batch.
FailBatch(p) ==
    /\ op[p].pc = "fail"
    /\ current # None /\ current.id = op[p].batch
    /\ Complete([current EXCEPT !.active = FALSE, !.revision = FailedRevision])
    /\ op' = [op EXCEPT ![p] = Idle]
    /\ UNCHANGED <<stockVars, labels, direct, answered, shared>>

\* The connection closes and the handler is dropped, or a statement of its
\* last step fails: the guard goes, what was committed stays.
Drop(p) ==
    /\ op[p].pc # "idle"
    /\ op' = [op EXCEPT ![p] = Idle]
    /\ UNCHANGED <<batchVars, stockVars, labels, direct, answered, shared>>

\* A statement of the recording fails: the batch is failed.
StoreFails(p) ==
    /\ op[p].pc \in {"draft", "stock", "create", "upsert", "submit"}
    /\ Fails(p)
    /\ UNCHANGED <<batchVars, stockVars, labels, direct, answered, shared>>

-----------------------------------------------------------------------------
(* The direct print: a task records the receipt while the printer works.   *)

DirectPrint(e, g) ==
    /\ e \in DirectEpcs
    /\ Fresh(e)
    /\ direct' = [direct EXCEPT ![e] = [pc |-> "create", print |-> "pending", goods |-> g]]
    /\ UNCHANGED <<batchVars, stockVars, labels, op, answered, shared>>

DirectPrinted(e) ==
    /\ direct[e].print = "pending"
    /\ direct' = [direct EXCEPT ![e].print = "ok"]
    /\ labels' = [labels EXCEPT ![e] = Label("direct", None, 0, direct[e].goods)]
    /\ UNCHANGED <<batchVars, stockVars, op, answered, shared>>

\* The driver fails, or the handler is dropped with its end of the channel; a
\* label may have come out all the same.
DirectFailed(e) ==
    /\ direct[e].print = "pending"
    /\ direct' = [direct EXCEPT ![e].print = "failed"]
    /\ labels' \in {labels, [labels EXCEPT ![e] = Label("direct", None, 0, direct[e].goods)]}
    /\ UNCHANGED <<batchVars, stockVars, op, answered, shared>>

TaskDrafts(e) ==
    /\ direct[e].pc = "create"
    /\ receipts' = [receipts EXCEPT ![e] = [status |-> "draft", goods |-> direct[e].goods]]
    /\ direct' = [direct EXCEPT ![e].pc = "wait"]
    /\ UNCHANGED <<batchVars, stock, labels, op, answered, shared>>

\* print_result_rx.await.unwrap_or(false)
WasPrinted(e) == direct[e].print = "ok"

TaskEnds(e) ==
    /\ direct[e].pc = "wait" /\ direct[e].print # "pending"
    /\ IF WasPrinted(e)
       THEN Submits(e) /\ Book(e)
       ELSE receipts' = [receipts EXCEPT ![e] = NoRow] /\ UNCHANGED stock
    /\ direct' = [direct EXCEPT ![e].pc = "done"]
    /\ UNCHANGED <<batchVars, labels, op, answered, shared>>

\* A statement of the task fails; nobody but the log learns of it.
TaskFails(e) ==
    /\ direct[e].pc \in {"create", "wait"}
    /\ direct' = [direct EXCEPT ![e].pc = "done"]
    /\ UNCHANGED <<batchVars, stockVars, labels, op, answered, shared>>

-----------------------------------------------------------------------------

\* The process restarts: handlers and tasks are gone.
Restart ==
    /\ op' = [p \in Operations |-> Idle]
    /\ direct' = [e \in Epcs |-> IF direct[e] = NoTask THEN NoTask
                                 ELSE [direct[e] EXCEPT !.pc = "done", !.print = "failed"]]
    /\ UNCHANGED <<batchVars, stockVars, labels, answered, shared>>

-----------------------------------------------------------------------------
(* What becomes of the stock.                                              *)

Moves(e, from, to) ==
    /\ stock[e].status = from
    /\ stock' = [stock EXCEPT ![e].status = to]
    /\ UNCHANGED <<batchVars, receipts, labels, op, direct, answered, shared>>

\* mark_raw_material_stock_in_use; the step from there to consumed does not
\* matter to weighing.
Use(e) == Moves(e, "available", "used")

\* soft_delete_raw_material_stock
Delete(e) == Moves(e, "available", "deleted")

-----------------------------------------------------------------------------

Next ==
    \/ \E b \in Batches, g \in Goods : Start(b, g)
    \/ \E b \in Batches, r \in 1 .. MaxRevision :
        \/ \E g \in Goods : Update(b, r, g)
        \/ Stop(b, r)
        \/ \E e \in Epcs : Prepare(e, b, r)
        \/ \E p \in Operations : AskDriver(p, b, r)
    \/ \E p \in Operations :
        \/ \E e \in Epcs : Confirm(p, e) \/ DriverPrints(p, e)
        \/ DriverFails(p)
        \/ ReadDraft(p) \/ ReadStock(p) \/ CheckDeleted(p) \/ CreateDraft(p) \/ Submit(p)
        \/ Record(p) \/ FailBatch(p) \/ Drop(p) \/ StoreFails(p)
    \/ \E e \in DirectEpcs :
        \/ \E g \in Goods : DirectPrint(e, g)
        \/ DirectPrinted(e) \/ DirectFailed(e)
        \/ TaskDrafts(e) \/ TaskEnds(e) \/ TaskFails(e)
    \/ \E e \in Epcs : Use(e) \/ Delete(e)
    \/ Restart

Spec == Init /\ [][Next]_vars

-----------------------------------------------------------------------------
(* Properties.                                                             *)

\* Every row has its type: a batch code is given once (reserve_batch_identity),
\* and failing a batch again does not raise its revision.
TypeOK ==
    /\ current = None \/
       current \in [id : Batches, code : 1 .. Cardinality(Batches), active : BOOLEAN,
                    revision : 1 .. MaxRevision + 1, goods : Goods, prints : SUBSET Epcs]
    /\ history \in [Batches -> SUBSET Epcs]
    /\ identities \in [Batches -> 0 .. Cardinality(Batches)]
    /\ \A e \in Epcs :
        /\ receipts[e] = NoRow \/ receipts[e] \in [status : {"draft", "submitted"}, goods : Goods]
        /\ stock[e] = NoRow \/
           stock[e] \in [status : {"available", "used", "deleted"}, goods : Goods]
    /\ answered \subseteq Batches \X Epcs

\* An operation keeps its batch: from the check of material_receipt_request to
\* the answer no other batch takes the owner's row, whatever other operations
\* fail meanwhile, so record_print and fail_batch never answer a label already
\* printed and booked with batch_context_conflict.
OperationKeepsItsBatch ==
    \A p \in Operations :
        op[p].pc # "idle" => current # None /\ current.id = op[p].batch

\* The prints the owner is shown of a batch: the current row while it is active,
\* the history row afterwards.
Shown(b) == IF Active /\ current.id = b THEN current.prints ELSE history[b]

\* A print answered with success is listed in its batch for ever, also when
\* another operation failed the batch before record_print, and after the next
\* batch has replaced the row.
EveryPrintIsListed == \A answer \in answered : answer[2] \in Shown(answer[1])

\* What is booked is what the label on the roll says: nothing is booked for a
\* label that was not printed, and a batch updated between the client's
\* preparation and its confirmation books nothing under the old label.
StockMatchesItsLabel ==
    \A e \in Epcs : stock[e] # NoRow => labels[e] # None /\ labels[e].goods = stock[e].goods

\* A retried confirmation books nothing again: a deleted roll stays deleted, and
\* a roll in use or consumed does not become available, unless two operations
\* worked on its code at the same time.
BookedOnce ==
    [][\A e \in Epcs :
        /\ stock[e].status = "deleted" => stock'[e] = stock[e]
        /\ stock[e].status = "used" /\ stock'[e].status = "available"
            => e \in shared]_vars

==============================================================================
