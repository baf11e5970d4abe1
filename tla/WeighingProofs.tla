---------------------------- MODULE WeighingProofs ----------------------------
(***************************************************************************)
(* Proofs about Weighing, for any batches, labels, operations and goods.   *)
(***************************************************************************)
EXTENDS Weighing, FiniteSetTheorems, TLAPS

(***************************************************************************)
(* Types, of the variables TypeOK leaves out too.                          *)
(***************************************************************************)

BatchRows == [id : Batches, code : Nat, revision : Nat, active : BOOLEAN,
              goods : Goods, prints : SUBSET Epcs]
LabelRows == [by : {"client", "driver", "direct"}, batch : Batches \cup {None},
              revision : Nat, goods : Goods]
ReceiptRows == [status : {"none", "draft", "submitted"}, goods : Goods \cup {None}]
StockRows == [status : {"none", "available", "used", "deleted"}, goods : Goods \cup {None}]
Steps == {"idle", "print", "draft", "stock", "create", "upsert", "submit", "record", "fail"}
Handlers == [pc : Steps, by : {"driver", "client"}, batch : Batches \cup {None},
             epc : Epcs \cup {None}, goods : Goods \cup {None}, draft : ReceiptRows]
Tasks == [pc : {"none", "create", "wait", "done"},
          print : {"none", "pending", "ok", "failed"}, goods : Goods \cup {None}]

Typed ==
    /\ current \in BatchRows \cup {None}
    /\ history \in [Batches -> SUBSET Epcs]
    /\ identities \in [Batches -> Nat]
    /\ receipts \in [Epcs -> ReceiptRows]
    /\ stock \in [Epcs -> StockRows]
    /\ labels \in [Epcs -> LabelRows \cup {None}]
    /\ op \in [Operations -> Handlers]
    /\ direct \in [Epcs -> Tasks]
    /\ answered \subseteq Batches \X Epcs

(***************************************************************************)
(* The inductive invariant.                                                *)
(***************************************************************************)

Used == {b \in Batches : identities[b] # 0}

\* A code is never larger than the number of ids that have one, so the next
\* code is new.
CodesSound ==
    /\ IsFiniteSet(Used)
    /\ \A b \in Batches : identities[b] <= Cardinality(Used)

\* The owner's row carries the code its id was stored with; a batch that ended
\* is listed in the history as it stands.
BatchSound ==
    current # None =>
        /\ current.code # 0
        /\ identities[current.id] = current.code
        /\ current.revision \in 1 .. MaxRevision + 1
        /\ current.active => current.revision <= MaxRevision
        /\ ~ current.active => history[current.id] = current.prints

\* An answered print belongs to a batch that has a code, and is listed.
Listed(b, e) ==
    /\ identities[b] # 0
    /\ current # None /\ current.id = b => e \in current.prints
    /\ ~ (Active /\ current.id = b) => e \in history[b]

AnswersSound == \A b \in Batches, e \in Epcs : <<b, e>> \in answered => Listed(b, e)

\* A label the client prepared: its batch has a code, and while the batch has
\* the revision the label was prepared under, it has the label's goods.
Prepared(l) ==
    /\ l.batch \in Batches
    /\ identities[l.batch] # 0
    /\ current # None /\ current.id = l.batch =>
        /\ l.revision <= current.revision
        /\ l.revision = current.revision => l.goods = current.goods

LabelSound(e) == labels[e] # None /\ labels[e].by = "client" => Prepared(labels[e])

\* A code drawn by the direct print has no label but that print's.
TaskSound(e) ==
    /\ direct[e].pc = "none" => direct[e].print = "none" /\ direct[e].goods = None
    /\ direct[e].pc # "none" => direct[e].goods \in Goods
    /\ labels[e] # None =>
        /\ direct[e].pc # "none" => labels[e].by = "direct" /\ labels[e].goods = direct[e].goods
        /\ labels[e].by = "direct" => direct[e].pc # "none"
    /\ direct[e].print = "ok" => labels[e] # None
    /\ direct[e].pc \in {"create", "wait"} => stock[e] = NoRow

\* A receipt describes the goods on the label, or what the direct print is
\* about to print.
ReceiptSound(e) ==
    /\ receipts[e] # NoRow =>
        /\ receipts[e].status # "none"
        /\ receipts[e].goods \in Goods
        /\ labels[e] # None => labels[e].goods = receipts[e].goods
        /\ labels[e] = None => direct[e].pc # "none" /\ direct[e].goods = receipts[e].goods

\* Stock is what its label says (StockMatchesItsLabel, for one label).
StockSound(e) ==
    stock[e] # NoRow =>
        /\ stock[e].status # "none"
        /\ labels[e] # None
        /\ labels[e].goods = stock[e].goods

\* An operation keeps its batch, works on a label that carries its goods, and
\* is about to book only what is not booked, unless another one works on the
\* same label.
HandlerSound(r) ==
    /\ r.pc # "idle" => current # None /\ current.id = r.batch
    /\ r.pc \in {"idle", "print", "fail"} => r.epc = None
    /\ r.pc \notin {"idle", "fail"} => r.goods \in Goods
    /\ r.pc \notin {"idle", "print", "fail"} =>
        /\ r.epc \in Epcs
        /\ labels[r.epc] # None
        /\ labels[r.epc].goods = r.goods
        /\ labels[r.epc].by # "direct"
    /\ r.pc \in {"create", "upsert", "submit"} /\ r.epc \notin shared
        => stock[r.epc].status \in {"none", "deleted"}

\* Two operations on one label are recorded.
Alone ==
    \A p, q \in Operations :
        op[p].epc = op[q].epc /\ op[p].epc \in Epcs /\ op[p].epc \notin shared => p = q

IInv ==
    /\ Typed
    /\ CodesSound
    /\ BatchSound
    /\ AnswersSound
    /\ \A e \in Epcs : LabelSound(e) /\ TaskSound(e) /\ ReceiptSound(e) /\ StockSound(e)
    /\ \A p \in Operations : HandlerSound(op[p])
    /\ Alone

-----------------------------------------------------------------------------
(***************************************************************************)
(* The steps, by what they change.                                         *)
(***************************************************************************)

\* The life of a batch.
Rebatches ==
    \/ \E b \in Batches, g \in Goods : Start(b, g)
    \/ \E b \in Batches, r \in 1 .. MaxRevision :
        Stop(b, r) \/ \E g \in Goods : Update(b, r, g)

\* A step within a handler.
Advances(p) ==
    \/ \E b \in Batches, r \in 1 .. MaxRevision : AskDriver(p, b, r)
    \/ \E e \in Epcs : Confirm(p, e)
    \/ ReadDraft(p) \/ ReadStock(p) \/ CheckDeleted(p) \/ Drop(p) \/ StoreFails(p)

Ends(p) == Record(p) \/ FailBatch(p)

Writes(p) == CreateDraft(p) \/ Submit(p)

Labels ==
    \/ \E e \in Epcs, b \in Batches, r \in 1 .. MaxRevision : Prepare(e, b, r)
    \/ \E p \in Operations : DriverFails(p) \/ \E e \in Epcs : DriverPrints(p, e)

Directs(e) ==
    \/ \E g \in Goods : DirectPrint(e, g)
    \/ DirectPrinted(e) \/ DirectFailed(e)
    \/ TaskDrafts(e) \/ TaskEnds(e) \/ TaskFails(e)

\* Every step is one of these.
LEMMA StepCases ==
    ASSUME [Next]_vars
    PROVE  \/ UNCHANGED vars
           \/ Rebatches
           \/ \E p \in Operations : Advances(p) \/ Ends(p) \/ Writes(p)
           \/ Labels
           \/ \E e \in Epcs : Directs(e)
           \/ \E e \in Epcs : Use(e) \/ Delete(e)
           \/ Restart
<1>1. DirectEpcs \subseteq Epcs
  BY ConstantsAssumption
<1> QED  BY <1>1, Zenon DEF Next, Rebatches, Advances, Ends, Writes, Labels, Directs

\* What each kind leaves alone.
LEMMA RebatchesFrame ==
    ASSUME Rebatches
    PROVE  UNCHANGED <<receipts, stock, labels, op, direct, answered, shared>>
BY DEF Rebatches, Start, Stop, Update, stockVars

\* What the steps of an operation between its writes leave alone.
LEMMA AdvancesFrame ==
    ASSUME NEW p \in Operations, Advances(p)
    PROVE  UNCHANGED <<current, history, identities, receipts, stock, labels, direct, answered>>
BY DEF Advances, AskDriver, Confirm, ReadDraft, ReadStock, CheckDeleted, Drop, StoreFails,
       batchVars, stockVars

\* What recording or failing a batch leaves alone.
LEMMA EndsFrame ==
    ASSUME NEW p \in Operations, Ends(p)
    PROVE  UNCHANGED <<receipts, stock, labels, direct, shared>>
BY DEF Ends, Record, FailBatch, stockVars

\* What the writes of a booking leave alone.
LEMMA WritesFrame ==
    ASSUME NEW p \in Operations, Writes(p)
    PROVE  UNCHANGED <<current, history, identities, labels, direct, answered, shared>>
BY DEF Writes, CreateDraft, Submit, batchVars

\* What the steps of the label printer leave alone.
LEMMA LabelsFrame ==
    ASSUME Labels
    PROVE  UNCHANGED <<current, history, identities, receipts, stock, direct, answered, shared>>
BY DEF Labels, Prepare, DriverFails, DriverPrints, batchVars, stockVars

\* What the steps of a direct print task leave alone.
LEMMA DirectsFrame ==
    ASSUME NEW e \in Epcs, Directs(e)
    PROVE  UNCHANGED <<current, history, identities, op, answered, shared>>
BY DEF Directs, DirectPrint, DirectPrinted, DirectFailed, TaskDrafts, TaskEnds, TaskFails, batchVars

\* What using or deleting a roll leaves alone.
LEMMA MovesFrame ==
    ASSUME NEW e \in Epcs, Use(e) \/ Delete(e)
    PROVE  UNCHANGED <<current, history, identities, receipts, labels, op, direct, answered, shared>>
BY DEF Use, Delete, Moves, batchVars

\* What a restart of the server leaves alone.
LEMMA RestartFrame ==
    ASSUME Restart
    PROVE  UNCHANGED <<current, history, identities, receipts, stock, labels, answered, shared>>
BY DEF Restart, batchVars, stockVars

\* A stuttering step changes nothing.
LEMMA StutterFrame ==
    ASSUME UNCHANGED vars
    PROVE  UNCHANGED <<current, history, identities, receipts, stock, labels, op, direct, answered,
                       shared>>
BY DEF vars, batchVars, stockVars

-----------------------------------------------------------------------------
(***************************************************************************)
(* The owner's row, the history and the identities.                        *)
(***************************************************************************)

\* A batch row is no None.
LEMMA RowIsNotNone ==
    \A r \in BatchRows : r # None
BY NoneAssumption DEF BatchRows

\* The next code is a number no id has.
LEMMA NewCodeIsNew ==
    ASSUME Typed, CodesSound
    PROVE  /\ NewCode = 1 + Cardinality(Used)
           /\ Cardinality(Used) \in Nat
           /\ \A b \in Batches : identities[b] # NewCode
<1>1. NewCode = 1 + Cardinality(Used)
  BY DEF NewCode, Used
<1>2. Cardinality(Used) \in Nat
  BY FS_CardinalityType DEF CodesSound
<1>3. \A b \in Batches : identities[b] # NewCode
  BY <1>1, <1>2 DEF CodesSound, Typed
<1> QED  BY <1>1, <1>2, <1>3

\* A new batch takes the row.
Begins ==
    /\ WriteLock
    /\ ~ Active
    /\ \E b \in Batches, g \in Goods :
        /\ identities[b] = 0
        /\ current' = [id |-> b, code |-> NewCode, revision |-> 1, active |-> TRUE,
                       goods |-> g, prints |-> {}]
        /\ identities' = [identities EXCEPT ![b] = NewCode]
    /\ UNCHANGED <<history, answered>>

\* The batch in the row goes on: its prints and its revision grow, and it ends
\* with the history row that lists what it lists.
Continues ==
    /\ current # None
    /\ current' \in BatchRows
    /\ current'.id = current.id
    /\ current'.code = current.code
    /\ current'.active => current.active
    /\ current'.revision \in 1 .. MaxRevision + 1
    /\ current'.active => current'.revision <= MaxRevision
    /\ current.revision <= current'.revision
    /\ current'.revision = current.revision => current'.goods = current.goods
    /\ current.prints \subseteq current'.prints
    /\ identities' = identities
    /\ \/ current'.active /\ history' = history
       \/ /\ ~ current'.active
          /\ history' = [history EXCEPT ![current.id] = current'.prints]
    /\ \A b \in Batches, e \in Epcs :
        <<b, e>> \in answered' => (<<b, e>> \in answered \/ (b = current.id /\ e \in current'.prints))

\* What is written to the row of the same batch keeps the identities.
LEMMA SameIdentity ==
    ASSUME IInv, current # None, NEW b \in BatchRows, b.id = current.id, b.code = current.code
    PROVE  /\ current \in BatchRows
           /\ current.id \in Batches
           /\ Put(b) => identities' = identities /\ current' = b /\ history' = history
           /\ Complete(b) => /\ identities' = identities
                             /\ current' = b
                             /\ history' = [history EXCEPT ![current.id] = b.prints]
<1>1. current \in BatchRows
  BY DEF IInv, Typed
<1>2. current.id \in Batches
  BY <1>1 DEF BatchRows
<1>3. identities[b.id] = b.code
  BY DEF IInv, BatchSound
<1>4. [identities EXCEPT ![b.id] = b.code] = identities
  BY <1>2, <1>3 DEF IInv, Typed
<1> QED  BY <1>1, <1>2, <1>4 DEF Put, Complete

\* Starting takes an id that has no code.
LEMMA StartBegins ==
    ASSUME IInv, NEW b \in Batches, NEW g \in Goods, Start(b, g)
    PROVE  Begins
<1> DEFINE r == [id |-> b, code |-> NewCode, revision |-> 1, active |-> TRUE,
                 goods |-> g, prints |-> {}]
<1>1. Put(r) /\ UNCHANGED answered /\ WriteLock /\ ~ Active
  BY DEF Start
<1>2. identities[b] # NewCode
  BY NewCodeIsNew DEF IInv
<1>3. identities[b] = 0
  BY <1>1, <1>2 DEF Put, Reserves
<1>4. current' = r /\ identities' = [identities EXCEPT ![b] = NewCode] /\ UNCHANGED history
  BY <1>1 DEF Put
<1> QED  BY <1>1, <1>3, <1>4 DEF Begins

\* Updating, stopping, recording and failing continue the batch.
LEMMA UpdateContinues ==
    ASSUME IInv, NEW b \in Batches, NEW r \in 1 .. MaxRevision, NEW g \in Goods, Update(b, r, g)
    PROVE  Continues
<1> USE ConstantsAssumption
<1> DEFINE n == [current EXCEPT !.goods = g, !.revision = @ + 1]
<1>1. current # None /\ current.active /\ Put(n) /\ UNCHANGED answered
      /\ current.revision < MaxRevision
  BY DEF Update, Accepts, Active
<1>2. current \in BatchRows
  BY <1>1 DEF IInv, Typed
<1>5. current.revision \in Nat /\ current.revision >= 1 /\ current.revision + 1 \in Nat
  BY <1>1, <1>2 DEF BatchRows, IInv, BatchSound
<1>3. n \in BatchRows /\ n.id = current.id /\ n.code = current.code
      /\ n.revision = current.revision + 1 /\ n.prints = current.prints
  BY <1>2, <1>5 DEF BatchRows
<1>6. n.active
  BY <1>1, <1>2 DEF BatchRows
<1>4. current' = n /\ identities' = identities /\ history' = history
  BY <1>1, <1>3, SameIdentity
<1> HIDE DEF n
<1>7. n.revision \in 1 .. MaxRevision + 1 /\ n.revision <= MaxRevision
      /\ current.revision <= n.revision /\ n.revision # current.revision
  BY <1>1, <1>3, <1>5
<1> QED  BY <1>1, <1>3, <1>4, <1>6, <1>7 DEF Continues

\* Stopping a batch keeps the batch of every operation in flight.
LEMMA StopContinues ==
    ASSUME IInv, NEW b \in Batches, NEW r \in 1 .. MaxRevision, Stop(b, r)
    PROVE  Continues
<1> USE ConstantsAssumption
<1> DEFINE n == [current EXCEPT !.active = FALSE, !.revision = @ + 1]
<1>1. current # None /\ Complete(n) /\ UNCHANGED answered /\ current.revision = r
  BY DEF Stop, Accepts, Active
<1>2. current \in BatchRows
  BY <1>1 DEF IInv, Typed
<1>5. r + 1 \in Nat /\ r + 1 \in 1 .. MaxRevision + 1 /\ r <= r + 1 /\ r # r + 1
  OBVIOUS
<1>3. n \in BatchRows /\ n.id = current.id /\ n.code = current.code /\ ~ n.active
      /\ n.revision = r + 1 /\ n.prints = current.prints
  BY <1>1, <1>2, <1>5 DEF BatchRows
<1>4. current' = n /\ identities' = identities
      /\ history' = [history EXCEPT ![current.id] = n.prints]
  BY <1>1, <1>3, SameIdentity
<1> HIDE DEF n
<1> QED  BY <1>1, <1>3, <1>4, <1>5 DEF Continues

\* Recording a print keeps the batch of every operation in flight.
LEMMA RecordContinues ==
    ASSUME IInv, NEW p \in Operations, Record(p)
    PROVE  Continues
<1> USE ConstantsAssumption
<1> DEFINE o == op[p]
           n == [current EXCEPT !.prints = @ \cup {o.epc}]
<1>1. current # None /\ current.id = o.batch /\ o.pc = "record"
      /\ answered' = answered \cup {<<o.batch, o.epc>>}
  BY DEF Record
<1>2. current \in BatchRows
  BY <1>1 DEF IInv, Typed
<1>3. o.epc \in Epcs
  BY <1>1 DEF IInv, HandlerSound
<1>4. current.revision \in 1 .. MaxRevision + 1 /\ current.revision \in Nat
      /\ (current.active => current.revision <= MaxRevision)
  BY <1>1, <1>2 DEF BatchRows, IInv, BatchSound
<1>5. current.id \in Batches /\ current.active \in BOOLEAN
  BY <1>2 DEF BatchRows
<1>6. \A b \in Batches, e \in Epcs :
        <<b, e>> \in answered' => (<<b, e>> \in answered \/ (b = current.id /\ e = o.epc))
  BY <1>1
<1>7. CASE o.epc \in current.prints
  <2>1. UNCHANGED <<current, history, identities>>
    BY <1>7 DEF Record, batchVars
  <2>2. ~ current.active => history = [history EXCEPT ![current.id] = current.prints]
    BY <1>1, <1>5 DEF IInv, BatchSound, Typed
  <2> HIDE DEF o
  <2> QED  BY <1>1, <1>2, <1>4, <1>5, <1>6, <1>7, <2>1, <2>2 DEF Continues
<1>8. CASE o.epc \notin current.prints
  <2>1. Save(n)
    BY <1>8 DEF Record
  <2>2. n \in BatchRows /\ n.id = current.id /\ n.code = current.code
        /\ (n.active <=> current.active) /\ n.revision = current.revision /\ n.goods = current.goods
        /\ n.prints = current.prints \cup {o.epc}
    BY <1>2, <1>3 DEF BatchRows
  <2>3. current' = n /\ identities' = identities
        /\ (n.active => history' = history)
        /\ (~ n.active => history' = [history EXCEPT ![current.id] = n.prints])
    BY <1>1, <2>1, <2>2, SameIdentity DEF Save
  <2> HIDE DEF n, o
  <2>4. /\ current.prints \subseteq n.prints
        /\ \A b \in Batches, e \in Epcs :
             <<b, e>> \in answered' => (<<b, e>> \in answered \/ (b = current.id /\ e \in n.prints))
    BY <1>6, <2>2
  <2>5. n.revision \in 1 .. MaxRevision + 1 /\ current.revision <= n.revision
        /\ (n.active => n.revision <= MaxRevision)
    BY <1>4, <2>2
  <2> QED  BY <1>1, <2>2, <2>3, <2>4, <2>5, Zenon DEF Continues
<1> QED  BY <1>7, <1>8

\* Failing a batch keeps the batch of every operation in flight.
LEMMA FailContinues ==
    ASSUME IInv, NEW p \in Operations, FailBatch(p)
    PROVE  Continues
<1> USE ConstantsAssumption
<1> DEFINE n == [current EXCEPT !.active = FALSE, !.revision = FailedRevision]
<1>1. current # None /\ Complete(n) /\ UNCHANGED answered
  BY DEF FailBatch
<1>2. current \in BatchRows
  BY <1>1 DEF IInv, Typed
<1>3. current.revision \in 1 .. MaxRevision + 1 /\ current.revision \in Nat
      /\ (current.active => current.revision <= MaxRevision)
  BY <1>1, <1>2 DEF BatchRows, IInv, BatchSound
<1>4. FailedRevision \in 1 .. MaxRevision + 1 /\ current.revision <= FailedRevision
      /\ FailedRevision \in Nat
  BY <1>3 DEF FailedRevision
<1>5. n \in BatchRows /\ n.id = current.id /\ n.code = current.code /\ n.active = FALSE
      /\ n.revision = FailedRevision /\ n.prints = current.prints /\ n.goods = current.goods
  BY <1>2, <1>4 DEF BatchRows
<1>6. current' = n /\ identities' = identities
      /\ history' = [history EXCEPT ![current.id] = n.prints]
  BY <1>1, <1>5, SameIdentity
<1> HIDE DEF n
<1> QED  BY <1>1, <1>4, <1>5, <1>6 DEF Continues

\* Every step leaves the batches alone, begins a batch or continues one.
LEMMA BatchEffect ==
    ASSUME IInv, [Next]_vars
    PROVE  UNCHANGED <<current, history, identities, answered>> \/ Begins \/ Continues
<1>1. CASE Rebatches
  BY <1>1, StartBegins, UpdateContinues, StopContinues DEF Rebatches
<1>2. ASSUME NEW p \in Operations, Ends(p) PROVE Continues
  BY <1>2, RecordContinues, FailContinues DEF Ends
<1> QED
  BY <1>1, <1>2, StepCases, AdvancesFrame, WritesFrame, LabelsFrame, DirectsFrame, MovesFrame,
     RestartFrame, StutterFrame

\* Beginning a batch gives one more id a code, the largest.
LEMMA BeginsCodes ==
    ASSUME IInv, NEW b \in Batches, identities[b] = 0,
           identities' = [identities EXCEPT ![b] = NewCode]
    PROVE  /\ identities' \in [Batches -> Nat]
           /\ identities'[b] = NewCode /\ NewCode # 0 /\ NewCode \in Nat
           /\ \A x \in Batches : x # b => identities'[x] = identities[x]
           /\ CodesSound'
<1>1. NewCode = 1 + Cardinality(Used) /\ Cardinality(Used) \in Nat
  BY NewCodeIsNew DEF IInv
<1>2. identities \in [Batches -> Nat]
  BY DEF IInv, Typed
<1>3. NewCode \in Nat /\ NewCode # 0
  BY <1>1
<1>4. identities'[b] = NewCode /\ \A x \in Batches : x # b => identities'[x] = identities[x]
  BY <1>2
<1>5. Used' = Used \cup {b}
  BY <1>3, <1>4 DEF Used
<1>6. b \notin Used
  BY DEF Used
<1>7. IsFiniteSet(Used)
  BY DEF IInv, CodesSound
<1>8. IsFiniteSet(Used') /\ Cardinality(Used') = Cardinality(Used) + 1
  BY <1>5, <1>6, <1>7, FS_AddElement
<1>9. \A x \in Batches : identities'[x] <= Cardinality(Used')
  <2>1. \A x \in Batches : identities[x] <= Cardinality(Used) /\ identities[x] \in Nat
    BY <1>2 DEF IInv, CodesSound
  <2> QED  BY <1>1, <1>4, <1>8, <2>1
<1>10. identities' \in [Batches -> Nat]
  BY <1>2, <1>3
<1> QED  BY <1>3, <1>4, <1>8, <1>9, <1>10 DEF CodesSound

BatchTyped ==
    /\ current \in BatchRows \cup {None}
    /\ history \in [Batches -> SUBSET Epcs]
    /\ identities \in [Batches -> Nat]

\* The batch part of the invariant is inductive.
LEMMA BatchStep ==
    ASSUME IInv, [Next]_vars
    PROVE  BatchTyped' /\ CodesSound' /\ BatchSound' /\ AnswersSound'
<1>t. BatchTyped
  BY DEF IInv, Typed, BatchTyped
<1>1. CASE UNCHANGED <<current, history, identities, answered>>
  BY <1>1, <1>t DEF IInv, BatchTyped, CodesSound, BatchSound, AnswersSound, Listed, Active, Used
<1>2. CASE Begins
  <2>1. PICK b \in Batches, g \in Goods :
           /\ identities[b] = 0
           /\ current' = [id |-> b, code |-> NewCode, revision |-> 1, active |-> TRUE,
                          goods |-> g, prints |-> {}]
           /\ identities' = [identities EXCEPT ![b] = NewCode]
    BY <1>2, Zenon DEF Begins
  <2>2. ~ Active /\ UNCHANGED <<history, answered>>
    BY <1>2 DEF Begins
  <2>3. /\ identities' \in [Batches -> Nat]
        /\ identities'[b] = NewCode /\ NewCode # 0 /\ NewCode \in Nat
        /\ \A x \in Batches : x # b => identities'[x] = identities[x]
        /\ CodesSound'
    BY <2>1, BeginsCodes
  <2>4. current' \in BatchRows
    BY <2>1, <2>3 DEF BatchRows
  <2>5. BatchSound'
    BY <2>1, <2>3, ConstantsAssumption DEF BatchSound
  <2>6. AnswersSound'
    <3> SUFFICES ASSUME NEW x \in Batches, NEW e \in Epcs, <<x, e>> \in answered
                 PROVE  Listed(x, e)'
      BY <2>2 DEF AnswersSound
    <3>1. Listed(x, e)
      BY DEF IInv, AnswersSound
    <3>2. identities[x] # 0 /\ x # b
      BY <3>1, <2>1 DEF Listed
    <3>3. e \in history[x]
      BY <3>1, <2>2 DEF Listed
    <3>4. current'.id = b
      BY <2>1
    <3> QED  BY <2>2, <2>3, <3>2, <3>3, <3>4 DEF Listed
  <2> QED  BY <1>t, <2>2, <2>3, <2>4, <2>5, <2>6 DEF BatchTyped
<1>3. CASE Continues
  <2>1. current \in BatchRows /\ current.id \in Batches /\ current # None
    BY <1>3, <1>t DEF Continues, BatchTyped, BatchRows
  <2>2. current' \in BatchRows /\ identities' = identities /\ current'.id = current.id
        /\ current'.prints \in SUBSET Epcs /\ current' # None
    BY <1>3, RowIsNotNone DEF Continues, BatchRows
  <2>3. history' \in [Batches -> SUBSET Epcs]
    BY <1>3, <1>t, <2>2 DEF Continues, BatchTyped
  <2>4. CodesSound'
    BY <2>2 DEF IInv, CodesSound, Used
  <2>5. ~ current'.active => history'[current.id] = current'.prints
    BY <1>3, <1>t, <2>1 DEF Continues, BatchTyped
  <2>6. BatchSound'
    BY <1>3, <2>1, <2>2, <2>5 DEF IInv, BatchSound, Continues
  <2>7. AnswersSound'
    <3> SUFFICES ASSUME NEW x \in Batches, NEW e \in Epcs, <<x, e>> \in answered'
                 PROVE  Listed(x, e)'
      BY DEF AnswersSound
    <3>1. <<x, e>> \in answered \/ (x = current.id /\ e \in current'.prints)
      BY <1>3 DEF Continues
    <3>2. CASE x = current.id
      <4>1. e \in current'.prints
        BY <1>3, <2>1, <3>1, <3>2 DEF IInv, AnswersSound, Listed, Continues
      <4>2. identities[x] # 0
        BY <2>1, <3>2 DEF IInv, BatchSound
      <4> QED  BY <2>2, <2>5, <3>2, <4>1, <4>2 DEF Listed, Active
    <3>3. CASE x # current.id
      <4>1. Listed(x, e)
        BY <3>1, <3>3 DEF IInv, AnswersSound
      <4>2. history'[x] = history[x]
        BY <1>3, <1>t, <2>1, <3>3 DEF Continues, BatchTyped
      <4> QED  BY <2>2, <3>3, <4>1, <4>2 DEF Listed
    <3> QED  BY <3>2, <3>3
  <2> QED  BY <2>2, <2>3, <2>4, <2>6, <2>7, <1>t DEF BatchTyped
<1> QED  BY <1>1, <1>2, <1>3, BatchEffect

-----------------------------------------------------------------------------
(***************************************************************************)
(* One label code: its label, task, receipt and stock.                     *)
(***************************************************************************)

\* A label is no None.
LEMMA LabelIsNotNone ==
    \A l \in LabelRows : l # None
BY NoneAssumption DEF LabelRows

\* A label is printed with a fresh code, or by the direct print that drew it.
LabelEffect(e) ==
    \/ labels'[e] = labels[e]
    \/ /\ Fresh(e)
       /\ labels'[e].by = "client" => /\ Active
                                      /\ labels'[e].batch = current.id
                                      /\ labels'[e].revision = current.revision
                                      /\ labels'[e].goods = current.goods
       /\ labels'[e].by # "direct"
       /\ labels'[e] \in LabelRows
       /\ UNCHANGED <<current, identities, receipts, stock, direct>>
    \/ /\ direct[e].print = "pending"
       /\ labels'[e] = Label("direct", None, 0, direct[e].goods)
       /\ direct'[e].pc # "none"
       /\ UNCHANGED <<current, identities, receipts, stock>>

\* What a fresh code means.
LEMMA FreshMeans ==
    ASSUME NEW e \in Epcs, Fresh(e)
    PROVE  labels[e] = None /\ receipts[e] = NoRow /\ direct[e] = NoTask
           /\ \A p \in Operations : op[p].epc # e
BY DEF Fresh

\* Every step changes the label of each code only the way LabelEffect says.
LEMMA LabelChanges ==
    ASSUME IInv, [Next]_vars
    PROVE  labels' \in [Epcs -> LabelRows \cup {None}] /\ \A e \in Epcs : LabelEffect(e)
<1>t. labels \in [Epcs -> LabelRows \cup {None}]
  BY DEF IInv, Typed
<1>1. CASE labels' = labels
  BY <1>1, <1>t DEF LabelEffect
<1>2. ASSUME NEW e \in Epcs, NEW b \in Batches, NEW r \in 1 .. MaxRevision, Prepare(e, b, r)
      PROVE  labels' \in [Epcs -> LabelRows \cup {None}] /\ \A x \in Epcs : LabelEffect(x)
  <2> DEFINE l == Label("client", b, r, current.goods)
  <2>1. labels' = [labels EXCEPT ![e] = l] /\ Fresh(e) /\ Active
        /\ current.id = b /\ current.revision = r
    BY <1>2 DEF Prepare, Accepts
  <2>2. UNCHANGED <<current, identities, receipts, stock, direct>>
    BY <1>2 DEF Prepare, batchVars, stockVars
  <2>3. current.goods \in Goods
    BY <2>1 DEF Active, IInv, Typed, BatchRows
  <2>4. l \in LabelRows /\ l.by = "client" /\ l.batch = b /\ l.revision = r /\ l.goods = current.goods
    BY <2>3, ConstantsAssumption DEF Label, LabelRows
  <2> HIDE DEF l
  <2> QED  BY <1>t, <2>1, <2>2, <2>4 DEF LabelEffect
<1>3. ASSUME NEW p \in Operations, NEW e \in Epcs, op[p].pc = "print", Fresh(e),
             labels' = [labels EXCEPT ![e] = Label("driver", op[p].batch, 0, op[p].goods)],
             UNCHANGED <<current, identities, receipts, stock, direct>>
      PROVE  labels' \in [Epcs -> LabelRows \cup {None}] /\ \A x \in Epcs : LabelEffect(x)
  <2> DEFINE l == Label("driver", op[p].batch, 0, op[p].goods)
  <2>1. op[p].goods \in Goods /\ op[p].batch \in Batches \cup {None}
    BY <1>3 DEF IInv, HandlerSound, Typed, Handlers
  <2>2. l \in LabelRows /\ l.by = "driver"
    BY <2>1 DEF Label, LabelRows
  <2>3. labels' = [labels EXCEPT ![e] = l]
    BY <1>3
  <2> HIDE DEF l
  <2> QED  BY <1>t, <1>3, <2>2, <2>3 DEF LabelEffect
<1>4. CASE Labels
  <2>1. UNCHANGED <<current, identities, receipts, stock, direct>>
    BY <1>4, LabelsFrame
  <2>2. ASSUME NEW p \in Operations, NEW e \in Epcs, DriverPrints(p, e)
        PROVE  labels' \in [Epcs -> LabelRows \cup {None}] /\ \A x \in Epcs : LabelEffect(x)
    BY <2>1, <2>2, <1>3 DEF DriverPrints
  <2>3. ASSUME NEW p \in Operations, DriverFails(p)
        PROVE  labels' \in [Epcs -> LabelRows \cup {None}] /\ \A x \in Epcs : LabelEffect(x)
    BY <2>1, <2>3, <1>3, <1>1 DEF DriverFails
  <2> QED  BY <1>2, <1>4, <2>2, <2>3, Zenon DEF Labels
<1>5. ASSUME NEW e \in Epcs, direct[e].print = "pending",
             labels' = [labels EXCEPT ![e] = Label("direct", None, 0, direct[e].goods)],
             direct'[e].pc # "none", UNCHANGED <<current, identities, receipts, stock>>
      PROVE  labels' \in [Epcs -> LabelRows \cup {None}] /\ \A x \in Epcs : LabelEffect(x)
  <2> DEFINE l == Label("direct", None, 0, direct[e].goods)
  <2>1. direct[e].goods \in Goods
    BY <1>5 DEF IInv, TaskSound
  <2>2. l \in LabelRows
    BY <2>1 DEF Label, LabelRows
  <2>3. labels' = [labels EXCEPT ![e] = l]
    BY <1>5
  <2>4. LabelEffect(e)
    BY <1>5, <1>t DEF LabelEffect
  <2> HIDE DEF l
  <2>5. \A x \in Epcs : x # e => LabelEffect(x)
    BY <1>t, <2>3 DEF LabelEffect
  <2> QED  BY <1>t, <2>2, <2>3, <2>4, <2>5
<1>6. ASSUME NEW e \in Epcs, Directs(e)
      PROVE  labels' \in [Epcs -> LabelRows \cup {None}] /\ \A x \in Epcs : LabelEffect(x)
  <2>1. ASSUME DirectPrinted(e) \/ DirectFailed(e)
        PROVE  /\ direct[e].print = "pending" /\ direct'[e].pc # "none"
               /\ UNCHANGED <<current, identities, receipts, stock>>
               /\ labels' \in {labels, [labels EXCEPT ![e] = Label("direct", None, 0, direct[e].goods)]}
    <3>1. direct[e].print = "pending" /\ UNCHANGED <<current, identities, receipts, stock>>
          /\ labels' \in {labels, [labels EXCEPT ![e] = Label("direct", None, 0, direct[e].goods)]}
      BY <2>1 DEF DirectPrinted, DirectFailed, batchVars, stockVars
    <3>2. direct'[e].pc = direct[e].pc
      BY <2>1 DEF DirectPrinted, DirectFailed, IInv, Typed, Tasks
    <3>3. direct[e].pc # "none"
      BY <3>1 DEF IInv, TaskSound
    <3> QED  BY <3>1, <3>2, <3>3
  <2>2. CASE DirectPrinted(e) \/ DirectFailed(e)
    BY <2>1, <2>2, <1>1, <1>5
  <2> QED  BY <1>1, <1>6, <2>2 DEF Directs, DirectPrint, TaskDrafts, TaskEnds, TaskFails
<1> QED
  BY <1>1, <1>4, <1>6, StepCases, RebatchesFrame, AdvancesFrame, EndsFrame, WritesFrame,
     MovesFrame, RestartFrame, StutterFrame

\* A direct print draws a fresh code; its task only goes forward, and books
\* nothing before it ends.
DirectEffect(e) ==
    \/ direct'[e] = direct[e]
    \/ /\ Fresh(e)
       /\ direct'[e].pc # "none" /\ direct'[e].print = "pending" /\ direct'[e].goods \in Goods
       /\ UNCHANGED <<labels, receipts, stock>>
    \/ /\ direct[e].pc # "none" /\ direct'[e].pc # "none"
       /\ direct'[e].goods = direct[e].goods
       /\ direct'[e].print = "ok" => direct[e].print = "ok" \/ labels'[e] # None
       /\ direct'[e].pc \in {"create", "wait"} =>
            direct[e].pc \in {"create", "wait"} /\ stock' = stock

\* Every step changes the print task of each code only the way DirectEffect says.
LEMMA DirectChanges ==
    ASSUME IInv, [Next]_vars
    PROVE  direct' \in [Epcs -> Tasks] /\ \A e \in Epcs : DirectEffect(e)
<1>t. direct \in [Epcs -> Tasks]
  BY DEF IInv, Typed
<1>1. CASE direct' = direct
  BY <1>1, <1>t DEF DirectEffect
<1>2. ASSUME NEW e \in Epcs, NEW t \in Tasks, direct' = [direct EXCEPT ![e] = t],
             DirectEffect(e)
      PROVE  direct' \in [Epcs -> Tasks] /\ \A x \in Epcs : DirectEffect(x)
  <2>1. \A x \in Epcs : x # e => DirectEffect(x)
    BY <1>t, <1>2 DEF DirectEffect
  <2> QED  BY <1>t, <1>2, <2>1
<1>3. ASSUME NEW e \in Epcs, Directs(e)
      PROVE  direct' \in [Epcs -> Tasks] /\ \A x \in Epcs : DirectEffect(x)
  <2>t. direct[e] \in Tasks
    BY <1>t
  <2>0. direct[e].print # "none" => direct[e].pc # "none"
    BY DEF IInv, TaskSound
  <2>1. ASSUME NEW g \in Goods, DirectPrint(e, g)
        PROVE  direct' \in [Epcs -> Tasks] /\ \A x \in Epcs : DirectEffect(x)
    <3> DEFINE t == [pc |-> "create", print |-> "pending", goods |-> g]
    <3>1. direct' = [direct EXCEPT ![e] = t] /\ Fresh(e) /\ UNCHANGED <<labels, receipts, stock>>
      BY <2>1 DEF DirectPrint, stockVars
    <3>2. t \in Tasks
      BY DEF Tasks
    <3>3. DirectEffect(e)
      BY <3>1, <1>t DEF DirectEffect
    <3> HIDE DEF t
    <3> QED  BY <1>2, <3>1, <3>2, <3>3
  <2>2. CASE DirectPrinted(e)
    <3> DEFINE t == [direct[e] EXCEPT !.print = "ok"]
    <3>1. direct' = [direct EXCEPT ![e] = t] /\ direct[e].print = "pending" /\ stock' = stock
          /\ labels' = [labels EXCEPT ![e] = Label("direct", None, 0, direct[e].goods)]
      BY <2>2, <2>t DEF DirectPrinted, stockVars, Tasks
    <3>2. t \in Tasks /\ t.pc = direct[e].pc /\ t.goods = direct[e].goods
      BY <2>t DEF Tasks
    <3>3. direct[e].goods \in Goods
      BY <2>0, <3>1 DEF IInv, TaskSound
    <3>4. Label("direct", None, 0, direct[e].goods) \in LabelRows
      BY <3>3 DEF Label, LabelRows
    <3>5. labels'[e] # None
      BY <3>1, <3>4, LabelIsNotNone DEF IInv, Typed
    <3> HIDE DEF t
    <3>6. DirectEffect(e)
      BY <2>0, <3>1, <3>2, <3>5, <1>t DEF DirectEffect
    <3> QED  BY <1>2, <3>1, <3>2, <3>6
  <2>3. CASE DirectFailed(e)
    <3> DEFINE t == [direct[e] EXCEPT !.print = "failed"]
    <3>1. direct' = [direct EXCEPT ![e] = t] /\ direct[e].print = "pending" /\ stock' = stock
      BY <2>3, <2>t DEF DirectFailed, stockVars, Tasks
    <3>2. t \in Tasks /\ t.pc = direct[e].pc /\ t.goods = direct[e].goods /\ t.print = "failed"
      BY <2>t DEF Tasks
    <3> HIDE DEF t
    <3>6. DirectEffect(e)
      BY <2>0, <3>1, <3>2, <1>t DEF DirectEffect
    <3> QED  BY <1>2, <3>1, <3>2, <3>6
  <2>4. CASE TaskDrafts(e)
    <3> DEFINE t == [direct[e] EXCEPT !.pc = "wait"]
    <3>1. direct' = [direct EXCEPT ![e] = t] /\ direct[e].pc = "create" /\ stock' = stock
      BY <2>4, <2>t DEF TaskDrafts, Tasks
    <3>2. t \in Tasks /\ t.pc = "wait" /\ t.goods = direct[e].goods /\ t.print = direct[e].print
      BY <2>t DEF Tasks
    <3> HIDE DEF t
    <3>6. DirectEffect(e)
      BY <3>1, <3>2, <1>t DEF DirectEffect
    <3> QED  BY <1>2, <3>1, <3>2, <3>6
  <2>5. CASE TaskEnds(e) \/ TaskFails(e)
    <3> DEFINE t == [direct[e] EXCEPT !.pc = "done"]
    <3>1. direct' = [direct EXCEPT ![e] = t] /\ direct[e].pc \in {"create", "wait"}
      BY <2>5, <2>t DEF TaskEnds, TaskFails, Tasks
    <3>2. t \in Tasks /\ t.pc = "done" /\ t.goods = direct[e].goods /\ t.print = direct[e].print
      BY <2>t DEF Tasks
    <3> HIDE DEF t
    <3>6. DirectEffect(e)
      BY <3>1, <3>2, <1>t DEF DirectEffect
    <3> QED  BY <1>2, <3>1, <3>2, <3>6
  <2> QED  BY <1>3, <2>1, <2>2, <2>3, <2>4, <2>5, Zenon DEF Directs
<1>4. CASE Restart
  <2> DEFINE t(e) == IF direct[e] = NoTask THEN NoTask
                     ELSE [direct[e] EXCEPT !.pc = "done", !.print = "failed"]
  <2>1. direct' = [e \in Epcs |-> t(e)] /\ stock' = stock
    BY <1>4 DEF Restart, stockVars
  <2>2. ASSUME NEW e \in Epcs
        PROVE  /\ t(e) \in Tasks
               /\ direct[e] = NoTask => t(e) = direct[e]
               /\ direct[e] # NoTask => /\ t(e).pc = "done" /\ t(e).print = "failed"
                                        /\ t(e).goods = direct[e].goods
    <3>1. direct[e] \in Tasks
      BY <1>t
    <3> QED  BY <3>1 DEF Tasks, NoTask
  <2> HIDE DEF t
  <2>3. ASSUME NEW e \in Epcs
        PROVE  direct[e] # NoTask => direct[e].pc # "none"
    <3>1. direct[e].pc = "none" => direct[e].print = "none" /\ direct[e].goods = None
      BY DEF IInv, TaskSound
    <3> QED  BY <3>1, <1>t DEF Tasks, NoTask
  <2> QED  BY <2>1, <2>2, <2>3 DEF DirectEffect
<1> QED
  BY <1>1, <1>3, <1>4, StepCases, RebatchesFrame, AdvancesFrame, EndsFrame, WritesFrame,
     LabelsFrame, MovesFrame, StutterFrame

\* A receipt is drawn up for the goods of an operation or of a direct print,
\* submitted as it stands, or removed.
ReceiptEffect(e) ==
    \/ receipts'[e] = receipts[e]
    \/ receipts'[e] = NoRow
    \/ /\ \E p \in Operations :
            /\ op[p].pc = "upsert" /\ op[p].epc = e
            /\ receipts'[e] = [status |-> "draft", goods |-> op[p].goods]
       /\ UNCHANGED <<labels, direct>>
    \/ /\ receipts[e].status = "draft"
       /\ receipts'[e] = [status |-> "submitted", goods |-> receipts[e].goods]
    \/ /\ direct[e].pc = "create"
       /\ receipts'[e] = [status |-> "draft", goods |-> direct[e].goods]

\* Stock is booked by an operation about to submit, or by the task of a direct
\* print that was printed; nothing but available stock moves on.
StockEffect(e) ==
    \/ stock'[e] = stock[e]
    \/ /\ stock[e].status = "available"
       /\ \E s \in {"used", "deleted"} : stock'[e] = [stock[e] EXCEPT !.status = s]
    \/ /\ Submits(e)
       /\ stock'[e] = [status |-> "available", goods |-> receipts[e].goods]
       /\ labels' = labels
       /\ \/ \E p \in Operations : op[p].pc = "submit" /\ op[p].epc = e /\ op'[p].pc = "record"
          \/ direct[e].pc = "wait" /\ direct[e].print = "ok" /\ direct'[e].pc = "done"

\* Booking a receipt.
LEMMA BookEffect ==
    ASSUME IInv, NEW e \in Epcs, Submits(e), Book(e)
    PROVE  /\ receipts' = [receipts EXCEPT ![e] =
                             [status |-> "submitted", goods |-> receipts[e].goods]]
           /\ stock' = [stock EXCEPT ![e] = [status |-> "available", goods |-> receipts[e].goods]]
           /\ receipts[e].status = "draft" /\ receipts[e].goods \in Goods
<1>1. receipts[e] \in ReceiptRows /\ receipts[e].status = "draft"
  BY DEF IInv, Typed, Submits
<1>2. [receipts[e] EXCEPT !.status = "submitted"] =
        [status |-> "submitted", goods |-> receipts[e].goods]
  BY <1>1 DEF ReceiptRows
<1>3. receipts[e] # NoRow
  BY <1>1 DEF NoRow
<1>4. receipts[e].goods \in Goods
  BY <1>3 DEF IInv, ReceiptSound
<1> QED  BY <1>1, <1>2, <1>4 DEF Book

\* How the receipts and the stock change.
LEMMA StockChanges ==
    ASSUME IInv, [Next]_vars
    PROVE  /\ receipts' \in [Epcs -> ReceiptRows] /\ \A e \in Epcs : ReceiptEffect(e)
           /\ stock' \in [Epcs -> StockRows] /\ \A e \in Epcs : StockEffect(e)
<1> DEFINE R == receipts' \in [Epcs -> ReceiptRows] /\ \A e \in Epcs : ReceiptEffect(e)
           S == stock' \in [Epcs -> StockRows] /\ \A e \in Epcs : StockEffect(e)
<1>t. receipts \in [Epcs -> ReceiptRows] /\ stock \in [Epcs -> StockRows]
  BY DEF IInv, Typed
<1>1. ASSUME receipts' = receipts PROVE R
  BY <1>1, <1>t DEF ReceiptEffect
<1>2. ASSUME stock' = stock PROVE S
  BY <1>2, <1>t DEF StockEffect
<1>3. ASSUME NEW e \in Epcs, NEW r \in ReceiptRows, receipts' = [receipts EXCEPT ![e] = r],
             ReceiptEffect(e)
      PROVE  R
  <2>1. \A x \in Epcs : x # e => ReceiptEffect(x)
    BY <1>t, <1>3 DEF ReceiptEffect
  <2> QED  BY <1>t, <1>3, <2>1
<1>4. ASSUME NEW e \in Epcs, NEW r \in StockRows, stock' = [stock EXCEPT ![e] = r],
             StockEffect(e)
      PROVE  S
  <2>1. \A x \in Epcs : x # e => StockEffect(x)
    BY <1>t, <1>4 DEF StockEffect
  <2> QED  BY <1>t, <1>4, <2>1
<1>5. ASSUME NEW e \in Epcs, Submits(e), Book(e), labels' = labels,
             \/ \E p \in Operations : op[p].pc = "submit" /\ op[p].epc = e /\ op'[p].pc = "record"
             \/ direct[e].pc = "wait" /\ direct[e].print = "ok" /\ direct'[e].pc = "done"
      PROVE  R /\ S
  <2> DEFINE r == [status |-> "submitted", goods |-> receipts[e].goods]
             s == [status |-> "available", goods |-> receipts[e].goods]
  <2>1. receipts' = [receipts EXCEPT ![e] = r] /\ stock' = [stock EXCEPT ![e] = s]
        /\ receipts[e].status = "draft" /\ receipts[e].goods \in Goods
    BY <1>5, BookEffect
  <2>2. r \in ReceiptRows /\ s \in StockRows
    BY <2>1 DEF ReceiptRows, StockRows
  <2>3. receipts'[e] = r /\ stock'[e] = s
    BY <2>1, <1>t
  <2>4. ReceiptEffect(e)
    BY <2>1, <2>3 DEF ReceiptEffect
  <2>5. StockEffect(e)
    BY <1>5, <2>3 DEF StockEffect
  <2> HIDE DEF r, s, R, S
  <2> QED  BY <1>3, <1>4, <2>1, <2>2, <2>4, <2>5
<1>6. ASSUME NEW p \in Operations, Writes(p) PROVE R /\ S
  <2>h. op[p].pc \in {"upsert", "submit"} => op[p].epc \in Epcs /\ op[p].goods \in Goods
    BY DEF IInv, HandlerSound
  <2>f. UNCHANGED <<labels, direct>>
    BY <1>6, WritesFrame
  <2>1. CASE CreateDraft(p)
    <3> DEFINE r == [status |-> "draft", goods |-> op[p].goods]
               e == op[p].epc
    <3>1. receipts' = [receipts EXCEPT ![e] = r] /\ stock' = stock /\ op[p].pc = "upsert"
      BY <2>1 DEF CreateDraft
    <3>2. r \in ReceiptRows /\ e \in Epcs
      BY <2>h, <3>1 DEF ReceiptRows
    <3>3. receipts'[e] = r
      BY <1>t, <3>1, <3>2
    <3>4. ReceiptEffect(e)
      BY <2>f, <3>1, <3>3 DEF ReceiptEffect
    <3> HIDE DEF r, e, R, S
    <3> QED  BY <1>2, <1>3, <3>1, <3>2, <3>4
  <2>2. CASE Submit(p) /\ Submits(op[p].epc)
    <3>1. op[p].pc = "submit" /\ Book(op[p].epc)
          /\ op' = [op EXCEPT ![p].pc = "record", ![p].draft = NoRow]
      BY <2>2 DEF Submit, Goto
    <3>2. op'[p].pc = "record"
      BY <3>1 DEF IInv, Typed, Handlers
    <3> HIDE DEF R, S
    <3> QED  BY <1>5, <2>2, <2>h, <2>f, <3>1, <3>2
  <2>3. CASE Submit(p) /\ ~ Submits(op[p].epc)
    BY <1>1, <1>2, <2>3 DEF Submit, stockVars
  <2> QED  BY <1>6, <2>1, <2>2, <2>3 DEF Writes
<1>7. ASSUME NEW e \in Epcs, Directs(e) PROVE R /\ S
  <2>1. CASE UNCHANGED <<receipts, stock>>
    BY <1>1, <1>2, <2>1
  <2>2. CASE TaskDrafts(e)
    <3> DEFINE r == [status |-> "draft", goods |-> direct[e].goods]
    <3>1. receipts' = [receipts EXCEPT ![e] = r] /\ stock' = stock /\ direct[e].pc = "create"
      BY <2>2 DEF TaskDrafts
    <3>2. r \in ReceiptRows
      BY DEF ReceiptRows, IInv, Typed, Tasks
    <3>3. receipts'[e] = r
      BY <1>t, <3>1
    <3>4. ReceiptEffect(e)
      BY <3>1, <3>3 DEF ReceiptEffect
    <3> HIDE DEF r, R, S
    <3> QED  BY <1>2, <1>3, <3>1, <3>2, <3>4
  <2>3. CASE TaskEnds(e) /\ WasPrinted(e)
    <3>1. direct'[e].pc = "done" /\ direct[e].pc = "wait" /\ direct[e].print = "ok"
          /\ labels' = labels /\ Submits(e) /\ Book(e)
      BY <2>3 DEF TaskEnds, WasPrinted, IInv, Typed, Tasks
    <3> HIDE DEF R, S
    <3> QED  BY <1>5, <3>1
  <2>4. CASE TaskEnds(e) /\ ~ WasPrinted(e)
    <3>1. receipts' = [receipts EXCEPT ![e] = NoRow] /\ stock' = stock
      BY <2>4 DEF TaskEnds
    <3>2. NoRow \in ReceiptRows
      BY DEF NoRow, ReceiptRows
    <3>3. ReceiptEffect(e)
      BY <3>1, <1>t DEF ReceiptEffect
    <3> HIDE DEF R, S
    <3> QED  BY <1>2, <1>3, <3>1, <3>2, <3>3
  <2> HIDE DEF R, S
  <2> QED  BY <1>7, <2>1, <2>2, <2>3, <2>4 DEF Directs, DirectPrint, DirectPrinted, DirectFailed,
              TaskFails, stockVars
<1>8. ASSUME NEW e \in Epcs, NEW s \in {"used", "deleted"}, Moves(e, "available", s) PROVE R /\ S
  <2> DEFINE r == [stock[e] EXCEPT !.status = s]
  <2>1. stock' = [stock EXCEPT ![e] = r] /\ stock[e].status = "available" /\ receipts' = receipts
    BY <1>8, <1>t DEF Moves
  <2>2. r \in StockRows
    BY <1>t DEF StockRows
  <2>3. StockEffect(e)
    BY <2>1, <1>t DEF StockEffect
  <2> HIDE DEF r, R, S
  <2> QED  BY <1>1, <1>4, <2>1, <2>2, <2>3
<1>9. ASSUME NEW e \in Epcs, Use(e) \/ Delete(e) PROVE R /\ S
  <2> HIDE DEF R, S
  <2> QED  BY <1>8, <1>9 DEF Use, Delete
<1>10. ASSUME UNCHANGED <<receipts, stock>> PROVE R /\ S
  BY <1>1, <1>2, <1>10
<1>11. R /\ S
  <2> HIDE DEF R, S
  <2>1. \/ UNCHANGED <<receipts, stock>>
        \/ \E p \in Operations : Writes(p)
        \/ \E e \in Epcs : Directs(e)
        \/ \E e \in Epcs : Use(e) \/ Delete(e)
    BY StepCases, RebatchesFrame, AdvancesFrame, EndsFrame, LabelsFrame, RestartFrame, StutterFrame
  <2>2. CASE UNCHANGED <<receipts, stock>>
    BY <1>10, <2>2
  <2>3. CASE \E p \in Operations : Writes(p)
    BY <1>6, <2>3
  <2>4. CASE \E e \in Epcs : Directs(e)
    BY <1>7, <2>4
  <2>5. CASE \E e \in Epcs : Use(e) \/ Delete(e)
    BY <1>9, <2>5
  <2> QED  BY <2>1, <2>2, <2>3, <2>4, <2>5
<1> QED  BY <1>11

\* A label once printed says what it says.
LEMMA LabelKept ==
    ASSUME IInv, [Next]_vars, NEW e \in Epcs, labels[e] # None
    PROVE  /\ labels'[e] # None
           /\ labels'[e].goods = labels[e].goods
           /\ labels'[e].by = labels[e].by
<1>1. LabelEffect(e)
  BY LabelChanges
<1>2. CASE labels'[e] = labels[e]
  BY <1>2
<1>3. CASE Fresh(e)
  BY <1>3, FreshMeans
<1>4. CASE /\ direct[e].print = "pending"
           /\ labels'[e] = Label("direct", None, 0, direct[e].goods)
  <2>1. direct[e].pc # "none"
    BY <1>4 DEF IInv, TaskSound
  <2>2. labels[e].by = "direct" /\ labels[e].goods = direct[e].goods /\ direct[e].goods \in Goods
    BY <2>1 DEF IInv, TaskSound
  <2>3. labels'[e].by = "direct" /\ labels'[e].goods = direct[e].goods
    BY <1>4 DEF Label
  <2>4. labels'[e] \in LabelRows
    BY <1>4, <2>2 DEF Label, LabelRows
  <2> QED  BY <2>2, <2>3, <2>4, LabelIsNotNone
<1> QED  BY <1>1, <1>2, <1>3, <1>4 DEF LabelEffect

\* What was prepared stays prepared.
LEMMA PreparedKept ==
    ASSUME IInv, [Next]_vars, NEW l \in LabelRows, Prepared(l)
    PROVE  Prepared(l)'
<1>1. CASE UNCHANGED <<current, history, identities, answered>>
  BY <1>1 DEF Prepared
<1>2. CASE Begins
  <2>1. PICK b \in Batches, g \in Goods :
           /\ identities[b] = 0
           /\ current' = [id |-> b, code |-> NewCode, revision |-> 1, active |-> TRUE,
                          goods |-> g, prints |-> {}]
           /\ identities' = [identities EXCEPT ![b] = NewCode]
    BY <1>2, Zenon DEF Begins
  <2>2. current'.id = b /\ l.batch # b
    BY <2>1 DEF Prepared
  <2>3. identities'[l.batch] = identities[l.batch]
    BY <2>1, <2>2 DEF IInv, Typed, Prepared
  <2> QED  BY <2>2, <2>3 DEF Prepared
<1>3. CASE Continues
  <2>1. current # None /\ current \in BatchRows /\ current.revision \in Nat /\ l.revision \in Nat
    BY <1>3 DEF Continues, IInv, Typed, BatchRows, LabelRows
  <2>2. current'.revision \in Nat
    BY <1>3 DEF Continues, BatchRows
  <2> QED  BY <1>3, <2>1, <2>2 DEF Prepared, Continues
<1> QED  BY <1>1, <1>2, <1>3, BatchEffect

\* The part of the invariant about one label code is inductive.
LEMMA CodeStep ==
    ASSUME IInv, [Next]_vars, NEW e \in Epcs
    PROVE  LabelSound(e)' /\ TaskSound(e)' /\ ReceiptSound(e)' /\ StockSound(e)'
<1>i. LabelSound(e) /\ TaskSound(e) /\ ReceiptSound(e) /\ StockSound(e)
  BY DEF IInv
<1>t. /\ labels[e] \in LabelRows \cup {None} /\ labels'[e] \in LabelRows \cup {None}
      /\ direct[e] \in Tasks /\ receipts[e] \in ReceiptRows /\ stock[e] \in StockRows
      /\ direct'[e] \in Tasks
  BY LabelChanges, DirectChanges DEF IInv, Typed
<1>l. LabelEffect(e)
  BY LabelChanges
<1>d. DirectEffect(e)
  BY DirectChanges
<1>r. ReceiptEffect(e)
  BY StockChanges
<1>s. StockEffect(e)
  BY StockChanges
<1>k. labels[e] # None => /\ labels'[e] # None
                          /\ labels'[e].goods = labels[e].goods
                          /\ labels'[e].by = labels[e].by
  BY LabelKept
<1>o. ASSUME NEW p \in Operations, op[p].epc = e
      PROVE  /\ op[p].pc \in {"upsert", "submit"} =>
                  /\ op[p].goods \in Goods
                  /\ labels[e] # None /\ labels[e].goods = op[p].goods /\ labels[e].by # "direct"
  BY <1>o DEF IInv, HandlerSound
<1>1. LabelSound(e)'
  <2>1. CASE labels'[e] = labels[e]
    BY <2>1, <1>i, <1>t, PreparedKept DEF LabelSound
  <2>2. CASE /\ labels'[e].by = "client" => /\ Active
                                      /\ labels'[e].batch = current.id
                                      /\ labels'[e].revision = current.revision
                                      /\ labels'[e].goods = current.goods
             /\ UNCHANGED <<current, identities, receipts, stock, direct>>
    <3> SUFFICES ASSUME labels'[e] # None, labels'[e].by = "client"
                 PROVE  Prepared(labels[e])'
      BY DEF LabelSound
    <3>1. current # None /\ labels'[e].batch = current.id
          /\ labels'[e].revision = current.revision /\ labels'[e].goods = current.goods
      BY <2>2 DEF Active
    <3>2. current.id \in Batches /\ identities[current.id] # 0 /\ current.revision \in Nat
      BY <3>1 DEF IInv, Typed, BatchRows, BatchSound
    <3> QED  BY <2>2, <3>1, <3>2 DEF Prepared
  <2>3. CASE labels'[e] = Label("direct", None, 0, direct[e].goods)
    BY <2>3 DEF Label, LabelSound
  <2> QED  BY <1>l, <2>1, <2>2, <2>3 DEF LabelEffect
<1>2. TaskSound(e)'
  <2>1. CASE direct'[e] = direct[e] /\ labels'[e] = labels[e]
    <3>1. stock'[e] = stock[e] \/ direct[e].pc \notin {"create", "wait"}
      <4>1. direct[e].pc \in {"create", "wait"} => stock[e].status = "none"
        BY <1>i DEF TaskSound, NoRow
      <4>2. ASSUME NEW p \in Operations, op[p].pc = "submit", op[p].epc = e,
                   direct[e].pc \in {"create", "wait"}
            PROVE  FALSE
        BY <1>o, <4>2, <1>i DEF TaskSound
      <4> QED  BY <1>s, <2>1, <4>1, <4>2 DEF StockEffect
    <3> QED  BY <2>1, <3>1, <1>i DEF TaskSound, NoRow
  <2>2. CASE direct'[e] = direct[e] /\ labels'[e] # labels[e]
    <3>1. stock'[e] = stock[e]
      BY <1>l, <2>2 DEF LabelEffect
    <3>2. CASE Fresh(e) /\ labels'[e] \in LabelRows /\ labels'[e].by # "direct"
      <4>1. direct[e].pc = "none" /\ direct[e].print = "none" /\ direct[e].goods = None
        BY <3>2, FreshMeans DEF NoTask
      <4> QED  BY <2>2, <3>2, <4>1 DEF TaskSound
    <3>3. CASE /\ direct[e].print = "pending"
               /\ labels'[e] = Label("direct", None, 0, direct[e].goods)
      <4>1. labels'[e].by = "direct" /\ labels'[e].goods = direct[e].goods
        BY <3>3 DEF Label
      <4> QED  BY <2>2, <3>1, <3>3, <4>1, <1>i DEF TaskSound, NoRow
    <3> QED  BY <1>l, <2>2, <3>2, <3>3 DEF LabelEffect
  <2>3. CASE /\ Fresh(e)
             /\ direct'[e].pc # "none" /\ direct'[e].print = "pending" /\ direct'[e].goods \in Goods
             /\ UNCHANGED <<labels, receipts, stock>>
    <3>1. labels[e] = None
      BY <2>3, FreshMeans
    <3>2. stock[e] = NoRow
      BY <3>1, <1>i DEF StockSound
    <3> QED  BY <2>3, <3>1, <3>2 DEF TaskSound, NoRow
  <2>4. CASE /\ direct[e].pc # "none" /\ direct'[e].pc # "none"
             /\ direct'[e].goods = direct[e].goods
             /\ direct'[e].print = "ok" => direct[e].print = "ok" \/ labels'[e] # None
             /\ direct'[e].pc \in {"create", "wait"} =>
                  direct[e].pc \in {"create", "wait"} /\ stock' = stock
    <3>1. ~ Fresh(e)
      BY <2>4, FreshMeans DEF NoTask
    <3>2. labels'[e] = labels[e] \/ labels'[e] = Label("direct", None, 0, direct[e].goods)
      BY <1>l, <3>1 DEF LabelEffect
    <3>3. labels'[e] # None => labels'[e].by = "direct" /\ labels'[e].goods = direct[e].goods
      BY <1>i, <2>4, <3>2 DEF TaskSound, Label
    <3>4. direct'[e].print = "ok" => labels'[e] # None
      BY <1>i, <1>k, <2>4 DEF TaskSound
    <3> QED  BY <1>i, <2>4, <3>3, <3>4 DEF TaskSound, NoRow
  <2> QED  BY <1>d, <2>1, <2>2, <2>3, <2>4 DEF DirectEffect
<1>3. direct[e].pc # "none" => direct'[e].pc # "none" /\ direct'[e].goods = direct[e].goods
  <2>1. ~ Fresh(e) \/ direct[e].pc = "none"
    BY FreshMeans DEF NoTask
  <2> QED  BY <2>1, <1>d DEF DirectEffect
<1>4. labels'[e] # None => labels[e] # None \/ receipts[e] = NoRow
                           \/ labels'[e].goods = direct[e].goods
  BY <1>l, FreshMeans DEF LabelEffect, Label
<1>5. ReceiptSound(e)'
  <2>1. CASE receipts'[e] = receipts[e]
    BY <2>1, <1>i, <1>k, <1>3, <1>4 DEF ReceiptSound, NoRow
  <2>2. CASE receipts'[e] = NoRow
    BY <2>2 DEF ReceiptSound, NoRow
  <2>3. ASSUME NEW p \in Operations, op[p].pc = "upsert", op[p].epc = e,
               receipts'[e] = [status |-> "draft", goods |-> op[p].goods]
        PROVE  ReceiptSound(e)'
    BY <1>o, <2>3, <1>k DEF ReceiptSound
  <2>4. CASE /\ receipts[e].status = "draft"
             /\ receipts'[e] = [status |-> "submitted", goods |-> receipts[e].goods]
    <3>1. receipts[e] # NoRow
      BY <2>4 DEF NoRow
    <3> QED  BY <2>4, <3>1, <1>i, <1>k, <1>3, <1>4 DEF ReceiptSound
  <2>5. CASE /\ direct[e].pc = "create"
             /\ receipts'[e] = [status |-> "draft", goods |-> direct[e].goods]
    <3>1. direct[e].goods \in Goods /\ direct[e].pc # "none"
      BY <1>i, <2>5 DEF TaskSound
    <3>2. ~ Fresh(e)
      BY <3>1, FreshMeans DEF NoTask
    <3>3. labels'[e] # None => labels'[e].goods = direct[e].goods
      BY <1>i, <1>l, <3>1, <3>2 DEF TaskSound, Label, LabelEffect
    <3> QED  BY <2>5, <3>1, <3>3, <1>3 DEF ReceiptSound
  <2> QED  BY <1>r, <2>1, <2>2, <2>3, <2>4, <2>5 DEF ReceiptEffect
<1>6. StockSound(e)'
  <2>1. CASE stock'[e] = stock[e]
    BY <2>1, <1>i, <1>k DEF StockSound, NoRow
  <2>2. ASSUME stock[e].status = "available", NEW s \in {"used", "deleted"},
               stock'[e] = [stock[e] EXCEPT !.status = s]
        PROVE  StockSound(e)'
    <3>1. stock'[e].status = s /\ stock'[e].goods = stock[e].goods /\ stock[e] # NoRow
      BY <2>2, <1>t DEF StockRows, NoRow
    <3> QED  BY <3>1, <1>i, <1>k DEF StockSound
  <2>3. ASSUME Submits(e), stock'[e] = [status |-> "available", goods |-> receipts[e].goods],
               labels[e] # None
        PROVE  StockSound(e)'
    <3>1. receipts[e] # NoRow
      BY <2>3 DEF Submits, NoRow
    <3>2. labels[e].goods = receipts[e].goods
      BY <1>i, <2>3, <3>1 DEF ReceiptSound
    <3> QED  BY <2>3, <3>2, <1>k DEF StockSound
  <2>4. ASSUME NEW p \in Operations, op[p].pc = "submit", op[p].epc = e PROVE labels[e] # None
    BY <1>o, <2>4
  <2>5. direct[e].print = "ok" => labels[e] # None
    BY <1>i DEF TaskSound
  <2> QED  BY <1>s, <2>1, <2>2, <2>3, <2>4, <2>5 DEF StockEffect
<1> QED  BY <1>1, <1>2, <1>5, <1>6

-----------------------------------------------------------------------------
(***************************************************************************)
(* The operations.                                                         *)
(***************************************************************************)

Working == {"draft", "stock", "create", "upsert", "submit", "record"}
Booking == {"create", "upsert", "submit"}

\* An operation stays, ends, is left to fail the batch, asks the driver, takes
\* up a label nobody else works on (or is recorded to share), or goes on with
\* its label.
HandlerEffect(p) ==
    \/ op'[p] = op[p]
    \/ op'[p].pc = "idle" /\ op'[p].epc = None
    \/ op[p].pc # "idle" /\ op'[p].pc = "fail" /\ op'[p].epc = None /\ op'[p].batch = op[p].batch
    \/ /\ op'[p].pc = "print" /\ op'[p].epc = None /\ op'[p].goods \in Goods
       /\ current # None /\ current.id = op'[p].batch
    \/ /\ op'[p].pc = "draft" /\ op'[p].goods \in Goods /\ op'[p].epc \in Epcs
       /\ current # None /\ current.id = op'[p].batch
       /\ labels'[op'[p].epc] # None
       /\ labels'[op'[p].epc].goods = op'[p].goods
       /\ labels'[op'[p].epc].by # "direct"
       /\ op'[p].epc \in shared' \/ \A q \in Operations : op[q].epc # op'[p].epc
       /\ \A q \in Operations \ {p} : op'[q] = op[q]
    \/ /\ op[p].pc \in Working /\ op'[p].pc \in Working
       /\ op'[p].batch = op[p].batch /\ op'[p].epc = op[p].epc /\ op'[p].goods = op[p].goods
       /\ op'[p].pc \in Booking => op[p].pc \in Booking \/ ~ Booked(op[p].epc)

\* A step of one handler.
LEMMA OneHandler ==
    ASSUME IInv, NEW p \in Operations, NEW r \in Handlers, op' = [op EXCEPT ![p] = r],
           HandlerEffect(p)
    PROVE  op' \in [Operations -> Handlers] /\ \A q \in Operations : HandlerEffect(q)
<1>t. op \in [Operations -> Handlers]
  BY DEF IInv, Typed
<1>1. \A q \in Operations : q # p => HandlerEffect(q)
  BY <1>t DEF HandlerEffect
<1> QED  BY <1>t, <1>1

\* The row without a status.
LEMMA NoRowType == NoRow \in ReceiptRows
BY DEF NoRow, ReceiptRows

\* Ending, failing and going on.
LEMMA ToIdle ==
    ASSUME IInv, NEW p \in Operations, op' = [op EXCEPT ![p] = Idle]
    PROVE  op' \in [Operations -> Handlers] /\ \A q \in Operations : HandlerEffect(q)
<1>1. Idle \in Handlers /\ Idle.pc = "idle" /\ Idle.epc = None
  BY NoRowType DEF Idle, Handlers, Steps
<1>2. HandlerEffect(p)
  BY <1>1 DEF IInv, Typed, HandlerEffect
<1> QED  BY <1>1, <1>2, OneHandler

\* An operation that fails is a change HandlerEffect allows.
LEMMA ToFail ==
    ASSUME IInv, NEW p \in Operations, op[p].pc # "idle", Fails(p)
    PROVE  op' \in [Operations -> Handlers] /\ \A q \in Operations : HandlerEffect(q)
<1> DEFINE r == [Idle EXCEPT !.pc = "fail", !.batch = op[p].batch]
<1>1. op' = [op EXCEPT ![p] = r]
  BY DEF Fails
<1>2. op[p].batch \in Batches \cup {None}
  BY DEF IInv, Typed, Handlers
<1>3. r \in Handlers /\ r.pc = "fail" /\ r.epc = None /\ r.batch = op[p].batch
  BY <1>2, NoRowType DEF Idle, Handlers, Steps
<1> HIDE DEF r
<1>4. HandlerEffect(p)
  BY <1>1, <1>3 DEF IInv, Typed, HandlerEffect
<1> QED  BY <1>1, <1>3, <1>4, OneHandler

\* An operation that goes on to its next step is a change HandlerEffect allows.
LEMMA ToStep ==
    ASSUME IInv, NEW p \in Operations, NEW s \in Working, NEW d \in ReceiptRows,
           op[p].pc \in Working, s \in Booking => op[p].pc \in Booking \/ ~ Booked(op[p].epc),
           op' = [op EXCEPT ![p].pc = s, ![p].draft = d]
    PROVE  op' \in [Operations -> Handlers] /\ \A q \in Operations : HandlerEffect(q)
<1> DEFINE r == [op[p] EXCEPT !.pc = s, !.draft = d]
<1>t. op \in [Operations -> Handlers] /\ op[p] \in Handlers
  BY DEF IInv, Typed
<1>1. op' = [op EXCEPT ![p] = r]
  BY <1>t
<1>2. s \in Steps
  BY DEF Working, Steps
<1>3. r \in Handlers /\ r.pc = s /\ r.epc = op[p].epc /\ r.batch = op[p].batch
      /\ r.goods = op[p].goods
  BY <1>2, <1>t DEF Handlers
<1> HIDE DEF r
<1>4. HandlerEffect(p)
  BY <1>1, <1>3, <1>t DEF HandlerEffect
<1> QED  BY <1>1, <1>3, <1>4, OneHandler

\* An operation that begins a print is a change HandlerEffect allows.
LEMMA ToPrint ==
    ASSUME IInv, NEW p \in Operations, NEW b \in Batches, NEW g \in Goods,
           current # None, current.id = b,
           op' = [op EXCEPT ![p] = [Idle EXCEPT !.pc = "print", !.batch = b, !.goods = g]]
    PROVE  op' \in [Operations -> Handlers] /\ \A q \in Operations : HandlerEffect(q)
<1> DEFINE r == [Idle EXCEPT !.pc = "print", !.batch = b, !.goods = g]
<1>1. op' = [op EXCEPT ![p] = r]
  OBVIOUS
<1>3. r \in Handlers /\ r.pc = "print" /\ r.epc = None /\ r.batch = b /\ r.goods = g
  BY NoRowType DEF Idle, Handlers, Steps
<1> HIDE DEF r
<1>4. HandlerEffect(p)
  BY <1>1, <1>3 DEF IInv, Typed, HandlerEffect
<1> QED  BY <1>1, <1>3, <1>4, OneHandler

\* How the operations change.
LEMMA HandlerChanges ==
    ASSUME IInv, [Next]_vars
    PROVE  op' \in [Operations -> Handlers] /\ \A p \in Operations : HandlerEffect(p)
<1> DEFINE H == op' \in [Operations -> Handlers] /\ \A p \in Operations : HandlerEffect(p)
<1>t. op \in [Operations -> Handlers]
  BY DEF IInv, Typed
<1>c. current # None => current.id \in Batches /\ current.goods \in Goods
  BY DEF IInv, Typed, BatchRows
<1>1. ASSUME op' = op PROVE H
  BY <1>1, <1>t DEF HandlerEffect
<1>2. ASSUME NEW p \in Operations, NEW b \in Batches, NEW r \in 1 .. MaxRevision, AskDriver(p, b, r)
      PROVE  H
  <2>1. current # None /\ current.id = b
        /\ op' = [op EXCEPT ![p] = [Idle EXCEPT !.pc = "print", !.batch = b, !.goods = current.goods]]
    BY <1>2 DEF AskDriver, Accepts, Active
  <2> QED  BY <2>1, <1>c, ToPrint
<1>3. ASSUME NEW p \in Operations, NEW e \in Epcs, Confirm(p, e) PROVE H
  <2> DEFINE r == [Idle EXCEPT !.pc = "draft", !.by = "client", !.epc = e,
                               !.batch = current.id, !.goods = current.goods]
  <2>1. /\ labels[e] # None /\ labels[e].by = "client"
        /\ current # None /\ current.id = labels[e].batch /\ current.revision = labels[e].revision
        /\ op' = [op EXCEPT ![p] = r]
        /\ labels' = labels
        /\ e \in shared' \/ \A q \in Operations : op[q].epc # e
    BY <1>3 DEF Confirm, Accepts, Active
  <2>2. labels[e].goods = current.goods
    BY <2>1 DEF IInv, LabelSound, Prepared
  <2>3. r \in Handlers /\ r.pc = "draft" /\ r.epc = e /\ r.batch = current.id
        /\ r.goods = current.goods
    BY <2>1, <1>c, NoRowType DEF Idle, Handlers, Steps
  <2> HIDE DEF r
  <2>4. op'[p] = r /\ \A q \in Operations \ {p} : op'[q] = op[q]
    BY <2>1, <1>t
  <2>5. HandlerEffect(p)
    BY <2>1, <2>2, <2>3, <2>4, <1>c DEF HandlerEffect
  <2> QED  BY <2>1, <2>3, <2>5, OneHandler
<1>4. ASSUME NEW p \in Operations, ReadDraft(p) PROVE H
  <2>1. op[p].pc = "draft" /\ op[p].epc \in Epcs
    BY <1>4 DEF ReadDraft, IInv, HandlerSound
  <2>2. receipts[op[p].epc] \in ReceiptRows
    BY <2>1 DEF IInv, Typed
  <2>3. op' = [op EXCEPT ![p].pc = "stock", ![p].draft = receipts[op[p].epc]]
    BY <1>4 DEF ReadDraft
  <2>4. op[p].pc \in Working /\ "stock" \in Working /\ "stock" \notin Booking
    BY <2>1 DEF Working, Booking
  <2> QED  BY <2>2, <2>3, <2>4, ToStep
<1>5. ASSUME NEW p \in Operations, NEW s \in Working, Goto(p, s), op[p].pc \in Working,
             s \in Booking => op[p].pc \in Booking \/ ~ Booked(op[p].epc)
      PROVE  H
  BY <1>5, NoRowType, ToStep DEF Goto
<1>6. ASSUME NEW p \in Operations, ReadStock(p) PROVE H
  <2>1. op[p].pc = "stock" /\ op[p].pc \in Working /\ {"record", "create", "submit"} \subseteq Working
        /\ "record" \notin Booking
    BY <1>6 DEF ReadStock, Working, Booking
  <2>2. \/ Fails(p)
        \/ Goto(p, "record")
        \/ ~ Booked(op[p].epc) /\ (Goto(p, "create") \/ Goto(p, "submit"))
    BY <1>6, Zenon DEF ReadStock
  <2>3. CASE Fails(p)
    BY <2>1, <2>3, ToFail
  <2> HIDE DEF H
  <2> QED  BY <1>5, <2>1, <2>2, <2>3 DEF H
<1>7. ASSUME NEW p \in Operations, CheckDeleted(p) PROVE H
  <2>1. op[p].pc = "create" /\ op[p].pc \in Working /\ op[p].pc \in Booking /\ "upsert" \in Working
    BY <1>7 DEF CheckDeleted, Working, Booking
  <2>2. Fails(p) \/ Goto(p, "upsert")
    BY <1>7 DEF CheckDeleted
  <2>3. CASE Fails(p)
    BY <2>1, <2>3, ToFail
  <2> HIDE DEF H
  <2> QED  BY <1>5, <2>1, <2>2, <2>3 DEF H
<1>8. ASSUME NEW p \in Operations, Drop(p) PROVE H
  BY <1>8, ToIdle DEF Drop
<1>9. ASSUME NEW p \in Operations, StoreFails(p) PROVE H
  BY <1>9, ToFail DEF StoreFails
<1>10. ASSUME NEW p \in Operations, Record(p) PROVE H
  <2> DEFINE o == op[p]
  <2>1. o.pc = "record" /\ current # None /\ current.id = o.batch
    BY <1>10 DEF Record
  <2>2. o.goods \in Goods
    BY <2>1 DEF IInv, HandlerSound
  <2>3. \/ op' = [op EXCEPT ![p] = Idle]
        \/ op' = [op EXCEPT ![p] = [Idle EXCEPT !.pc = "print", !.batch = o.batch, !.goods = o.goods]]
    BY <1>10 DEF Record
  <2>4. CASE op' = [op EXCEPT ![p] = Idle]
    BY <2>4, ToIdle
  <2>5. CASE op' = [op EXCEPT ![p] = [Idle EXCEPT !.pc = "print", !.batch = o.batch, !.goods = o.goods]]
    BY <2>1, <2>2, <2>5, <1>c, ToPrint
  <2> QED  BY <2>3, <2>4, <2>5
<1>11. ASSUME NEW p \in Operations, FailBatch(p) PROVE H
  BY <1>11, ToIdle DEF FailBatch
<1>12. ASSUME NEW p \in Operations, CreateDraft(p) PROVE H
  <2>1. op[p].pc \in Working /\ op[p].pc \in Booking /\ "submit" \in Working /\ Goto(p, "submit")
    BY <1>12 DEF CreateDraft, Working, Booking
  <2> QED  BY <1>5, <2>1
<1>13. ASSUME NEW p \in Operations, Submit(p) PROVE H
  <2>1. op[p].pc = "submit" /\ op[p].pc \in Working /\ "record" \in Working /\ "record" \notin Booking
    BY <1>13 DEF Submit, Working, Booking
  <2>2. Fails(p) \/ Goto(p, "record")
    BY <1>13 DEF Submit
  <2>3. CASE Fails(p)
    BY <2>1, <2>3, ToFail
  <2> HIDE DEF H
  <2> QED  BY <1>5, <2>1, <2>2, <2>3 DEF H
<1>14. ASSUME NEW p \in Operations, NEW e \in Epcs, DriverPrints(p, e) PROVE H
  <2> DEFINE r == [op[p] EXCEPT !.pc = "draft", !.epc = e]
             l == Label("driver", op[p].batch, 0, op[p].goods)
  <2>1. op[p].pc = "print" /\ Fresh(e) /\ labels' = [labels EXCEPT ![e] = l]
    BY <1>14 DEF DriverPrints
  <2>t. op[p] \in Handlers
    BY <1>t
  <2>2. op' = [op EXCEPT ![p] = r]
    BY <1>14, <1>t DEF DriverPrints
  <2>3. r \in Handlers /\ r.pc = "draft" /\ r.epc = e /\ r.batch = op[p].batch
        /\ r.goods = op[p].goods
    BY <2>t DEF Handlers, Steps
  <2>4. op[p].goods \in Goods /\ current # None /\ current.id = op[p].batch
    BY <2>1 DEF IInv, HandlerSound
  <2>5. l \in LabelRows /\ l.goods = op[p].goods /\ l.by = "driver"
    BY <2>4, <2>t DEF Label, LabelRows, Handlers
  <2>6. labels'[e] = l /\ l # None
    BY <2>1, <2>5, LabelIsNotNone DEF IInv, Typed
  <2> HIDE DEF r, l
  <2>7. op'[p] = r /\ \A q \in Operations \ {p} : op'[q] = op[q]
    BY <2>2, <1>t
  <2>8. \A q \in Operations : op[q].epc # e
    BY <2>1, FreshMeans
  <2>9. HandlerEffect(p)
    BY <2>3, <2>4, <2>5, <2>6, <2>7, <2>8 DEF HandlerEffect
  <2> QED  BY <2>2, <2>3, <2>9, OneHandler
<1>15. ASSUME NEW p \in Operations, DriverFails(p) PROVE H
  BY <1>15, ToFail DEF DriverFails
<1>16. ASSUME Restart PROVE H
  <2>1. Idle \in Handlers /\ Idle.pc = "idle" /\ Idle.epc = None
    BY NoRowType DEF Idle, Handlers, Steps
  <2>2. op' = [p \in Operations |-> Idle]
    BY <1>16 DEF Restart
  <2> QED  BY <2>1, <2>2 DEF HandlerEffect
<1>17. ASSUME NEW p \in Operations, Advances(p) \/ Ends(p) \/ Writes(p) PROVE H
  <2> HIDE DEF H
  <2> QED  BY <1>17, <1>2, <1>3, <1>4, <1>6, <1>7, <1>8, <1>9, <1>10, <1>11, <1>12, <1>13, Zenon
           DEF Advances, Ends, Writes
<1>18. ASSUME Labels PROVE H
  <2>1. ASSUME NEW e \in Epcs, NEW b \in Batches, NEW r \in 1 .. MaxRevision, Prepare(e, b, r)
        PROVE  op' = op
    BY <2>1 DEF Prepare
  <2> HIDE DEF H
  <2> QED  BY <1>18, <1>1, <1>14, <1>15, <2>1, Zenon DEF Labels
<1>19. H
  <2>1. \/ op' = op
        \/ \E p \in Operations : Advances(p) \/ Ends(p) \/ Writes(p)
        \/ Labels
        \/ Restart
    BY StepCases, RebatchesFrame, DirectsFrame, MovesFrame, StutterFrame
  <2> HIDE DEF H
  <2> QED  BY <1>1, <1>16, <1>17, <1>18, <2>1, Zenon
<1> QED  BY <1>19

\* Sharing is never forgotten, and answers are about batches and labels.
LEMMA SharedGrows ==
    ASSUME IInv, [Next]_vars
    PROVE  shared \subseteq shared'
<1>1. ASSUME NEW p \in Operations, Advances(p) PROVE shared \subseteq shared'
  BY <1>1 DEF Advances, AskDriver, Confirm, ReadDraft, ReadStock, CheckDeleted, Drop, StoreFails
<1> QED
  BY <1>1, StepCases, RebatchesFrame, EndsFrame, WritesFrame, LabelsFrame, DirectsFrame, MovesFrame,
     RestartFrame, StutterFrame

\* Only prints of known batches and codes are answered with success.
LEMMA AnsweredType ==
    ASSUME IInv, [Next]_vars
    PROVE  answered' \subseteq Batches \X Epcs
<1>t. answered \subseteq Batches \X Epcs
  BY DEF IInv, Typed
<1>1. ASSUME NEW p \in Operations, Ends(p) PROVE answered' \subseteq Batches \X Epcs
  <2>1. CASE Record(p)
    <3>1. op[p].pc = "record" /\ current # None /\ current.id = op[p].batch
          /\ answered' = answered \cup {<<op[p].batch, op[p].epc>>}
      BY <2>1 DEF Record
    <3>2. op[p].epc \in Epcs
      BY <3>1 DEF IInv, HandlerSound
    <3>3. op[p].batch \in Batches
      BY <3>1 DEF IInv, Typed, BatchRows
    <3> QED  BY <1>t, <3>1, <3>2, <3>3
  <2>2. CASE FailBatch(p)
    BY <2>2, <1>t DEF FailBatch
  <2> QED  BY <1>1, <2>1, <2>2 DEF Ends
<1>2. answered' = answered \/ \E p \in Operations : Ends(p)
  BY StepCases, RebatchesFrame, AdvancesFrame, WritesFrame, LabelsFrame, DirectsFrame, MovesFrame,
     RestartFrame, StutterFrame
<1> QED  BY <1>1, <1>2, <1>t

\* While an operation runs, its batch keeps the owner's row: a start waits for
\* the lock.
LEMMA RowKept ==
    ASSUME IInv, [Next]_vars, NEW p \in Operations, op[p].pc # "idle"
    PROVE  current' # None /\ current'.id = current.id
<1>1. current # None
  BY DEF IInv, HandlerSound
<1>2. ~ Begins
  BY DEF Begins, WriteLock
<1>3. CASE Continues
  BY <1>3, RowIsNotNone DEF Continues
<1> QED  BY <1>1, <1>2, <1>3, BatchEffect

\* The part of the invariant about operations is inductive.
LEMMA HandlerStep ==
    ASSUME IInv, [Next]_vars, NEW p \in Operations
    PROVE  HandlerSound(op[p])'
<1> DEFINE o == op[p]
           n == op'[p]
<1>i. HandlerSound(o)
  BY DEF IInv
<1>h. HandlerEffect(p)
  BY HandlerChanges
<1>r. o.pc # "idle" => current' # None /\ current'.id = current.id
  BY RowKept
<1>0. n.pc # "idle" => current' # None /\ current'.id = n.batch
  <2>1. CASE o.pc # "idle"
    BY <2>1, <1>i, <1>r, <1>h DEF HandlerSound, HandlerEffect, Working
  <2>2. CASE o.pc = "idle" /\ n.pc # "idle"
    <3>1. current # None /\ current.id = n.batch
      BY <2>2, <1>h DEF HandlerEffect, Working
    <3>2. op' # op
      BY <2>2
    <3>3. current' = current
      <4>1. ASSUME NEW q \in Operations, Ends(q) PROVE FALSE
        <5>1. op[q].pc # "idle"
          BY <4>1 DEF Ends, Record, FailBatch
        <5>2. op'[p] = op[p]
          BY <2>2, <4>1, <5>1 DEF Ends, Record, FailBatch, IInv, Typed
        <5> QED  BY <2>2, <5>2
      <4> QED  BY <3>2, <4>1, StepCases, RebatchesFrame, AdvancesFrame, WritesFrame, LabelsFrame,
                  DirectsFrame, MovesFrame, RestartFrame, StutterFrame
    <3> QED  BY <3>1, <3>3
  <2> QED  BY <2>1, <2>2
<1>1. n.pc \in {"idle", "print", "fail"} => n.epc = None
  BY <1>i, <1>h DEF HandlerSound, HandlerEffect, Working
<1>2. n.pc \notin {"idle", "fail"} => n.goods \in Goods
  BY <1>i, <1>h DEF HandlerSound, HandlerEffect, Working
<1>3. ASSUME o.pc \in Working
      PROVE  /\ o.epc \in Epcs
             /\ labels'[o.epc] # None
             /\ labels'[o.epc].goods = o.goods
             /\ labels'[o.epc].by # "direct"
  <2>1. o.epc \in Epcs /\ labels[o.epc] # None /\ labels[o.epc].goods = o.goods
        /\ labels[o.epc].by # "direct"
    BY <1>3, <1>i DEF HandlerSound, Working
  <2> QED  BY <2>1, LabelKept
<1>4. n.pc \in Working => \/ o.pc \in Working /\ n.epc = o.epc /\ n.goods = o.goods
                          \/ /\ n.epc \in Epcs
                             /\ labels'[n.epc] # None
                             /\ labels'[n.epc].goods = n.goods
                             /\ labels'[n.epc].by # "direct"
  BY <1>h DEF HandlerEffect, Working
<1>5. n.pc \notin {"idle", "print", "fail"} =>
        /\ n.epc \in Epcs
        /\ labels'[n.epc] # None
        /\ labels'[n.epc].goods = n.goods
        /\ labels'[n.epc].by # "direct"
  <2>1. n.pc \in Steps
    BY HandlerChanges DEF Handlers
  <2>2. n.pc \notin {"idle", "print", "fail"} => n.pc \in Working
    BY <2>1 DEF Steps, Working
  <2> HIDE DEF n, o
  <2> QED  BY <1>3, <1>4, <2>2
<1>6. ASSUME n.pc \in Booking, n.epc \notin shared'
      PROVE  stock'[n.epc].status \in {"none", "deleted"}
  <2>1. o.pc \in Working /\ n.epc = o.epc /\ (o.pc \in Booking \/ ~ Booked(o.epc))
    BY <1>6, <1>h DEF HandlerEffect, Working, Booking
  <2>2. o.epc \in Epcs /\ labels[o.epc] # None /\ labels[o.epc].by # "direct"
    BY <2>1, <1>i DEF HandlerSound, Working
  <2>3. o.epc \notin shared
    BY <1>6, <2>1, SharedGrows
  <2>4. stock[o.epc].status \in {"none", "deleted"}
    BY <1>i, <2>1, <2>3 DEF HandlerSound, Booking, Booked
  <2>5. StockEffect(o.epc)
    BY <2>2, StockChanges
  <2>6. direct[o.epc].pc = "none"
    BY <2>2 DEF IInv, TaskSound
  <2>7. ASSUME NEW q \in Operations, op[q].pc = "submit", op[q].epc = o.epc, op'[q].pc = "record"
        PROVE  FALSE
    <3>1. q = p
      BY <2>2, <2>3, <2>7 DEF IInv, Alone
    <3> QED  BY <1>6, <2>7, <3>1 DEF Booking
  <2>8. stock'[o.epc] = stock[o.epc]
    <3> HIDE DEF o
    <3> QED  BY <2>4, <2>5, <2>6, <2>7 DEF StockEffect
  <2> QED  BY <2>1, <2>4, <2>8
<1> QED
  <2> HIDE DEF n
  <2>1. op'[p] = n
    BY DEF n
  <2> QED  BY <2>1, <1>0, <1>1, <1>2, <1>5, <1>6 DEF HandlerSound, Booking

\* Two operations on one label stay recorded.
LEMMA AloneStep ==
    ASSUME IInv, [Next]_vars
    PROVE  Alone'
<1> SUFFICES ASSUME NEW p \in Operations, NEW q \in Operations, op'[p].epc = op'[q].epc,
                    op'[p].epc \in Epcs, op'[p].epc \notin shared', p # q
             PROVE  FALSE
  BY DEF Alone
<1>0. None \notin Epcs
  BY ConstantsAssumption
<1>1. op'[p].epc \notin shared
  BY SharedGrows
<1>2. ASSUME NEW x \in Operations, NEW y \in Operations, x # y, op'[x].epc = op'[y].epc,
             op'[x].epc \in Epcs, op'[x].epc \notin shared'
      PROVE  op'[x].epc = op[x].epc
  <2>1. HandlerEffect(x)
    BY HandlerChanges
  <2>2. CASE /\ \A z \in Operations : op[z].epc # op'[x].epc
             /\ \A z \in Operations \ {x} : op'[z] = op[z]
    BY <1>2, <2>2
  <2> QED  BY <1>0, <1>2, <2>1, <2>2 DEF HandlerEffect
<1>3. op'[p].epc = op[p].epc
  BY <1>2
<1>4. op'[q].epc = op[q].epc
  BY <1>2
<1> QED  BY <1>1, <1>3, <1>4 DEF IInv, Alone

-----------------------------------------------------------------------------
(***************************************************************************)
(* The theorems.                                                           *)
(***************************************************************************)

\* The invariant holds at the start.
LEMMA InitEstablishes == Init => IInv
<1> SUFFICES ASSUME Init PROVE IInv
  OBVIOUS
<1>1. Typed
  <2>1. NoRow \in ReceiptRows /\ NoRow \in StockRows /\ NoTask \in Tasks /\ Idle \in Handlers
    BY NoRowType DEF NoRow, StockRows, NoTask, Tasks, Idle, Handlers, Steps
  <2> QED  BY <2>1 DEF Init, Typed
<1>2. CodesSound
  <2>1. Used = {}
    BY DEF Init, Used
  <2> QED  BY <2>1, FS_EmptySet DEF Init, CodesSound
<1>3. BatchSound /\ AnswersSound
  BY DEF Init, BatchSound, AnswersSound
<1>4. ASSUME NEW e \in Epcs PROVE LabelSound(e) /\ TaskSound(e) /\ ReceiptSound(e) /\ StockSound(e)
  BY DEF Init, LabelSound, TaskSound, ReceiptSound, StockSound, NoTask, NoRow
<1>5. ASSUME NEW p \in Operations PROVE HandlerSound(op[p]) /\ op[p].epc = None
  BY DEF Init, HandlerSound, Idle
<1>6. Alone
  BY <1>5, ConstantsAssumption DEF Alone
<1> QED  BY <1>1, <1>2, <1>3, <1>4, <1>5, <1>6 DEF IInv

\* Every step keeps it.
LEMMA StepKeeps == IInv /\ [Next]_vars => IInv'
<1> SUFFICES ASSUME IInv, [Next]_vars PROVE IInv'
  OBVIOUS
<1>1. Typed'
  BY BatchStep, LabelChanges, DirectChanges, StockChanges, HandlerChanges, AnsweredType
     DEF Typed, BatchTyped
<1>2. CodesSound' /\ BatchSound' /\ AnswersSound'
  BY BatchStep
<1>3. \A e \in Epcs : LabelSound(e)' /\ TaskSound(e)' /\ ReceiptSound(e)' /\ StockSound(e)'
  BY CodeStep
<1>4. \A p \in Operations : HandlerSound(op[p])'
  BY HandlerStep
<1>5. Alone'
  BY AloneStep
<1> QED  BY <1>1, <1>2, <1>3, <1>4, <1>5 DEF IInv

\* The inductive invariant holds in every reachable state: the handlers of
\* rps_batch.rs, the recording of the receipts, the direct print and restarts
\* all keep it.
THEOREM Inductive == Spec => []IInv
BY InitEstablishes, StepKeeps, PTL DEF Spec

\* A code is given to one id: with finitely many ids, no code exceeds their
\* number, and every row has the type TypeOK states (postgres_rps_batch.rs,
\* postgres_gscale_receipt_store.rs).
THEOREM TypeCorrect == Spec => []TypeOK
<1>1. IInv => TypeOK
  <2> SUFFICES ASSUME IInv PROVE TypeOK
    OBVIOUS
  <2> DEFINE N == Cardinality(Batches)
  <2>1. Used \subseteq Batches /\ IsFiniteSet(Batches)
    BY BatchesAssumption DEF Used
  <2>2. Cardinality(Used) <= N /\ Cardinality(Used) \in Nat /\ N \in Nat
    BY <2>1, FS_Subset, FS_CardinalityType
  <2>3. \A b \in Batches : identities[b] \in 0 .. N
    BY <2>2 DEF IInv, CodesSound, Typed
  <2>4. identities \in [Batches -> 0 .. N]
    BY <2>3 DEF IInv, Typed
  <2>5. ASSUME current # None
        PROVE  current \in [id : Batches, code : 1 .. N, active : BOOLEAN,
                            revision : 1 .. MaxRevision + 1, goods : Goods, prints : SUBSET Epcs]
    <3>1. current \in BatchRows
      BY <2>5 DEF IInv, Typed
    <3>2. current.code \in 1 .. N /\ current.revision \in 1 .. MaxRevision + 1
      <4>1. current.id \in Batches /\ current.code \in Nat
        BY <3>1 DEF BatchRows
      <4> QED  BY <2>2, <2>3, <2>5, <4>1 DEF IInv, BatchSound
    <3> HIDE DEF N
    <3> QED  BY <3>1, <3>2 DEF BatchRows
  <2>6. ASSUME NEW e \in Epcs
        PROVE  /\ receipts[e] = NoRow \/ receipts[e] \in [status : {"draft", "submitted"}, goods : Goods]
               /\ stock[e] = NoRow \/
                  stock[e] \in [status : {"available", "used", "deleted"}, goods : Goods]
    <3>1. receipts[e] \in ReceiptRows /\ stock[e] \in StockRows /\ labels[e] \in LabelRows \cup {None}
      BY DEF IInv, Typed
    <3>2. receipts[e] # NoRow => receipts[e].status # "none" /\ receipts[e].goods \in Goods
      BY DEF IInv, ReceiptSound
    <3>3. stock[e] # NoRow => stock[e].status # "none" /\ stock[e].goods \in Goods
      BY <3>1 DEF IInv, StockSound, LabelRows
    <3> QED  BY <3>1, <3>2, <3>3 DEF ReceiptRows, StockRows
  <2>7. history \in [Batches -> SUBSET Epcs] /\ answered \subseteq Batches \X Epcs
    BY DEF IInv, Typed
  <2> QED  BY <2>4, <2>5, <2>6, <2>7 DEF TypeOK
<1> QED  BY <1>1, Inductive, PTL

\* However operations overlap, fail, are dropped or cut off, none of them ever
\* finds another batch in its owner's row: record_print and
\* fail_batch_after_operation_error never meet batch_context_conflict.
THEOREM KeepsItsBatch == Spec => []OperationKeepsItsBatch
<1>1. IInv => OperationKeepsItsBatch
  BY DEF IInv, HandlerSound, OperationKeepsItsBatch
<1> QED  BY <1>1, Inductive, PTL

\* A print answered with success stays listed in its batch for ever, in the row
\* or in the history (record_print, fail_batch, PostgresRpsBatchStore::complete).
THEOREM PrintsListed == Spec => []EveryPrintIsListed
<1>1. IInv => EveryPrintIsListed
  <2> SUFFICES ASSUME IInv, NEW answer \in answered
               PROVE  answer[2] \in Shown(answer[1])
    BY DEF EveryPrintIsListed
  <2>1. PICK b \in Batches, e \in Epcs : answer = <<b, e>>
    BY DEF IInv, Typed
  <2>2. Listed(b, e)
    BY <2>1 DEF IInv, AnswersSound
  <2>3. e \in Shown(b)
    BY <2>2 DEF Listed, Shown, Active
  <2> QED  BY <2>1, <2>3
<1> QED  BY <1>1, Inductive, PTL

\* Stock is only ever booked for a label that was printed, and under the goods
\* the label says (record_confirmed_material_receipt, the direct print's task).
THEOREM StockMatches == Spec => []StockMatchesItsLabel
<1>1. IInv => StockMatchesItsLabel
  BY DEF IInv, StockSound, StockMatchesItsLabel
<1> QED  BY <1>1, Inductive, PTL

\* No retry brings a deleted roll back or makes a roll in use available again,
\* unless two operations worked on its code at once (submit_stock_entry_draft).
THEOREM NeverBookedTwice == Spec => BookedOnce
<1> DEFINE P == \A e \in Epcs :
                  /\ stock[e].status = "deleted" => stock'[e] = stock[e]
                  /\ stock[e].status = "used" /\ stock'[e].status = "available"
                      => e \in shared
<1>1. IInv /\ [Next]_vars => P
  <2> SUFFICES ASSUME IInv, [Next]_vars, NEW e \in Epcs
               PROVE  /\ stock[e].status = "deleted" => stock'[e] = stock[e]
                      /\ stock[e].status = "used" /\ stock'[e].status = "available"
                          => e \in shared
    OBVIOUS
  <2>1. StockEffect(e)
    BY StockChanges
  <2>2. stock[e].status = "deleted" => stock'[e] = stock[e]
    BY <2>1 DEF StockEffect, Submits
  <2>3. ASSUME NEW p \in Operations, op[p].pc = "submit", op[p].epc = e, stock[e].status = "used"
        PROVE  e \in shared
    BY <2>3 DEF IInv, HandlerSound
  <2>4. direct[e].pc = "wait" => stock[e].status # "used"
    BY DEF IInv, TaskSound, NoRow
  <2>5. stock[e].status = "used" /\ stock'[e].status = "available" => e \in shared
    BY <2>1, <2>3, <2>4 DEF StockEffect
  <2> QED  BY <2>2, <2>5
<1>2. IInv /\ [Next]_vars => [P]_vars
  BY <1>1
<1> QED  BY <1>2, Inductive, PTL DEF Spec, BookedOnce

=============================================================================
