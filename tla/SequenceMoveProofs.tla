------------------------- MODULE SequenceMoveProofs -------------------------
(***************************************************************************)
(* Proofs about SequenceMove, for any orders, administrators and keys and  *)
(* any number of moves, retries, losses and changes: the outbox and the    *)
(* screens that replay it, and that commit_once implements ReorderContract.*)
(***************************************************************************)
EXTENDS SequenceMove, QueueRulesProofs

(***************************************************************************)
(* The inductive invariant.  No list names an order twice; an event with   *)
(* an operation turns the list of its base version into that of its        *)
(* version; a request that waits has no answer yet, and asks for a move    *)
(* that passed validate.                                                   *)
(***************************************************************************)

Lists ==
    /\ maps \in Seq(Orders) /\ IsInjective(maps)
    /\ stored \in Seq(Orders) /\ IsInjective(stored)
    /\ frozen \subseteq Orders
    /\ states \in [Orders -> QueueStates]

Faithful(e) ==
    e \in Events /\ Applied(e.base_version.order_ids, e.op) = e.version.order_ids

Outbox ==
    /\ revision \in 0 .. MaxRevision
    /\ DOMAIN events \subseteq 1 .. revision
    /\ OutboxHasNoHole
    /\ \A r \in DOMAIN events : events[r] # Nothing => Faithful(events[r])

Views == [list : Seq(Orders), version : Lines, revision : Nat]

Screens == screen \in [Admins -> Views] /\ ReplayShowsTheVersion

Sent == [key : Keys, request : {m \in Requests : Valid(m)}]

InFlight ==
    /\ pc \in [Admins -> {"idle", "read", "locked", "answered"}]
    /\ attempt \in [Admins -> 0 .. MaxAttempts]
    /\ command \in [Admins -> Sent \union {NoCommand}]
    /\ answer \in [Admins -> Results \union {Nothing}]
    /\ \A c \in Admins : pc[c] # "answered" => answer[c] = Nothing
    /\ \A c \in Admins : pc[c] # "idle" => command[c] \in Sent

Kept == receipts \in [Admins -> [Keys -> Receipts \union {Nothing}]]

IInv == Lists /\ Outbox /\ Screens /\ InFlight /\ Kept

-----------------------------------------------------------------------------
(***************************************************************************)
(* The version of an apparatus.                                            *)
(***************************************************************************)

\* Line, of any saved list, maps, states and stops.
LineOf(sq, mp, st, fz) ==
    LET stopped == {o \in ToSet(mp) : o \in fz \/ st[o] = "frozen"}
        ids     == EffectiveSequence(sq, mp, stopped)
    IN  [order_ids |-> ids,
         states    |-> [o \in ToSet(ids) |-> Parsed(st[o])],
         frozen    |-> stopped]

\* Line is a function of the tables.
LEMMA LineIs ==
    /\ Line = LineOf(stored, maps, states, frozen)
    /\ Line' = LineOf(stored', maps', states', frozen')
BY DEF Line, LineOf, Visible

\* from_visible lists each visible order that is not stopped once.
LEMMA LineFacts ==
    ASSUME NEW sq \in Seq(Orders), NEW mp \in Seq(Orders),
           NEW st \in [Orders -> QueueStates], NEW fz \in SUBSET Orders
    PROVE  /\ LineOf(sq, mp, st, fz) \in Lines
           /\ ToSet(LineOf(sq, mp, st, fz).order_ids) = ToSet(mp) \ LineOf(sq, mp, st, fz).frozen
           /\ IsInjective(sq) /\ IsInjective(mp) => IsInjective(LineOf(sq, mp, st, fz).order_ids)
<1>1. PICK stopped : stopped = {o \in ToSet(mp) : o \in fz \/ st[o] = "frozen"}
  OBVIOUS
<1>2. PICK ids : ids = EffectiveSequence(sq, mp, stopped)
  OBVIOUS
<1>3. /\ ids \in Seq(Orders) /\ ToSet(ids) = ToSet(mp) \ stopped
      /\ IsInjective(sq) /\ IsInjective(mp) => IsInjective(ids)
  BY <1>2, EffectiveElements
<1>4. PICK shown : shown = [o \in ToSet(ids) |-> Parsed(st[o])]
  OBVIOUS
<1>5. LineOf(sq, mp, st, fz) = [order_ids |-> ids, states |-> shown, frozen |-> stopped]
  BY <1>1, <1>2, <1>4 DEF LineOf
<1>6. ToSet(mp) \subseteq Orders /\ ToSet(ids) \in SUBSET Orders
  BY <1>3, ElementsType
<1>7. shown \in [ToSet(ids) -> QueueStates]
  <2>1. \A o \in ToSet(ids) : Parsed(st[o]) \in QueueStates
    BY <1>6 DEF Parsed, QueueStates
  <2> QED  BY <1>4, <2>1
<1>8. shown \in UNION {[S -> QueueStates] : S \in SUBSET Orders}
  BY <1>6, <1>7
<1>9. LineOf(sq, mp, st, fz) \in Lines
  BY <1>1, <1>3, <1>5, <1>6, <1>8 DEF Lines
<1> QED  BY <1>3, <1>5, <1>9

\* Saving another order of the listed orders changes the list and nothing else.
LEMMA LineAfterSave ==
    ASSUME NEW sq \in Seq(Orders), NEW mp \in Seq(Orders), NEW st, NEW fz,
           NEW list \in Seq(Orders),
           ToSet(list) = ToSet(LineOf(sq, mp, st, fz).order_ids)
    PROVE  LineOf(list, mp, st, fz) = [LineOf(sq, mp, st, fz) EXCEPT !.order_ids = list]
<1>1. PICK stopped : stopped = {o \in ToSet(mp) : o \in fz \/ st[o] = "frozen"}
  OBVIOUS
<1>2. PICK ids : ids = EffectiveSequence(sq, mp, stopped)
  OBVIOUS
<1>3. LineOf(sq, mp, st, fz) = [order_ids |-> ids, states |-> [o \in ToSet(ids) |-> Parsed(st[o])],
                                frozen |-> stopped]
  BY <1>1, <1>2 DEF LineOf
<1>4. ToSet(list) = ToSet(ids) /\ ToSet(ids) = ToSet(mp) \ stopped
  BY <1>2, <1>3, EffectiveElements
<1>5. EffectiveSequence(list, mp, stopped) = list
  BY <1>4, EffectiveFixed
<1>6. LineOf(list, mp, st, fz) = [order_ids |-> list, states |-> [o \in ToSet(list) |-> Parsed(st[o])],
                                  frozen |-> stopped]
  BY <1>1, <1>5 DEF LineOf
<1>7. PICK shown : shown = [o \in ToSet(ids) |-> Parsed(st[o])]
  OBVIOUS
<1>8. [o \in ToSet(list) |-> Parsed(st[o])] = shown
  BY <1>4, <1>7
<1>9. /\ LineOf(list, mp, st, fz) = [order_ids |-> list, states |-> shown, frozen |-> stopped]
      /\ LineOf(sq, mp, st, fz) = [order_ids |-> ids, states |-> shown, frozen |-> stopped]
  BY <1>3, <1>6, <1>7, <1>8
<1> QED  BY <1>9

-----------------------------------------------------------------------------
(***************************************************************************)
(* A move and its event.                                                   *)
(***************************************************************************)

\* A move that is not refused was asked of this very version, and puts its
\* order into some slot among the others.
LEMMA MoveFacts ==
    ASSUME NEW line \in Lines, NEW m \in Requests, Valid(m), Refusal(m, line) = "none"
    PROVE  /\ m.expected = line /\ m.order \in ToSet(line.order_ids) /\ m.order \notin line.frozen
           /\ \E slot \in 1 .. Len(Without(line.order_ids, m.order)) + 1 :
                 Moved(m, line) = [line EXCEPT !.order_ids =
                     InsertAt(Without(line.order_ids, m.order), slot, m.order)]
<1>1. PICK ids, o : ids = line.order_ids /\ o = m.order
  OBVIOUS
<1>2. ids \in Seq(Orders) /\ o \in Orders
  BY <1>1 DEF Lines, Requests
<1>3. /\ o \notin line.frozen /\ m.expected = line /\ Contains(ids, o)
      /\ NeighbourKnown(m, ids) /\ AllowedSlots(ids, o, Running(line)) # {}
  BY <1>1 DEF Refusal
<1>4. o \in ToSet(ids)
  BY <1>2, <1>3, ElementsType
<1>5. PICK rest : rest = Without(ids, o)
  OBVIOUS
<1>6. rest \in Seq(Orders) /\ ToSet(rest) = ToSet(ids) \ {o} /\ Len(rest) \in Nat
  BY <1>2, <1>5, WithoutProperties, LenProperties
<1>7. \A n \in {m.before, m.after} : n # NoOrder => Position(rest, n) \in Int
  <2>1. TAKE n \in {m.before, m.after}
  <2>2. HAVE n # NoOrder
  <2>3. n \in ToSet(ids) /\ n # o
    BY <1>1, <1>2, <1>3, <2>2, ElementsType DEF NeighbourKnown, Valid
  <2>4. Position(rest, n) \in 1 .. Len(rest)
    BY <1>6, <2>3, PositionProperties
  <2> QED  BY <1>6, <2>4
<1>8. Wish(m, rest) \in Int
  BY <1>6, <1>7 DEF Wish
<1>9. PICK slot \in 1 .. Len(rest) + 1 :
        NearestAllowed(ids, o, Wish(m, rest), Running(line)) = InsertAt(rest, slot, o)
  BY <1>2, <1>3, <1>4, <1>5, <1>8, NearestIsAllowed
<1>10. Moved(m, line) = [line EXCEPT !.order_ids = InsertAt(rest, slot, o)]
  BY <1>1, <1>5, <1>9 DEF Moved
<1> QED  BY <1>1, <1>3, <1>4, <1>5, <1>9, <1>10

\* The operation of the event replays the move: the neighbour it names has
\* one place among the others.
LEMMA DeltaApplies ==
    ASSUME NEW ids \in Seq(Orders), IsInjective(ids), NEW o \in ToSet(ids),
           NEW slot \in 1 .. Len(Without(ids, o)) + 1
    PROVE  LET next == InsertAt(Without(ids, o), slot, o)
               op   == Delta(ids, next, o)
           IN  /\ op \in [order : Orders, before : Neighbours, after : Neighbours]
               /\ Applied(ids, op) = next
<1>1. PICK rest, next : rest = Without(ids, o) /\ next = InsertAt(rest, slot, o)
  OBVIOUS
<1>2. PICK n : n = Len(rest)
  OBVIOUS
<1>3. rest \in Seq(Orders) /\ ToSet(rest) = ToSet(ids) \ {o} /\ IsInjective(rest) /\ o \in Orders
  BY <1>1, WithoutProperties, ElementsType
<1>4. n \in Nat /\ slot \in 1 .. n + 1 /\ \A i \in 1 .. n : rest[i] \in Orders
  BY <1>1, <1>2, <1>3, LenProperties, ElementOfSeq
<1>5. /\ Position(next, o) = slot /\ Len(next) = n + 1
      /\ \A j \in 1 .. slot - 1 : next[j] = rest[j]
      /\ \A j \in slot .. n : next[j + 1] = rest[j]
  <2>1. slot \in 1 .. Len(rest) + 1 /\ o \notin ToSet(rest)
    BY <1>2, <1>3, <1>4
  <2>2. Position(next, o) = slot
    BY <1>1, <1>3, <2>1, InsertOnce
  <2>3. /\ Len(next) = Len(rest) + 1
        /\ \A j \in 1 .. slot - 1 : next[j] = rest[j]
        /\ \A j \in slot .. Len(rest) : next[j + 1] = rest[j]
    BY <1>1, <1>3, <2>1, InsertProperties
  <2> QED  BY <1>2, <2>2, <2>3
<1>6. \A i \in 1 .. n : Position(rest, rest[i]) = i
  BY <1>2, <1>3, PositionOnce
<1>7. PICK op : op = Delta(ids, next, o)
  OBVIOUS
<1>8. op = [order |-> o, before |-> IF slot < n + 1 THEN next[slot + 1] ELSE NoOrder,
            after |-> IF slot > 1 THEN next[slot - 1] ELSE NoOrder]
  BY <1>5, <1>7 DEF Delta
<1>9. /\ slot < n + 1 => slot \in 1 .. n /\ next[slot + 1] = rest[slot]
      /\ slot > 1 => slot - 1 \in 1 .. n /\ next[slot - 1] = rest[slot - 1]
  <2>1. slot < n + 1 => slot \in slot .. n /\ slot \in 1 .. n
    BY <1>4
  <2>2. slot > 1 => slot - 1 \in 1 .. slot - 1 /\ slot - 1 \in 1 .. n
    BY <1>4
  <2> QED  BY <1>5, <2>1, <2>2
<1>10. op \in [order : Orders, before : Neighbours, after : Neighbours]
  <2>1. slot < n + 1 => next[slot + 1] \in Orders
    BY <1>4, <1>9
  <2>2. slot > 1 => next[slot - 1] \in Orders
    BY <1>4, <1>9
  <2> QED  BY <1>3, <1>8, <2>1, <2>2 DEF Neighbours
<1>11. Applied(ids, op) = next
  <2>1. CASE slot > 1
    <3>1. op.order = o /\ op.after = rest[slot - 1] /\ op.after # NoOrder
      BY <1>4, <1>8, <1>9, <2>1, OrdersAssumption
    <3>2. Position(rest, op.after) + 1 = slot
      BY <1>4, <1>6, <1>9, <2>1, <3>1
    <3> QED  BY <1>1, <3>1, <3>2 DEF Applied
  <2>2. CASE ~ (slot > 1) /\ slot < n + 1
    <3>1. op.order = o /\ op.after = NoOrder /\ op.before = rest[slot] /\ op.before # NoOrder
      BY <1>4, <1>8, <1>9, <2>2, OrdersAssumption
    <3>2. Position(rest, op.before) = slot
      BY <1>6, <1>9, <2>2, <3>1
    <3> QED  BY <1>1, <3>1, <3>2 DEF Applied
  <2>3. CASE ~ (slot > 1) /\ ~ (slot < n + 1)
    <3>1. op.order = o /\ op.after = NoOrder /\ op.before = NoOrder /\ slot = 1
      BY <1>4, <1>8, <2>3
    <3> QED  BY <1>1, <3>1 DEF Applied
  <2> QED  BY <2>1, <2>2, <2>3
<1> QED  BY <1>1, <1>7, <1>10, <1>11

\* The outcome of a move that is not refused: another order of the same list,
\* from which taking the moved order out leaves the same list, and an event
\* that replays it unless nothing changed.
LEMMA ResultFacts ==
    ASSUME NEW line \in Lines, IsInjective(line.order_ids),
           NEW m \in Requests, Valid(m), Refusal(m, line) = "none"
    PROVE  \E list \in Seq(Orders) :
              /\ IsInjective(list) /\ ToSet(list) = ToSet(line.order_ids)
              /\ \E i \in DOMAIN line.order_ids, j \in DOMAIN list :
                    /\ line.order_ids[i] = m.order /\ list[j] = m.order
                    /\ RemoveAt(line.order_ids, i) = RemoveAt(list, j)
              /\ Result(m, line) \in Results
              /\ Result(m, line).version = [line EXCEPT !.order_ids = list]
              /\ Result(m, line).event = Nothing => Result(m, line).version = line
              /\ Result(m, line).event # Nothing => /\ Faithful(Result(m, line).event)
                                                    /\ Result(m, line).version # line
<1>1. PICK ids, o : ids = line.order_ids /\ o = m.order
  OBVIOUS
<1>2. PICK rest : rest = Without(ids, o)
  OBVIOUS
<1>3. /\ ids \in Seq(Orders) /\ IsInjective(ids) /\ o \in ToSet(ids) /\ o \in Orders
      /\ m.expected = line
  BY <1>1, MoveFacts DEF Lines, Requests
<1>4. PICK slot \in 1 .. Len(rest) + 1 :
         Moved(m, line) = [line EXCEPT !.order_ids = InsertAt(rest, slot, o)]
  BY <1>1, <1>2, MoveFacts
<1>5. PICK list, next : list = InsertAt(rest, slot, o) /\ next = [line EXCEPT !.order_ids = list]
  OBVIOUS
<1>6. rest \in Seq(Orders) /\ ToSet(rest) = ToSet(ids) \ {o} /\ IsInjective(rest)
  BY <1>2, <1>3, WithoutProperties
<1>7. /\ list \in Seq(Orders) /\ Len(list) = Len(rest) + 1 /\ list[slot] = o
      /\ ToSet(list) = ToSet(rest) \cup {o}
  BY <1>3, <1>4, <1>5, <1>6, InsertProperties
<1>8. IsInjective(list) /\ ToSet(list) = ToSet(ids)
  <2>1. IsInjective(list)
    BY <1>3, <1>4, <1>5, <1>6, InsertOnce
  <2> QED  BY <1>3, <1>6, <1>7, <2>1
<1>9. PICK i : i = Position(ids, o)
  OBVIOUS
<1>10. i \in 1 .. Len(ids) /\ ids[i] = o
  BY <1>3, <1>9, PositionProperties
<1>11. RemoveAt(ids, i) = rest
  BY <1>2, <1>3, <1>10, WithoutIsRemoveAt
<1>12. RemoveAt(list, slot) = rest
  BY <1>3, <1>4, <1>5, <1>6, InsertThenRemove
<1>13. i \in DOMAIN ids /\ slot \in DOMAIN list
  <2>1. DOMAIN ids = 1 .. Len(ids) /\ DOMAIN list = 1 .. Len(list)
    BY <1>3, <1>7, LenProperties
  <2> QED  BY <1>4, <1>7, <1>10, <2>1
<1>14. next \in Lines /\ next.order_ids = list
  <2>1. \A f \in Lines, l \in Seq(Orders) :
           [f EXCEPT !.order_ids = l] \in Lines /\ [f EXCEPT !.order_ids = l].order_ids = l
    BY DEF Lines
  <2> QED  BY <1>5, <1>7, <2>1
<1>15. PICK op, e : op = Delta(ids, list, o) /\ e = [op |-> op, base_version |-> line, version |-> next]
  OBVIOUS
<1>16. op \in [order : Orders, before : Neighbours, after : Neighbours] /\ Applied(ids, op) = list
  BY <1>2, <1>3, <1>4, <1>5, <1>15, DeltaApplies
<1>17. Faithful(e)
  BY <1>1, <1>14, <1>15, <1>16 DEF Faithful, Events
<1>18. e # Nothing /\ e \in Events
  BY <1>17, NothingAssumption DEF Faithful
<1>19. Moved(m, line) = next
  BY <1>4, <1>5
<1>20. Result(m, line) = [version |-> next, event |-> IF next = line THEN Nothing ELSE e]
  BY <1>1, <1>3, <1>14, <1>15, <1>19 DEF Result
<1>21. Result(m, line) \in Results
  BY <1>14, <1>18, <1>20 DEF Results
<1>22. \E i0 \in DOMAIN line.order_ids, j \in DOMAIN list :
          /\ line.order_ids[i0] = m.order /\ list[j] = m.order
          /\ RemoveAt(line.order_ids, i0) = RemoveAt(list, j)
  BY <1>1, <1>7, <1>10, <1>11, <1>12, <1>13
<1>23. PICK result : result = Result(m, line)
  OBVIOUS
<1>24. /\ result.version = [line EXCEPT !.order_ids = list]
       /\ result.event = Nothing => result.version = line
       /\ result.event # Nothing => Faithful(result.event) /\ result.version # line
  BY <1>5, <1>17, <1>18, <1>20, <1>23
<1> QED  BY <1>1, <1>7, <1>8, <1>21, <1>22, <1>23, <1>24

-----------------------------------------------------------------------------
(***************************************************************************)
(* What a commit may do.                                                   *)
(***************************************************************************)

\* The command takes effect.
Takes(c, k, m, result) ==
    /\ k \in Keys /\ m \in Requests /\ receipts[c][k] = Nothing
    /\ m.expected = Line /\ m.order \notin Line.frozen
    /\ Answer(c, result)
    /\ receipts' = [receipts EXCEPT ![c][k] = [request |-> m, result |-> result]]
    /\ \/ /\ result.event = Nothing /\ result.version = Line
          /\ UNCHANGED <<stored, revision, events, moves>>
       \/ /\ Faithful(result.event)
          /\ result.version # Line
          /\ revision < MaxRevision
          /\ stored' = result.version.order_ids
          /\ revision' = revision + 1
          /\ NewEvent(result.event)
          /\ moves' = Append(moves, <<c, k>>)

\* What is known of its outcome.
Outcome(m, result) ==
    /\ result \in Results
    /\ \E list \in Seq(Orders) :
          /\ IsInjective(list) /\ ToSet(list) = ToSet(Line.order_ids)
          /\ \E i \in DOMAIN Line.order_ids, j \in DOMAIN list :
                /\ Line.order_ids[i] = m.order /\ list[j] = m.order
                /\ RemoveAt(Line.order_ids, i) = RemoveAt(list, j)
          /\ result.version = [Line EXCEPT !.order_ids = list]

\* A commit repeats the outcome of a receipt, or changes nothing, or takes
\* effect.
LEMMA CommitCases ==
    ASSUME IInv, NEW c \in Admins, Commit(c)
    PROVE  /\ pc[c] = "locked"
           /\ UNCHANGED <<maps, states, frozen, screen, command>>
           /\ \/ /\ UNCHANGED db
                 /\ \E k \in Keys : /\ receipts[c][k] # Nothing
                                    /\ Answer(c, receipts[c][k].result)
              \/ UNCHANGED db /\ (Answer(c, Nothing) \/ Conflict(c))
              \/ \E k, m, result : Takes(c, k, m, result) /\ Outcome(m, result)
<1>1. pc[c] = "locked" /\ UNCHANGED <<maps, states, frozen, screen, command>>
  BY DEF Commit, db
<1>2. PICK k, m : k = command[c].key /\ m = command[c].request
  OBVIOUS
<1>3. k \in Keys /\ m \in Requests /\ Valid(m)
  <2>1. command[c] \in Sent
    BY <1>1 DEF IInv, InFlight
  <2> QED  BY <1>2, <2>1 DEF Sent
<1>4. PICK line : line = Line
  OBVIOUS
<1>5. line \in Lines /\ IsInjective(line.order_ids)
  BY <1>4, LineIs, LineFacts DEF IInv, Lists
<1>6. CASE HasReceipt(c)
  <2>1. receipts[c][k] # Nothing /\ UNCHANGED db
        /\ (Answer(c, receipts[c][k].result) \/ Answer(c, Nothing))
    BY <1>2, <1>6 DEF Commit, HasReceipt
  <2> QED  BY <1>1, <1>3, <2>1
<1>7. CASE ~ HasReceipt(c) /\ (~ Visible \subseteq locked[c] \/ Refusal(m, line) # "none")
  <2>1. UNCHANGED db /\ (Answer(c, Nothing) \/ Conflict(c))
    BY <1>2, <1>4, <1>7 DEF Commit
  <2> QED  BY <1>1, <2>1
<1>8. CASE ~ HasReceipt(c) /\ Visible \subseteq locked[c] /\ Refusal(m, line) = "none"
  <2>1. PICK result : result = Result(m, line)
    OBVIOUS
  <2>2. /\ Answer(c, result)
        /\ receipts' = [receipts EXCEPT ![c][k] = [request |-> m, result |-> result]]
        /\ IF result.event = Nothing
           THEN UNCHANGED <<stored, revision, events, moves>>
           ELSE /\ revision < MaxRevision
                /\ stored' = result.version.order_ids
                /\ revision' = revision + 1
                /\ NewEvent(result.event)
                /\ moves' = Append(moves, <<c, k>>)
    <3>1. Refusal(m, line) # "conflict"
      BY <1>8
    <3> QED  BY <1>2, <1>4, <1>8, <2>1, <3>1 DEF Commit
  <2>3. receipts[c][k] = Nothing
    BY <1>2, <1>8 DEF HasReceipt
  <2>4. m.expected = line /\ m.order \notin line.frozen
    BY <1>3, <1>5, <1>8, MoveFacts
  <2>5. PICK list \in Seq(Orders) :
          /\ IsInjective(list) /\ ToSet(list) = ToSet(line.order_ids)
          /\ \E i \in DOMAIN line.order_ids, j \in DOMAIN list :
                /\ line.order_ids[i] = m.order /\ list[j] = m.order
                /\ RemoveAt(line.order_ids, i) = RemoveAt(list, j)
          /\ result \in Results
          /\ result.version = [line EXCEPT !.order_ids = list]
          /\ result.event = Nothing => result.version = line
          /\ result.event # Nothing => Faithful(result.event) /\ result.version # line
    BY <1>3, <1>5, <1>8, <2>1, ResultFacts
  <2>6. Outcome(m, result)
    BY <1>4, <2>5 DEF Outcome
  <2>7. Takes(c, k, m, result)
    BY <1>3, <1>4, <2>2, <2>3, <2>4, <2>5 DEF Takes
  <2> QED  BY <1>1, <2>6, <2>7
<1> QED  BY <1>6, <1>7, <1>8

-----------------------------------------------------------------------------
(***************************************************************************)
(* The invariant, part by part.                                            *)
(***************************************************************************)

\* The actions of Next that are not commits.
Quiet(c) ==
    \/ \E k \in Keys, m \in Commands(c) : Ask(c, k, m)
    \/ ReadCandidates(c) \/ Deliver(c) \/ Lose(c) \/ Look(c) \/ Replay(c)

Elsewise(o) ==
    \/ PutMap(o) \/ DeleteMap(o) \/ Freeze(o) \/ Release(o)
    \/ \E act \in {"start", "complete"} : QueueStep(o, act)

\* A step is a commit, another step of one request, or somebody else's.
LEMMA StepCases ==
    ASSUME [Next]_vars
    PROVE  \/ \E c \in Admins : Commit(c)
           \/ \E c \in Admins : Quiet(c)
           \/ \E o \in Orders : Elsewise(o)
           \/ UNCHANGED vars
BY Zenon DEF Next, Quiet, Elsewise

\* The client's and the connection's steps leave the tables alone.
LEMMA QuietFrame ==
    ASSUME NEW c \in Admins, Quiet(c)
    PROVE  UNCHANGED db
<1>1. \A k, m : Ask(c, k, m) => UNCHANGED db
  BY DEF Ask
<1>2. ReadCandidates(c) \/ Deliver(c) \/ Lose(c) => UNCHANGED db
  BY DEF ReadCandidates, Deliver, Lose
<1>3. Look(c) \/ Replay(c) => UNCHANGED db
  BY DEF Look, Replay
<1> QED  BY <1>1, <1>2, <1>3 DEF Quiet

\* Somebody else's steps leave requests, receipts and screens alone.
LEMMA ElsewiseFrame ==
    ASSUME NEW o \in Orders, Elsewise(o)
    PROVE  UNCHANGED <<receipts, moves, screen, request>>
<1>1. Other
  BY DEF Elsewise, PutMap, DeleteMap, Freeze, Release, QueueStep
<1> QED  BY <1>1 DEF Other

\* An order at the tail of what is left of a list.
LEMMA TailProperties ==
    ASSUME NEW s \in Seq(Orders), IsInjective(s), NEW o \in Orders
    PROVE  /\ Append(Without(s, o), o) \in Seq(Orders)
           /\ IsInjective(Append(Without(s, o), o))
<1>1. PICK r : r = Without(s, o)
  OBVIOUS
<1>2. r \in Seq(Orders) /\ IsInjective(r) /\ o \notin ToSet(r)
  BY <1>1, WithoutProperties
<1> QED  BY <1>1, <1>2, OnceAppend, AppendProperties

\* The list Freeze and Release start from.
LEMMA SavedList ==
    ASSUME Lists
    PROVE  \E s \in Seq(Orders) : IsInjective(s) /\ s = IF revision = 0 THEN Line.order_ids ELSE stored
<1>1. Line.order_ids \in Seq(Orders) /\ IsInjective(Line.order_ids)
  BY LineIs, LineFacts DEF Lists, Lines
<1> QED  BY <1>1 DEF Lists

\* Saving a list: the list is what is stored then.
LEMMA SaveEffect ==
    ASSUME NEW list, Save(list)
    PROVE  /\ stored' = list
           /\ \/ UNCHANGED <<revision, events>>
              \/ revision < MaxRevision /\ revision' = revision + 1 /\ NewEvent(Nothing)
BY DEF Save

\* What a step of somebody else does to the lists and to the outbox.
LEMMA ElsewiseEffect ==
    ASSUME Lists, NEW o \in Orders, Elsewise(o)
    PROVE  /\ Lists'
           /\ \/ UNCHANGED <<revision, events>>
              \/ revision < MaxRevision /\ revision' = revision + 1 /\ NewEvent(Nothing)
<1>0. /\ maps \in Seq(Orders) /\ IsInjective(maps) /\ stored \in Seq(Orders) /\ IsInjective(stored)
      /\ frozen \subseteq Orders /\ states \in [Orders -> QueueStates]
  BY DEF Lists
<1>1. CASE PutMap(o)
  <2>1. /\ maps' = Append(Without(maps, o), o)
        /\ UNCHANGED <<stored, revision, states, frozen, events>>
    BY <1>1 DEF PutMap
  <2>2. maps' \in Seq(Orders) /\ IsInjective(maps')
    BY <1>0, <2>1, TailProperties
  <2> QED  BY <1>0, <2>1, <2>2 DEF Lists
<1>2. CASE DeleteMap(o)
  <2>1. /\ maps' = Without(maps, o) /\ stored' = Without(stored, o)
        /\ states' = [states EXCEPT ![o] = "none"]
        /\ UNCHANGED <<revision, frozen, events>>
    BY <1>2 DEF DeleteMap
  <2>2. maps' \in Seq(Orders) /\ IsInjective(maps') /\ stored' \in Seq(Orders) /\ IsInjective(stored')
    BY <1>0, <2>1, WithoutProperties
  <2>3. states' \in [Orders -> QueueStates]
    BY <1>0, <2>1 DEF QueueStates
  <2> QED  BY <1>0, <2>1, <2>2, <2>3 DEF Lists
<1>3. PICK s \in Seq(Orders) : IsInjective(s) /\ s = IF revision = 0 THEN Line.order_ids ELSE stored
  BY SavedList
<1>4. CASE Freeze(o)
  <2>1. Save(Without(s, o)) /\ frozen' = frozen \union {o} /\ UNCHANGED <<maps, states>>
    BY <1>3, <1>4 DEF Freeze
  <2>2. Without(s, o) \in Seq(Orders) /\ IsInjective(Without(s, o))
    BY <1>3, WithoutProperties
  <2>3. /\ stored' = Without(s, o)
        /\ \/ UNCHANGED <<revision, events>>
           \/ revision < MaxRevision /\ revision' = revision + 1 /\ NewEvent(Nothing)
    BY <2>1, SaveEffect
  <2> QED  BY <1>0, <2>1, <2>2, <2>3 DEF Lists
<1>5. CASE Release(o)
  <2>1. Save(Append(Without(s, o), o)) /\ frozen' = frozen \ {o} /\ UNCHANGED <<maps, states>>
    BY <1>3, <1>5 DEF Release
  <2>2. Append(Without(s, o), o) \in Seq(Orders) /\ IsInjective(Append(Without(s, o), o))
    BY <1>3, TailProperties
  <2>3. /\ stored' = Append(Without(s, o), o)
        /\ \/ UNCHANGED <<revision, events>>
           \/ revision < MaxRevision /\ revision' = revision + 1 /\ NewEvent(Nothing)
    BY <2>1, SaveEffect
  <2> QED  BY <1>0, <2>1, <2>2, <2>3 DEF Lists
<1>6. ASSUME NEW act \in {"start", "complete"}, QueueStep(o, act) PROVE Lists' /\ UNCHANGED <<revision, events>>
  <2>1. /\ MayMove(Parsed(states[o]), act)
        /\ states' = [states EXCEPT ![o] = NextState(Parsed(states[o]), act)]
        /\ UNCHANGED <<maps, stored, revision, frozen, events>>
    BY <1>6 DEF QueueStep
  <2>2. NextState(Parsed(states[o]), act) \in QueueStates
    <3>1. PICK f : f = Parsed(states[o])
      OBVIOUS
    <3>2. PICK t : t = CHOOSE x \in Transitions : x[1] = f /\ x[2] = act
      OBVIOUS
    <3>3. t \in Transitions
      BY <2>1, <3>1, <3>2 DEF MayMove
    <3>4. t[3] \in QueueStates
      BY <3>3 DEF Transitions, QueueStates
    <3> QED  BY <3>1, <3>2, <3>4 DEF NextState
  <2>3. states' \in [Orders -> QueueStates]
    BY <1>0, <2>1, <2>2
  <2> QED  BY <1>0, <2>1, <2>3 DEF Lists
<1> QED  BY <1>1, <1>2, <1>4, <1>5, <1>6 DEF Elsewise

\* No step makes a list name an order twice, or an order that does not exist.
LEMMA NextLists ==
    ASSUME IInv, [Next]_vars
    PROVE  Lists'
<1>1. ASSUME NEW c \in Admins, Commit(c) PROVE Lists'
  <2>1. UNCHANGED <<maps, states, frozen>>
    BY <1>1, CommitCases
  <2>2. stored' \in Seq(Orders) /\ IsInjective(stored')
    <3>1. CASE UNCHANGED db
      BY <3>1 DEF db, IInv, Lists
    <3>2. ASSUME NEW k, NEW m, NEW result, Takes(c, k, m, result), Outcome(m, result)
          PROVE  stored' \in Seq(Orders) /\ IsInjective(stored')
      <4>1. PICK list \in Seq(Orders) : IsInjective(list) /\ result.version = [Line EXCEPT !.order_ids = list]
        BY <3>2 DEF Outcome
      <4>2. Line \in Lines
        BY LineIs, LineFacts DEF IInv, Lists
      <4>3. result.version.order_ids = list
        BY <4>1, <4>2 DEF Lines
      <4>4. stored' = stored \/ stored' = result.version.order_ids
        BY <3>2 DEF Takes
      <4> QED  BY <4>1, <4>3, <4>4 DEF IInv, Lists
    <3> QED  BY <1>1, <3>1, <3>2, CommitCases
  <2> QED  BY <2>1, <2>2 DEF IInv, Lists
<1>2. ASSUME UNCHANGED db PROVE Lists'
  BY <1>2 DEF db, IInv, Lists
<1>3. ASSUME NEW o \in Orders, Elsewise(o) PROVE Lists'
  BY <1>3, ElsewiseEffect DEF IInv
<1>4. UNCHANGED vars => UNCHANGED db
  BY DEF vars
<1> QED  BY <1>1, <1>2, <1>3, <1>4, StepCases, QuietFrame

\* A new revision comes with its event.
LEMMA OutboxGrows ==
    ASSUME Outbox, NEW e, e # Nothing => Faithful(e),
           revision < MaxRevision, revision' = revision + 1, NewEvent(e)
    PROVE  Outbox'
<1>1. PICK r1 : r1 = revision + 1
  OBVIOUS
<1>2. revision \in Nat /\ MaxRevision \in Nat /\ revision' = r1 /\ r1 \in 0 .. MaxRevision
  BY <1>1, BoundsAssumption DEF Outbox
<1>3. /\ DOMAIN events' = DOMAIN events \union {r1}
      /\ \A r \in DOMAIN events \union {r1} : events'[r] = IF r \in DOMAIN events THEN events[r] ELSE e
  BY <1>1 DEF NewEvent
<1>4. DOMAIN events' \subseteq 1 .. r1
  BY <1>1, <1>2, <1>3 DEF Outbox
<1>5. \A r \in 2 .. r1 : r \in DOMAIN events'
  <2>1. \A r \in 2 .. r1 : r \in 2 .. revision \/ r = r1
    BY <1>1, <1>2
  <2> QED  BY <1>3, <2>1 DEF Outbox, OutboxHasNoHole
<1>6. \A r \in DOMAIN events' : events'[r] # Nothing => Faithful(events'[r])
  BY <1>3 DEF Outbox
<1> QED  BY <1>2, <1>4, <1>5, <1>6 DEF Outbox, OutboxHasNoHole

\* The outbox stays without a hole, and its operations faithful.
LEMMA NextOutbox ==
    ASSUME IInv, [Next]_vars
    PROVE  Outbox'
<1>1. ASSUME UNCHANGED <<revision, events>> PROVE Outbox'
  BY <1>1 DEF IInv, Outbox, OutboxHasNoHole
<1>2. ASSUME NEW c \in Admins, Commit(c) PROVE Outbox'
  <2>1. CASE UNCHANGED db
    BY <1>1, <2>1 DEF db
  <2>2. ASSUME NEW k, NEW m, NEW result, Takes(c, k, m, result) PROVE Outbox'
    <3>1. \/ UNCHANGED <<revision, events>>
          \/ /\ Faithful(result.event) /\ revision < MaxRevision
             /\ revision' = revision + 1 /\ NewEvent(result.event)
      BY <2>2 DEF Takes
    <3> QED  BY <1>1, <3>1, OutboxGrows DEF IInv
  <2> QED  BY <1>2, <2>1, <2>2, CommitCases
<1>3. ASSUME NEW o \in Orders, Elsewise(o) PROVE Outbox'
  <2>1. \/ UNCHANGED <<revision, events>>
        \/ revision < MaxRevision /\ revision' = revision + 1 /\ NewEvent(Nothing)
    BY <1>3, ElsewiseEffect DEF IInv
  <2> QED  BY <1>1, <2>1, OutboxGrows DEF IInv
<1>4. UNCHANGED db \/ UNCHANGED vars => Outbox'
  BY <1>1 DEF db, vars
<1> QED  BY <1>2, <1>3, <1>4, StepCases, QuietFrame

\* A screen is read whole, or follows an event of the version it shows.
LEMMA NextScreens ==
    ASSUME IInv, [Next]_vars
    PROVE  Screens'
<1>1. ASSUME UNCHANGED screen PROVE Screens'
  BY <1>1 DEF IInv, Screens, ReplayShowsTheVersion
<1>2. ASSUME NEW c \in Admins, NEW v \in Views, v.list = v.version.order_ids,
             screen' = [screen EXCEPT ![c] = v]
      PROVE  Screens'
  <2>1. screen \in [Admins -> Views] /\ \A d \in Admins : screen[d].list = screen[d].version.order_ids
    BY DEF IInv, Screens, ReplayShowsTheVersion
  <2>2. screen' \in [Admins -> Views]
    BY <1>2, <2>1
  <2>3. \A d \in Admins : screen'[d] = IF d = c THEN v ELSE screen[d]
    BY <1>2, <2>1
  <2>4. \A d \in Admins : screen'[d].list = screen'[d].version.order_ids
    BY <1>2, <2>1, <2>3
  <2> QED  BY <2>2, <2>4 DEF Screens, ReplayShowsTheVersion
<1>3. ASSUME NEW c \in Admins, Look(c) PROVE Screens'
  <2>1. PICK v : v = Shown
    OBVIOUS
  <2>2. Line \in Lines /\ revision \in Nat
    BY LineIs, LineFacts, BoundsAssumption DEF IInv, Lists, Outbox
  <2>3. v \in Views /\ v.list = v.version.order_ids
    BY <2>1, <2>2 DEF Shown, Views, Lines
  <2>4. screen' = [screen EXCEPT ![c] = v]
    BY <1>3, <2>1 DEF Look
  <2> QED  BY <1>2, <2>3, <2>4
<1>4. ASSUME NEW c \in Admins, Replay(c) PROVE Screens'
  <2>1. PICK r, e, v : r = screen[c].revision + 1 /\ e = events[r] /\ v = Follow(screen[c], e, r)
    OBVIOUS
  <2>2. r \in DOMAIN events /\ e # Nothing /\ e.base_version = screen[c].version
        /\ screen' = [screen EXCEPT ![c] = v]
    BY <1>4, <2>1 DEF Replay
  <2>3. Faithful(e)
    BY <2>1, <2>2 DEF IInv, Outbox
  <2>4. screen[c] \in Views /\ screen[c].list = screen[c].version.order_ids
    BY DEF IInv, Screens, ReplayShowsTheVersion
  <2>5. r \in Nat
    BY <2>1, <2>4 DEF Views
  <2>6. Applied(screen[c].list, e.op) = e.version.order_ids /\ e.version \in Lines
    BY <2>2, <2>3, <2>4 DEF Faithful, Events
  <2>7. v = [list |-> e.version.order_ids, version |-> e.version, revision |-> r]
    BY <2>1, <2>6 DEF Follow
  <2>8. v \in Views /\ v.list = v.version.order_ids
    BY <2>5, <2>6, <2>7 DEF Views, Lines
  <2> QED  BY <1>2, <2>2, <2>8
<1>5. ASSUME NEW c \in Admins, Quiet(c) PROVE Screens'
  <2>1. \/ UNCHANGED screen \/ Look(c) \/ Replay(c)
    BY <1>5 DEF Quiet, Ask, ReadCandidates, Deliver, Lose
  <2> QED  BY <1>1, <1>3, <1>4, <2>1
<1>6. ASSUME NEW c \in Admins, Commit(c) PROVE UNCHANGED screen
  BY <1>6, CommitCases
<1>7. ASSUME NEW o \in Orders, Elsewise(o) PROVE UNCHANGED screen
  BY <1>7, ElsewiseFrame
<1>8. UNCHANGED vars => UNCHANGED screen
  BY DEF vars
<1> QED  BY <1>1, <1>5, <1>6, <1>7, <1>8, StepCases

\* One request moves on, the others stay.
LEMMA RequestRow ==
    ASSUME InFlight, NEW c \in Admins,
           NEW p \in {"idle", "read", "locked", "answered"}, pc' = [pc EXCEPT ![c] = p],
           NEW n \in 0 .. MaxAttempts, attempt' = [attempt EXCEPT ![c] = n],
           NEW k \in Sent \union {NoCommand}, command' = [command EXCEPT ![c] = k],
           NEW a \in Results \union {Nothing}, answer' = [answer EXCEPT ![c] = a],
           p # "answered" => a = Nothing, p # "idle" => k \in Sent
    PROVE  InFlight'
<1>1. /\ pc' \in [Admins -> {"idle", "read", "locked", "answered"}]
      /\ attempt' \in [Admins -> 0 .. MaxAttempts]
  BY DEF InFlight
<1>2. command' \in [Admins -> Sent \union {NoCommand}]
  BY DEF InFlight
<1>3. answer' \in [Admins -> Results \union {Nothing}]
  BY DEF InFlight
<1>4. \A d \in Admins : /\ pc'[d] = IF d = c THEN p ELSE pc[d]
                        /\ answer'[d] = IF d = c THEN a ELSE answer[d]
                        /\ command'[d] = IF d = c THEN k ELSE command[d]
  BY DEF InFlight
<1>5. \A d \in Admins : pc'[d] # "answered" => answer'[d] = Nothing
  BY <1>4 DEF InFlight
<1>6. \A d \in Admins : pc'[d] # "idle" => command'[d] \in Sent
  BY <1>4 DEF InFlight
<1> QED  BY <1>1, <1>2, <1>3, <1>5, <1>6 DEF InFlight

\* A request carries a valid move; only one that is answered has an answer.
LEMMA NextInFlight ==
    ASSUME IInv, [Next]_vars
    PROVE  InFlight'
<1>0. /\ InFlight /\ 0 \in 0 .. MaxAttempts /\ 1 \in 0 .. MaxAttempts
  BY BoundsAssumption DEF IInv
<1>1. \A c \in Admins : /\ attempt = [attempt EXCEPT ![c] = attempt[c]]
                        /\ command = [command EXCEPT ![c] = command[c]]
                        /\ answer = [answer EXCEPT ![c] = answer[c]]
                        /\ command[c] \in Sent \union {NoCommand}
                        /\ answer[c] \in Results \union {Nothing}
                        /\ attempt[c] \in 0 .. MaxAttempts
                        /\ pc[c] # "idle" => command[c] \in Sent
                        /\ pc[c] # "answered" => answer[c] = Nothing
  BY <1>0 DEF InFlight
<1>2. ASSUME UNCHANGED request PROVE InFlight'
  BY <1>0, <1>2 DEF request, InFlight
<1>3. ASSUME NEW c \in Admins, NEW k \in Keys, NEW m \in Commands(c), Ask(c, k, m) PROVE InFlight'
  <2>1. PICK w : w = [key |-> k, request |-> m]
    OBVIOUS
  <2>2. /\ pc[c] = "idle" /\ Valid(m) /\ pc' = [pc EXCEPT ![c] = "read"]
        /\ command' = [command EXCEPT ![c] = w] /\ attempt' = [attempt EXCEPT ![c] = 1]
        /\ answer' = answer
    BY <1>3, <2>1 DEF Ask
  <2>3. screen[c].version \in Lines
    BY DEF IInv, Screens, Views
  <2>4. m \in Requests
    BY <2>3 DEF Commands, Requests
  <2>5. w \in Sent
    BY <2>1, <2>2, <2>4 DEF Sent
  <2> QED  BY <1>0, <1>1, <2>2, <2>5, RequestRow
<1>4. ASSUME NEW c \in Admins, ReadCandidates(c) PROVE InFlight'
  <2>1. pc[c] = "read" /\ pc' = [pc EXCEPT ![c] = "locked"] /\ UNCHANGED <<command, attempt, answer>>
    BY <1>4 DEF ReadCandidates
  <2> QED  BY <1>0, <1>1, <2>1, RequestRow
<1>5. ASSUME NEW c \in Admins, Deliver(c) PROVE InFlight'
  <2>1. /\ pc' = [pc EXCEPT ![c] = "idle"] /\ answer' = [answer EXCEPT ![c] = Nothing]
        /\ command' = [command EXCEPT ![c] = NoCommand] /\ attempt' = attempt
    BY <1>5 DEF Deliver
  <2> QED  BY <1>0, <1>1, <2>1, RequestRow
<1>6. ASSUME NEW c \in Admins, Lose(c) PROVE InFlight'
  <2>1. /\ pc[c] # "idle" /\ pc' = [pc EXCEPT ![c] = "read"] /\ answer' = [answer EXCEPT ![c] = Nothing]
        /\ attempt' = [attempt EXCEPT ![c] = 1] /\ command' = command
    BY <1>6 DEF Lose
  <2> QED  BY <1>0, <1>1, <2>1, RequestRow
<1>7. ASSUME NEW c \in Admins, Look(c) \/ Replay(c) PROVE InFlight'
  BY <1>2, <1>7 DEF Look, Replay
<1>8. ASSUME NEW c \in Admins, NEW a \in Results \union {Nothing}, pc[c] = "locked",
             Answer(c, a), UNCHANGED command
      PROVE  InFlight'
  <2>1. /\ pc' = [pc EXCEPT ![c] = "answered"] /\ answer' = [answer EXCEPT ![c] = a]
        /\ attempt' = [attempt EXCEPT ![c] = 0]
    BY <1>8 DEF Answer
  <2> QED  BY <1>0, <1>1, <1>8, <2>1, RequestRow
<1>9. ASSUME NEW c \in Admins, Commit(c) PROVE InFlight'
  <2>1. pc[c] = "locked" /\ UNCHANGED command
    BY <1>9, CommitCases
  <2>2. ASSUME NEW k \in Keys, receipts[c][k] # Nothing, Answer(c, receipts[c][k].result) PROVE InFlight'
    <3>1. receipts[c][k].result \in Results
      BY <2>2 DEF IInv, Kept, Receipts
    <3> QED  BY <1>8, <2>1, <2>2, <3>1
  <2>3. ASSUME Conflict(c) PROVE InFlight'
    <3>1. CASE attempt[c] < MaxAttempts
      <4>1. /\ pc' = [pc EXCEPT ![c] = "read"] /\ attempt' = [attempt EXCEPT ![c] = attempt[c] + 1]
            /\ UNCHANGED answer
        BY <2>3, <3>1 DEF Conflict
      <4>2. attempt[c] + 1 \in 0 .. MaxAttempts
        BY <1>1, <3>1, BoundsAssumption
      <4> QED  BY <1>0, <1>1, <2>1, <4>1, <4>2, RequestRow
    <3>2. CASE ~ (attempt[c] < MaxAttempts)
      BY <1>8, <2>1, <2>3, <3>2 DEF Conflict
    <3> QED  BY <3>1, <3>2
  <2>4. ASSUME NEW k, NEW m, NEW result, Takes(c, k, m, result), Outcome(m, result) PROVE InFlight'
    BY <1>8, <2>1, <2>4 DEF Takes, Outcome
  <2>5. ASSUME Answer(c, Nothing) PROVE InFlight'
    BY <1>8, <2>1, <2>5
  <2> QED  BY <1>9, <2>2, <2>3, <2>4, <2>5, CommitCases
<1>10. ASSUME NEW o \in Orders, Elsewise(o) PROVE InFlight'
  BY <1>2, <1>10, ElsewiseFrame
<1>11. UNCHANGED vars => UNCHANGED request
  BY DEF vars
<1>12. ASSUME NEW c \in Admins, Quiet(c) PROVE InFlight'
  BY <1>3, <1>4, <1>5, <1>6, <1>7, <1>12 DEF Quiet
<1> QED  BY <1>2, <1>9, <1>10, <1>11, <1>12, StepCases

\* A receipt is written once, with the request and the outcome of its effect.
LEMMA NextKept ==
    ASSUME IInv, [Next]_vars
    PROVE  Kept'
<1>1. ASSUME UNCHANGED receipts PROVE Kept'
  BY <1>1 DEF IInv, Kept
<1>2. ASSUME NEW c \in Admins, Commit(c) PROVE Kept'
  <2>1. CASE UNCHANGED db
    BY <1>1, <2>1 DEF db
  <2>2. ASSUME NEW k, NEW m, NEW result, Takes(c, k, m, result), Outcome(m, result) PROVE Kept'
    <3>1. PICK d : d = [request |-> m, result |-> result]
      OBVIOUS
    <3>2. k \in Keys /\ receipts' = [receipts EXCEPT ![c][k] = d]
      BY <2>2, <3>1 DEF Takes
    <3>3. d \in Receipts
      BY <2>2, <3>1 DEF Takes, Outcome, Receipts
    <3> QED  BY <3>2, <3>3 DEF IInv, Kept
  <2> QED  BY <1>2, <2>1, <2>2, CommitCases
<1>3. ASSUME NEW o \in Orders, Elsewise(o) PROVE UNCHANGED receipts
  BY <1>3, ElsewiseFrame
<1>4. UNCHANGED db \/ UNCHANGED vars => UNCHANGED receipts
  BY DEF db, vars
<1> QED  BY <1>1, <1>2, <1>3, <1>4, StepCases, QuietFrame

\* The program starts in it.
LEMMA InitInv == Init => IInv
<1> SUFFICES ASSUME Init PROVE IInv
  OBVIOUS
<1>1. Lists
  <2>1. maps \in Seq(Orders) /\ IsInjective(maps)
    BY OrdersAssumption DEF Init
  <2>2. stored = <<>> \/ stored = maps
    BY DEF Init
  <2>3. stored \in Seq(Orders) /\ IsInjective(stored)
    BY <2>1, <2>2, OnceEmpty, ElementsEmpty
  <2>4. frozen = {} /\ states = [o \in Orders |-> "none"]
    BY DEF Init
  <2> QED  BY <2>1, <2>3, <2>4 DEF Lists, QueueStates
<1>2. Outbox
  <2>1. revision \in 0 .. MaxRevision /\ revision \in {0, 1}
    BY BoundsAssumption DEF Init
  <2>2. DOMAIN events = {}
    BY DEF Init
  <2> QED  BY <2>1, <2>2 DEF Outbox, OutboxHasNoHole
<1>3. Screens
  <2>1. Line \in Lines /\ revision \in Nat
    BY <1>1, <1>2, LineIs, LineFacts, BoundsAssumption DEF Lists, Outbox
  <2>2. Shown \in Views /\ Shown.list = Shown.version.order_ids
    BY <2>1 DEF Shown, Views, Lines
  <2>3. screen = [c \in Admins |-> Shown]
    BY DEF Init
  <2> QED  BY <2>2, <2>3 DEF Screens, ReplayShowsTheVersion
<1>4. InFlight
  BY BoundsAssumption DEF Init, InFlight
<1>5. Kept
  BY DEF Init, Kept
<1> QED  BY <1>1, <1>2, <1>3, <1>4, <1>5 DEF IInv

\* The invariant holds in every reachable state.
THEOREM Inductive == Spec => []IInv
<1>1. IInv /\ [Next]_vars => IInv'
  BY NextLists, NextOutbox, NextScreens, NextInFlight, NextKept DEF IInv
<1> QED  BY <1>1, InitInv, PTL DEF Spec

\* Every variable keeps its type, and a request is tried MaxAttempts times at
\* most (the loop of commit).
THEOREM TypeCorrect == Spec => []TypeOK
<1>1. IInv => TypeOK
  BY DEF IInv, Lists, Outbox, InFlight, TypeOK
<1> QED  BY <1>1, Inductive, PTL

\* No revision above the first lacks its event: the upsert and the outbox
\* insert are one transaction.
THEOREM NoHole == Spec => []OutboxHasNoHole
<1>1. IInv => OutboxHasNoHole
  BY DEF IInv, Outbox
<1> QED  BY <1>1, Inductive, PTL

\* A screen that replays events shows the queue of the version it claims,
\* whatever was changed without a new revision in between.
THEOREM ReplayIsFaithful == Spec => []ReplayShowsTheVersion
<1>1. IInv => ReplayShowsTheVersion
  BY DEF IInv, Screens
<1> QED  BY <1>1, Inductive, PTL

-----------------------------------------------------------------------------
(***************************************************************************)
(* commit_once implements ReorderContract: a commit is the effect of its   *)
(* command, the telling of an earlier one, or nothing; an answer that      *)
(* arrives or is lost is heard; whatever others do happens elsewhere.      *)
(***************************************************************************)

\* What the tables say of the apparatus is the same while they are.
LEMMA LineFrame ==
    ASSUME UNCHANGED <<maps, stored, states, frozen>>
    PROVE  Line' = Line
BY LineIs

\* An effect: the moved order is the only one to change its place.
LEMMA EffectStep ==
    ASSUME IInv, NEW c \in Admins, NEW k, NEW m, NEW result,
           Takes(c, k, m, result), Outcome(m, result), UNCHANGED <<maps, states, frozen>>
    PROVE  Contract!Effect(c, k)
<1>1. PICK list \in Seq(Orders) :
        /\ ToSet(list) = ToSet(Line.order_ids)
        /\ \E i \in DOMAIN Line.order_ids, j \in DOMAIN list :
              /\ Line.order_ids[i] = m.order /\ list[j] = m.order
              /\ RemoveAt(Line.order_ids, i) = RemoveAt(list, j)
        /\ result.version = [Line EXCEPT !.order_ids = list]
  BY DEF Outcome
<1>2. Line \in Lines
  BY LineIs, LineFacts DEF IInv, Lists
<1>3. /\ result.version.order_ids = list /\ result.version.states = Line.states
      /\ result.version.frozen = Line.frozen
  BY <1>1, <1>2 DEF Lines
<1>4. /\ Line' = result.version
      /\ moves' = IF Line' = Line THEN moves ELSE Append(moves, <<c, k>>)
  <2>1. CASE result.version = Line /\ UNCHANGED <<stored, moves>>
    BY <2>1, LineFrame
  <2>2. CASE result.version # Line /\ stored' = result.version.order_ids /\ moves' = Append(moves, <<c, k>>)
    <3>1. Line' = LineOf(list, maps, states, frozen)
      BY <1>3, <2>2, LineIs
    <3>2. ToSet(list) = ToSet(LineOf(stored, maps, states, frozen).order_ids)
      BY <1>1, LineIs
    <3>3. LineOf(list, maps, states, frozen)
            = [LineOf(stored, maps, states, frozen) EXCEPT !.order_ids = list]
      BY <3>2, LineAfterSave DEF IInv, Lists
    <3>4. Line' = result.version
      BY <1>1, <3>1, <3>3, LineIs
    <3> QED  BY <2>2, <3>4
  <2> QED  BY <2>1, <2>2 DEF Takes
<1>5. Contract!OnlyMoves(m.order, Line, Line')
  <2>1. m.order \notin Line.frozen
    BY DEF Takes
  <2> QED  BY <1>1, <1>3, <1>4, <2>1 DEF Contract!OnlyMoves, RemoveAt, Contract!RemoveAt
<1>6. PICK d : d = [request |-> m, result |-> result]
  OBVIOUS
<1>7. d \in Receipts /\ d # Nothing
  BY <1>6, NothingAssumption DEF Takes, Outcome, Receipts
<1>8. k \in Keys /\ receipts[c][k] = Nothing /\ receipts' = [receipts EXCEPT ![c][k] = d]
  BY <1>6 DEF Takes
<1>9. receipts'[c][k] = d
  BY <1>8 DEF IInv, Kept
<1>10. answer' = [answer EXCEPT ![c] = d.result]
  BY <1>6 DEF Takes, Answer
<1>11. d.request.expected = Line /\ d.request.order = m.order /\ d.result.version = Line'
  BY <1>4, <1>6 DEF Takes
<1> QED  BY <1>4, <1>5, <1>7, <1>8, <1>9, <1>10, <1>11 DEF Contract!Effect

\* A step that changes no receipt and tells nobody anything.
LEMMA ElsewhereStep ==
    ASSUME UNCHANGED <<receipts, moves, answer>>
    PROVE  [Contract!Next]_Contract!contract
<1>1. CASE Line' = Line
  BY <1>1 DEF Contract!contract
<1>2. CASE Line' # Line
  BY <1>2 DEF Contract!Next, Contract!Elsewhere
<1> QED  BY <1>1, <1>2

\* Setting an answer that is not there to nothing.
LEMMA HearStep ==
    ASSUME IInv, NEW c \in Admins, answer' = [answer EXCEPT ![c] = Nothing], UNCHANGED db
    PROVE  [Contract!Next]_Contract!contract
<1>1. Line' = Line /\ UNCHANGED <<receipts, moves>>
  BY LineFrame DEF db
<1>2. CASE answer[c] = Nothing
  <2>1. answer' = answer
    BY <1>2 DEF IInv, InFlight
  <2> QED  BY <1>1, <2>1, ElsewhereStep
<1>3. CASE answer[c] # Nothing
  BY <1>1, <1>3 DEF Contract!Next, Contract!Hear
<1> QED  BY <1>2, <1>3

\* Every step is a step of the contract, or none.
LEMMA NextContract ==
    ASSUME IInv, [Next]_vars
    PROVE  [Contract!Next]_Contract!contract
<1>1. ASSUME NEW c \in Admins, Commit(c) PROVE [Contract!Next]_Contract!contract
  <2>1. UNCHANGED <<maps, states, frozen>>
    BY <1>1, CommitCases
  <2>2. ASSUME UNCHANGED db, NEW k \in Keys, receipts[c][k] # Nothing, Answer(c, receipts[c][k].result)
        PROVE  [Contract!Next]_Contract!contract
    <3>1. Line' = Line /\ UNCHANGED <<receipts, moves>>
      BY <2>2, LineFrame DEF db
    <3>2. Contract!Tell(c)
      BY <2>2, <3>1 DEF Contract!Tell, Answer
    <3> QED  BY <3>2 DEF Contract!Next
  <2>3. ASSUME UNCHANGED db, Answer(c, Nothing) PROVE [Contract!Next]_Contract!contract
    BY <2>3, HearStep DEF Answer
  <2>4. ASSUME UNCHANGED db, Conflict(c) PROVE [Contract!Next]_Contract!contract
    <3>1. UNCHANGED answer \/ Answer(c, Nothing)
      BY <2>4 DEF Conflict
    <3> QED  BY <2>3, <2>4, <3>1, ElsewhereStep DEF db
  <2>5. ASSUME NEW k, NEW m, NEW result, Takes(c, k, m, result), Outcome(m, result)
        PROVE  [Contract!Next]_Contract!contract
    <3>1. Contract!Effect(c, k) /\ k \in Keys
      BY <2>1, <2>5, EffectStep DEF Takes
    <3> QED  BY <3>1 DEF Contract!Next
  <2> QED  BY <1>1, <2>2, <2>3, <2>4, <2>5, CommitCases
<1>2. ASSUME NEW c \in Admins, Quiet(c) PROVE [Contract!Next]_Contract!contract
  <2>1. UNCHANGED db
    BY <1>2, QuietFrame
  <2>2. UNCHANGED answer \/ answer' = [answer EXCEPT ![c] = Nothing]
    BY <1>2 DEF Quiet, Ask, ReadCandidates, Deliver, Lose, Look, Replay, request
  <2> QED  BY <2>1, <2>2, HearStep, ElsewhereStep DEF db
<1>3. ASSUME NEW o \in Orders, Elsewise(o) PROVE [Contract!Next]_Contract!contract
  BY <1>3, ElsewiseFrame, ElsewhereStep DEF request
<1>4. ASSUME UNCHANGED vars PROVE [Contract!Next]_Contract!contract
  BY <1>4, ElsewhereStep DEF vars, db, request
<1> QED  BY <1>1, <1>2, <1>3, <1>4, StepCases

\* commit_once keeps the promise of ReorderContract: every command takes effect
\* at most once, on the version its author saw, moves only its order, and its
\* author is told that effect or nothing.
THEOREM Implements == Spec => MoveContract
<1>1. Init => Contract!Init
  BY DEF Init, Contract!Init
<1>2. IInv /\ [Next]_vars => [Contract!Next]_Contract!contract
  BY NextContract
<1> QED  BY <1>1, <1>2, Inductive, PTL DEF Spec, MoveContract, Contract!Spec

=============================================================================
