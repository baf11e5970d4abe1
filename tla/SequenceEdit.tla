---------------------------- MODULE SequenceEdit ----------------------------
(***************************************************************************)
(* The compact list edit of the live feed                                  *)
(* (http/handlers/admin/production_maps/sequence_delta.rs).                *)
(*                                                                         *)
(* sequence_edit walks once through the new list and describes it as       *)
(* ranges of the old list and literal identifiers.  One step is one round  *)
(* of its outer loop; an edit that is not smaller than the list itself is  *)
(* thrown away at the end, and the list is sent whole.                     *)
(***************************************************************************)
EXTENDS Naturals, Sequences, SequencesExt

CONSTANTS
    Ids,            \* identifiers
    Blank,          \* the empty identifier
    MaxLen          \* bound on both lists

ASSUME IdsAssumption == Blank \notin Ids /\ MaxLen \in Nat

VARIABLES
    before, after,  \* the two lists
    cursor,         \* identifiers of `after` described so far
    ops,            \* the operations so far
    verdict         \* "run", then "edit" (Some) or "none" (None)

vars == <<before, after, cursor, ops, verdict>>

Lists == UNION {[1 .. n -> Ids \union {Blank}] : n \in 0 .. MaxLen}

Init ==
    /\ before \in Lists /\ after \in Lists
    /\ cursor = 0 /\ ops = <<>>
    /\ verdict = "run"

\* positions: every identifier of the old list once, and none of them blank.
Indexable(s) == IsInjective(s) /\ ~ Contains(s, Blank)

Rejected == before = after \/ before = <<>> \/ after = <<>> \/ ~ Indexable(before)

\* An identifier that is found among those seen because it was just added.
AllNewToo(from, to) ==
    \A i \in from .. to : /\ after[i] # Blank
                          /\ \A j \in 1 .. to : j > from => after[j] # after[i]

\* The identifiers of after[from .. to] are new to `seen` and not blank.
AllNew(from, to) ==
    \A i \in from .. to : /\ after[i] # Blank
                          /\ \A j \in 1 .. i - 1 : after[j] # after[i]

\* A run whose identifiers are not compared.
RunUnchecked(start) ==
    IF Len(after) - cursor < Len(before) - start + 1
    THEN Len(after) - cursor ELSE Len(before) - start + 1

\* The length of the run that before[start ..] and after[cursor + 1 ..] share.
RunLength(start) ==
    LET same(n) == /\ cursor + n <= Len(after) /\ start + n - 1 <= Len(before)
                   /\ before[start + n - 1] = after[cursor + n]
    IN  CHOOSE n \in 1 .. Len(after) :
            (\A i \in 1 .. n : same(i)) /\ ~ same(n + 1)

\* The literals up to the next identifier of the old list.
LiteralLength ==
    CHOOSE n \in 1 .. Len(after) - cursor :
        /\ \A i \in cursor + 1 .. cursor + n : ~ Contains(before, after[i])
        /\ cursor + n = Len(after) \/ Contains(before, after[cursor + n + 1])

Emit(op, n) ==
    /\ ops' = Append(ops, op)
    /\ cursor' = cursor + n
    /\ UNCHANGED <<before, after, verdict>>

GiveUp ==
    /\ verdict' = "none"
    /\ UNCHANGED <<before, after, cursor, ops>>

Working == verdict = "run" /\ ~ Rejected /\ cursor < Len(after)

CopyRound ==
    /\ Working
    /\ Contains(before, after[cursor + 1])
    /\ LET start == CHOOSE i \in DOMAIN before : before[i] = after[cursor + 1]
           n     == RunLength(start)
       IN  IF AllNew(cursor + 1, cursor + n)
           THEN Emit([copy |-> TRUE, start |-> start, count |-> n], n)
           ELSE GiveUp

LiteralRound ==
    /\ Working
    /\ ~ Contains(before, after[cursor + 1])
    /\ LET n == LiteralLength
       IN  IF AllNew(cursor + 1, cursor + n)
           THEN Emit([copy |-> FALSE, ids |-> SubSeq(after, cursor + 1, cursor + n)], n)
           ELSE GiveUp

Reject ==
    /\ verdict = "run" /\ Rejected
    /\ GiveUp

\* Which of the two is smaller depends on the length of the identifiers.
Measure ==
    /\ verdict = "run" /\ ~ Rejected /\ cursor = Len(after)
    /\ verdict' \in {"edit", "none"}
    /\ UNCHANGED <<before, after, cursor, ops>>

Next == CopyRound \/ LiteralRound \/ Reject \/ Measure

Spec == Init /\ [][Next]_vars

-----------------------------------------------------------------------------
(* Properties.                                                             *)

\* What a reader of the edit does: ranges of its own old list, and literals.
Piece(list, op) ==
    IF op.copy THEN SubSeq(list, op.start, op.start + op.count - 1) ELSE op.ids

Rebuild(list, edit) ==
    LET built[i \in 0 .. Len(edit)] ==
            IF i = 0 THEN <<>> ELSE built[i - 1] \o Piece(list, edit[i])
    IN  built[Len(edit)]

\* At every round the operations describe exactly the part of the new list
\* the cursor has passed, from the unmodified old list (sequence_edit); an
\* edit that is sent therefore rebuilds the new list.
EditRebuildsTheList ==
    /\ Rebuild(before, ops) = SubSeq(after, 1, cursor)
    /\ verdict = "edit" => Rebuild(before, ops) = after

\* A list whose identifiers are distinct and not blank is never given up
\* half-way: only a list that could not be described unambiguously, and one
\* that would not get smaller, falls back to the whole list.
GivesUpOnlyOnBadLists ==
    (verdict = "none" /\ cursor < Len(after))
        => Rejected \/ ~ Indexable(after)

=============================================================================
