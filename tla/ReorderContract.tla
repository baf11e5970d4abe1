--------------------------- MODULE ReorderContract ---------------------------
(***************************************************************************)
(* What reordering one apparatus queue promises its clients.               *)
(*                                                                         *)
(* A command is named by its author and the author's idempotency key.  It  *)
(* takes effect at most once, atomically, and only on the very queue its   *)
(* author was looking at; it moves one order among the others and nothing  *)
(* else; its author is never told anything but the outcome of that one     *)
(* effect.  Everything else that happens to the queue is Elsewhere.        *)
(***************************************************************************)
EXTENDS Naturals, Sequences, SequencesExt

CONSTANTS
    Admins,         \* authors
    Keys,           \* idempotency keys of one author
    Nothing         \* no outcome

VARIABLES
    line,           \* [order_ids, states, frozen] of the apparatus
    done,           \* author -> key -> [request, result] or Nothing
    moves,          \* the moves that took effect, in order
    told            \* author -> outcome the author is being told, or Nothing

contract == <<line, done, moves, told>>

Init ==
    /\ done = [c \in Admins |-> [k \in Keys |-> Nothing]]
    /\ moves = <<>>
    /\ told = [c \in Admins |-> Nothing]

\* Only the moved order changes its place: taken out of both lists, it leaves
\* the same list.
OnlyMoves(o, before, after) ==
    /\ after.states = before.states /\ after.frozen = before.frozen
    /\ o \notin before.frozen
    /\ \E i \in DOMAIN before.order_ids, j \in DOMAIN after.order_ids :
          /\ before.order_ids[i] = o /\ after.order_ids[j] = o
          /\ RemoveAt(before.order_ids, i) = RemoveAt(after.order_ids, j)

\* The command takes effect and its author is told.
Effect(c, k) ==
    /\ done[c][k] = Nothing
    /\ \E d \in {done'[c][k]} \ {Nothing} :
          /\ done' = [done EXCEPT ![c][k] = d]
          /\ d.request.expected = line
          /\ OnlyMoves(d.request.order, line, line')
          /\ d.result.version = line'
          /\ moves' = IF line' = line THEN moves ELSE Append(moves, <<c, k>>)
          /\ told' = [told EXCEPT ![c] = d.result]

\* A repeated command: its author is told again.
Tell(c) ==
    /\ \E k \in Keys : /\ done[c][k] # Nothing
                      /\ told' = [told EXCEPT ![c] = done[c][k].result]
    /\ UNCHANGED <<done, moves, line>>

\* The answer arrives or is lost.
Hear(c) ==
    /\ told[c] # Nothing
    /\ told' = [told EXCEPT ![c] = Nothing]
    /\ UNCHANGED <<done, moves, line>>

\* Starts, completions, stops, releases, new and deleted orders, saved
\* sequences: not this component's, but never the effect of a command.
Elsewhere ==
    /\ UNCHANGED <<done, moves, told>>
    /\ line' # line

Next ==
    \/ \E c \in Admins : Tell(c) \/ Hear(c) \/ \E k \in Keys : Effect(c, k)
    \/ Elsewhere

Spec == Init /\ [][Next]_contract

=============================================================================
