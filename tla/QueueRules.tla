------------------------------ MODULE QueueRules ------------------------------
(***************************************************************************)
(* The pure rules of an apparatus queue (core/production_map/queue): which *)
(* action moves an order from which state to which, which order of a       *)
(* sequence may be worked on next, and how an administrator may reorder a  *)
(* sequence around the orders that are running.                            *)
(*                                                                         *)
(* A queue is a function from orders to states; an order without a row is  *)
(* "none" and counts as pending.  The module has no state of its own.      *)
(***************************************************************************)
EXTENDS Integers, Sequences, SequencesExt

QueueStates == {"none", "pending", "print_preflight", "in_progress",
                "paused", "frozen", "completed"}

\* The states in which an order occupies its apparatus.
ActiveStates == {"in_progress", "print_preflight"}

\* unwrap_or(Pending): an absent row reads as pending.
Parsed(s) == IF s = "none" THEN "pending" ELSE s

-----------------------------------------------------------------------------
(* next_queue_state.  DetachRoll moves an order as Pause does; Merge and    *)
(* RollComplete leave it in progress.                                      *)

Transitions ==
    { <<"pending",         "start",    "in_progress">>,
      <<"print_preflight", "start",    "in_progress">>,
      <<"print_preflight", "freeze",   "frozen">>,
      <<"in_progress",     "pause",    "paused">>,
      <<"in_progress",     "freeze",   "frozen">>,
      <<"in_progress",     "complete", "completed">>,
      <<"paused",          "resume",   "in_progress">> }

MayMove(from, act) == \E t \in Transitions : t[1] = from /\ t[2] = act

NextState(from, act) ==
    (CHOOSE t \in Transitions : t[1] = from /\ t[2] = act)[3]

-----------------------------------------------------------------------------
(* Lists of orders.                                                        *)

\* The elements of s that are in S, in their order.
Keep(s, S) ==
    LET kept[i \in 0 .. Len(s)] ==
            IF i = 0 THEN <<>>
            ELSE IF s[i] \in S THEN Append(kept[i - 1], s[i]) ELSE kept[i - 1]
    IN  kept[Len(s)]

\* retain(|id| id != x)
Without(s, x) == Keep(s, ToSet(s) \ {x})

-----------------------------------------------------------------------------
(* The executable sequence of an apparatus.                                *)

\* Saved order first, then the visible orders nobody placed yet, oldest
\* first; the orders under a stop are left out.
EffectiveSequence(stored, visible, excluded) ==
    LET placed == Keep(stored, ToSet(visible) \ excluded)
    IN  placed \o Keep(visible, ToSet(visible) \ (excluded \cup ToSet(placed)))

SlotsIn(sequence, states, S) ==
    {i \in DOMAIN sequence : Parsed(states[sequence[i]]) \in S}

\* first_actionable_order_id(sequence, states) == o.
IsFirstActionable(sequence, states, o) ==
    LET active  == SlotsIn(sequence, states, ActiveStates)
        waiting == SlotsIn(sequence, states, {"pending", "paused"})
        slots   == IF active # {} THEN active ELSE waiting
    IN  \E i \in slots : sequence[i] = o /\ \A j \in slots : i <= j

OtherActive(states, o) ==
    \E p \in DOMAIN states \ {o} : states[p] \in ActiveStates

\* apply_queue_policy: Start and Resume consume the current queue slot.
MayTakeSlot(strict, sequence, states, o) ==
    /\ strict => IsFirstActionable(sequence, states, o)
    /\ ~ OtherActive(states, o)

\* apply_requeued_resume: work returned to the tail after a stop resumes
\* from pending; a free-pick apparatus checks neither order nor occupancy.
MayResumeRequeued(strict, sequence, states, o) ==
    strict => IsFirstActionable(sequence, states, o)

-----------------------------------------------------------------------------
(* Reordering around running work.                                         *)

Position(s, x) == CHOOSE i \in DOMAIN s : s[i] = x /\ \A j \in DOMAIN s :
                                                     s[j] = x => i <= j

CurrentPosition(s, x) == IF Contains(s, x) THEN Position(s, x) ELSE 1

\* A barrier that forgets the orders placed ahead of the running one.
BarrierLoose(current, next, active) ==
    \A x \in active : Contains(next, x)

\* validate_active_sequence_barrier: a running order keeps its place or
\* moves up, and nothing that was not ahead of it gets ahead of it.
Barrier(current, next, active) ==
    \A x \in active :
        /\ Contains(next, x)
        /\ Position(next, x) <= CurrentPosition(current, x)
        /\ \A j \in 1 .. Position(next, x) - 1 :
              /\ Contains(current, next[j])
              /\ Position(current, next[j]) < CurrentPosition(current, x)

Distance(i, j) == IF i < j THEN j - i ELSE i - j

\* Slots are tried by distance from the wish, then from the old place.
Closer(i, j, wish, old) ==
    \/ Distance(i, wish) < Distance(j, wish)
    \/ /\ Distance(i, wish) = Distance(j, wish)
       /\ \/ Distance(i, old) < Distance(j, old)
          \/ Distance(i, old) = Distance(j, old) /\ i <= j

\* nearest_allowed_sequence, for a wish that names a slot among the others.
AllowedSlots(current, moved, active) ==
    LET rest == Without(current, moved)
    IN  {i \in 1 .. Len(rest) + 1 : Barrier(current, InsertAt(rest, i, moved), active)}

NearestAllowed(current, moved, wish, active) ==
    LET slots == AllowedSlots(current, moved, active)
        slot  == CHOOSE i \in slots : \A j \in slots :
                    Closer(i, j, wish, Position(current, moved))
    IN  InsertAt(Without(current, moved), slot, moved)

=============================================================================
