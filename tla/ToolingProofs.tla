----------------------------- MODULE ToolingProofs -----------------------------
(***************************************************************************)
(* Proofs about Tooling, for any molds, orders and workers, any sets of    *)
(* molds shared between orders, and any machines.                          *)
(***************************************************************************)
EXTENDS Tooling, FiniteSetTheorems, TLAPS

(***************************************************************************)
(* The inductive invariant.                                                *)
(***************************************************************************)

\* A mold is on the shelf, or one worker has it (MoldsConserved, pointwise).
Kept(m) ==
    \/ shelf[m] = Stock[m] /\ \A w \in Workers : issued[m][w] = 0
    \/ /\ Stock[m] = 1
       /\ shelf[m] = 0
       /\ \E w \in Workers :
             issued[m][w] = 1 /\ \A v \in Workers \ {w} : issued[m][v] = 0

AllKept == \A m \in Molds : Kept(m)

\* Two open orders never own the same mold (OneOwner, pointwise).
Unshared == \A m \in Molds : \A o, p \in Orders : Owns(o, m) /\ Owns(p, m) => o = p

OwnedIsWritable == \A m \in Molds : \A o \in Orders : Owns(o, m) => Writable(m)

\* Ownership is given up before it is taken again, and a running order has not
\* given it up.
SessionSound(s) ==
    /\ Released(s) => ~ s.owner
    /\ s.status = "active" => ~ Released(s)
    /\ s.status = "none" => ~ s.owner /\ ~ Released(s)
    /\ s.status # "none" => s.worker \in Workers

SessionsSound == \A o \in Orders : SessionSound(session[o])

\* What a start or resume carries after it looked the molds up.
PreparedSound(o) ==
    /\ session[o].status \in {"none", "paused"}
    /\ session[o].released = "freeze" => req[o].molds
    /\ req[o].take \subseteq Needs[o]

\* What it carries after it read the session.
ReadSound(o) ==
    /\ session[o].status \in {"none", "paused"}
    /\ req[o].take \subseteq Needs[o]
    /\ req[o].session.status = "active"
    /\ req[o].session.worker = req[o].worker
    /\ session[o].released = "freeze" => req[o].reacquires
    /\ Released(req[o].session) => session[o].released = "return"

\* What an administrator's freeze carries.
FreezeSound(o) ==
    /\ session[o].status = "paused"
    /\ req[o].session.status = "frozen"
    /\ ~ req[o].session.owner
    /\ req[o].session.worker \in Workers
    /\ Released(req[o].session) => session[o].owner \/ Released(session[o])

Carried ==
    \A o \in Orders :
        /\ req[o] # None /\ req[o].pc = "prepared" => PreparedSound(o)
        /\ req[o] # None /\ req[o].pc = "read" => ReadSound(o)
        /\ req[o] # None /\ req[o].pc = "freeze" => FreezeSound(o)

IInv ==
    /\ TypeOK
    /\ AllKept
    /\ Unshared
    /\ OwnedIsWritable
    /\ SessionsSound
    /\ Carried

-----------------------------------------------------------------------------
(***************************************************************************)
(* Steps by what they touch.                                               *)
(***************************************************************************)

\* Commands that only move molds between shelf, rework, pallet and archive.
Storing ==
    \/ \E m \in Molds : Send(m) \/ Receive(m) \/ Pack(m) \/ Unpack(m) \/ Archive(m) \/ Restore(m)
    \/ LockPallet \/ UnlockPallet \/ ArchivePallet \/ RestorePallet

\* Steps that only change who is at the head of a queue.
Queueing == \E o \in Orders : Overtaken(o) \/ ComesFirst(o)

\* Every step is one of these (the shape of Next).
LEMMA StepCases ==
    ASSUME [Next]_vars
    PROVE  \/ UNCHANGED vars
           \/ Storing
           \/ Queueing
           \/ \E m \in Molds, w \in Workers : Issue(m, w) \/ Return(m, w)
           \/ \E o \in Orders, w \in Workers :
                 Prepare(o, w) \/ Pause(o, w) \/ Complete(o, w) \/ Freeze(o, w)
           \/ \E o \in Orders :
                 Read(o) \/ Commit(o) \/ Abandon(o) \/ ReadFreeze(o) \/ CommitFreeze(o) \/ Unfreeze(o)
BY Zenon DEF Next, Storing, Queueing

\* A storage command leaves quantities, checkouts, sessions and requests alone.
LEMMA StoringFrame ==
    ASSUME Storing
    PROVE  UNCHANGED <<shelf, issued, session, first, req>>
BY DEF Storing, Send, Receive, Pack, Unpack, Archive, Restore, LockPallet, UnlockPallet,
       ArchivePallet, RestorePallet, queueVars

\* A change at the head of a queue leaves everything else alone.
LEMMA QueueingFrame ==
    ASSUME Queueing
    PROVE  UNCHANGED <<warehouseVars, session, req>>
BY DEF Queueing, Overtaken, ComesFirst

-----------------------------------------------------------------------------
(***************************************************************************)
(* Types.                                                                  *)
(***************************************************************************)

\* Everything but the heads of the queues.
Typed ==
    /\ shelf \in [Molds -> Nat]
    /\ issued \in [Molds -> [Workers -> Nat]]
    /\ away \subseteq Molds
    /\ stored \in [Molds -> {"free", "packed", "archived"}]
    /\ pallet \in [locked : BOOLEAN, archived : BOOLEAN]
    /\ session \in [Orders -> Sessions]
    /\ req \in [Orders -> Requests \cup {None}]

\* A request under way is a record.
LEMMA RequestType ==
    ASSUME TypeOK, NEW o \in Orders, req[o] # None
    PROVE  req[o] \in Requests
BY DEF TypeOK

\* A session that moves to another status under some worker.
LEMMA SessionMoves ==
    ASSUME NEW s \in Sessions, NEW st \in {"active", "paused", "frozen", "completed"},
           NEW w \in Workers
    PROVE  /\ [s EXCEPT !.status = st] \in Sessions
           /\ [s EXCEPT !.status = st, !.worker = w] \in Sessions
           /\ [s EXCEPT !.status = st, !.worker = w].worker = w
<1>1. st \in OpenStatus \cup {"none", "completed"}
  BY DEF OpenStatus
<1> QED  BY <1>1 DEF Sessions

\* Taking checkouts back keeps the types of shelf and checkouts.
LEMMA TakesBackType ==
    ASSUME TypeOK, NEW o \in Orders, NEW w \in Workers, TakesBack(o, w)
    PROVE  shelf' \in [Molds -> Nat] /\ issued' \in [Molds -> [Workers -> Nat]]
<1>1. shelf' \in [Molds -> Nat]
  BY DEF TakesBack, TypeOK
<1>2. issued' \in [Molds -> [Workers -> Nat]]
  BY DEF TakesBack, TypeOK
<1> QED  BY <1>1, <1>2

\* A frozen session keeps the types, when a worker stands in it.
LEMMA PutFrozenType ==
    ASSUME TypeOK, NEW o \in Orders, NEW s \in Sessions, s.worker \in Workers, PutFrozen(o, s)
    PROVE  /\ shelf' \in [Molds -> Nat] /\ issued' \in [Molds -> [Workers -> Nat]]
           /\ session' \in [Orders -> Sessions]
<1>1. shelf' \in [Molds -> Nat] /\ issued' \in [Molds -> [Workers -> Nat]]
  <2>1. CASE session[o].released # "freeze" /\ (s.owner \/ Released(s))
    BY <2>1, TakesBackType DEF PutFrozen
  <2>2. CASE ~ (session[o].released # "freeze" /\ (s.owner \/ Released(s)))
    BY <2>2 DEF PutFrozen, TypeOK
  <2> QED  BY <2>1, <2>2
<1>2. [s EXCEPT !.owner = FALSE, !.released = "freeze"] \in Sessions
  BY DEF Sessions
<1>3. session' \in [Orders -> Sessions]
  BY <1>2 DEF PutFrozen, TypeOK
<1> QED  BY <1>1, <1>3

\* The steps of requests and workers keep the types.
LEMMA TypedStep ==
    ASSUME IInv, [Next]_vars
    PROVE  Typed'
<1> USE ToolingAssumption
<1>t. TypeOK  BY DEF IInv
<1>1. CASE UNCHANGED vars
  BY <1>1, <1>t DEF vars, warehouseVars, queueVars, Typed, TypeOK
<1>2. CASE Storing
  <2>1. UNCHANGED <<shelf, issued, session, first, req>>
    BY <1>2, StoringFrame
  <2>2. away' \subseteq Molds /\ stored' \in [Molds -> {"free", "packed", "archived"}]
    BY <1>2, <1>t DEF Storing, Send, Receive, Pack, Unpack, Archive, Restore, LockPallet,
          UnlockPallet, ArchivePallet, RestorePallet, TypeOK
  <2>3. pallet' \in [locked : BOOLEAN, archived : BOOLEAN]
    <3>1. \A b \in BOOLEAN : /\ [pallet EXCEPT !.locked = b] \in [locked : BOOLEAN, archived : BOOLEAN]
                            /\ [pallet EXCEPT !.archived = b] \in [locked : BOOLEAN, archived : BOOLEAN]
      BY <1>t DEF TypeOK
    <3> QED
      BY <1>2, <1>t, <3>1 DEF Storing, Send, Receive, Pack, Unpack, Archive, Restore, LockPallet,
          UnlockPallet, ArchivePallet, RestorePallet, TypeOK
  <2> QED  BY <2>1, <2>2, <2>3, <1>t DEF Typed, TypeOK
<1>3. CASE Queueing
  BY <1>3, QueueingFrame, <1>t DEF warehouseVars, Typed, TypeOK
<1>4. ASSUME NEW m \in Molds, NEW w \in Workers, Issue(m, w) PROVE Typed'
  BY <1>4, <1>t DEF Issue, queueVars, Typed, TypeOK
<1>5. ASSUME NEW m \in Molds, NEW w \in Workers, Return(m, w) PROVE Typed'
  <2>1. session' \in [Orders -> Sessions]
    BY <1>5, <1>t DEF Return, TypeOK, Sessions
  <2>2. issued[m][w] - 1 \in Nat /\ shelf[m] + 1 \in Nat
    <3>1. issued[m][w] > 0
      BY <1>5 DEF Return
    <3>2. issued[m][w] \in Nat /\ shelf[m] \in Nat
      BY <1>t DEF TypeOK
    <3> QED  BY <3>1, <3>2
  <2>3. shelf' \in [Molds -> Nat]
    BY <1>5, <1>t, <2>2 DEF Return, TypeOK
  <2>4. [issued[m] EXCEPT ![w] = @ - 1] \in [Workers -> Nat]
    BY <1>t, <2>2 DEF TypeOK
  <2>5. issued' = [issued EXCEPT ![m] = [issued[m] EXCEPT ![w] = @ - 1]]
    BY <1>5 DEF Return
  <2>6. issued' \in [Molds -> [Workers -> Nat]]
    BY <2>4, <2>5, <1>t DEF TypeOK
  <2> QED  BY <1>5, <2>1, <2>3, <2>6, <1>t DEF Return, Typed, TypeOK
<1>6. ASSUME NEW o \in Orders, NEW w \in Workers, Prepare(o, w) PROVE Typed'
  <2>1. NoSession \in Sessions
    BY DEF NoSession, Sessions
  <2>2. req' \in [Orders -> Requests \cup {None}]
    BY <1>6, <1>t, <2>1 DEF Prepare, TypeOK, Requests, NeedsMolds, Released
  <2> QED  BY <1>6, <2>2, <1>t DEF Prepare, warehouseVars, Typed, TypeOK
<1>7. ASSUME NEW o \in Orders, Read(o) PROVE Typed'
  <2>1. req[o] \in Requests
    BY <1>7, <1>t, RequestType DEF Read
  <2> DEFINE s == [status   |-> "active",
              owner    |-> req[o].molds \/ session[o].owner,
              worker   |-> req[o].worker,
              released |-> IF req[o].molds THEN "no" ELSE session[o].released]
             b == req[o].molds /\ Released(session[o])
             r == [req[o] EXCEPT !.pc = "read", !.reacquires = b, !.session = s]
  <2>2. s \in Sessions /\ b \in BOOLEAN
    <3>1. (req[o].molds \/ session[o].owner) \in BOOLEAN /\ b \in BOOLEAN
      OBVIOUS
    <3>2. req[o].worker \in Workers
      BY <2>1 DEF Requests
    <3>3. session[o].released \in {"no", "freeze", "return"}
      BY <1>t DEF TypeOK, Sessions
    <3>4. "active" \in OpenStatus \cup {"none", "completed"}
      BY DEF OpenStatus
    <3> QED  BY <3>1, <3>2, <3>3, <3>4 DEF Sessions
  <2>3. r \in Requests
    <3> HIDE DEF s, b
    <3> QED  BY <2>1, <2>2 DEF r, Requests
  <2>4. req' = [req EXCEPT ![o] = r]
    BY <1>7, <2>1, <1>t DEF Read, TypeOK, Requests
  <2> HIDE DEF r
  <2>5. req' \in [Orders -> Requests \cup {None}]
    BY <2>3, <2>4, <1>t DEF TypeOK
  <2> QED  BY <1>7, <2>5, <1>t DEF Read, warehouseVars, Typed, TypeOK
<1>8. ASSUME NEW o \in Orders, Commit(o) PROVE Typed'
  <2>1. req[o] \in Requests
    BY <1>8, <1>t, RequestType DEF Commit
  <2>2. shelf' \in [Molds -> Nat]
    BY <1>8, <1>t DEF Commit, OnShelf, TypeOK
  <2>3. issued' \in [Molds -> [Workers -> Nat]]
    BY <1>8, <2>1, <1>t DEF Commit, TypeOK, Requests
  <2>4. session' \in [Orders -> Sessions] /\ req' \in [Orders -> Requests \cup {None}]
    BY <1>8, <2>1, <1>t DEF Commit, TypeOK, Requests
  <2> QED  BY <1>8, <2>2, <2>3, <2>4, <1>t DEF Commit, Typed, TypeOK
<1>9. ASSUME NEW o \in Orders, Abandon(o) PROVE Typed'
  BY <1>9, <1>t DEF Abandon, warehouseVars, Typed, TypeOK
<1>10. ASSUME NEW o \in Orders, NEW w \in Workers, Pause(o, w) PROVE Typed'
  <2>1. session' \in [Orders -> Sessions]
    <3>1. session' = [session EXCEPT ![o] = [session[o] EXCEPT !.status = "paused", !.worker = w]]
      BY <1>10, <1>t DEF Pause, TypeOK
    <3> QED  BY <3>1, <1>t, SessionMoves DEF TypeOK
  <2> QED  BY <1>10, <2>1, <1>t DEF Pause, warehouseVars, Typed, TypeOK
<1>11. ASSUME NEW o \in Orders, NEW w \in Workers, Complete(o, w) PROVE Typed'
  <2>1. session' \in [Orders -> Sessions]
    <3>1. session' = [session EXCEPT ![o] = [session[o] EXCEPT !.status = "completed", !.worker = w]]
      BY <1>11, <1>t DEF Complete, TypeOK
    <3> QED  BY <3>1, <1>t, SessionMoves DEF TypeOK
  <2>2. shelf' \in [Molds -> Nat] /\ issued' \in [Molds -> [Workers -> Nat]]
    <3>1. CASE session[o].owner
      BY <1>11, <1>t, <3>1, TakesBackType DEF Complete
    <3>2. CASE ~ session[o].owner
      BY <1>11, <1>t, <3>2 DEF Complete, TypeOK
    <3> QED  BY <3>1, <3>2
  <2> QED  BY <1>11, <2>1, <2>2, <1>t DEF Complete, Typed, TypeOK
<1>12. ASSUME NEW o \in Orders, NEW w \in Workers, Freeze(o, w) PROVE Typed'
  <2> DEFINE s == [session[o] EXCEPT !.status = "frozen", !.worker = w]
  <2>0. session[o] \in Sessions
    BY <1>t DEF TypeOK
  <2>1. s \in Sessions /\ s.worker \in Workers
    BY <2>0, SessionMoves
  <2>2. PutFrozen(o, s)
    BY <1>12 DEF Freeze
  <2> HIDE DEF s
  <2>3. /\ shelf' \in [Molds -> Nat] /\ issued' \in [Molds -> [Workers -> Nat]]
        /\ session' \in [Orders -> Sessions]
    BY <2>1, <2>2, <1>t, PutFrozenType
  <2> QED  BY <1>12, <2>3, <1>t DEF Freeze, Typed, TypeOK
<1>13. ASSUME NEW o \in Orders, ReadFreeze(o) PROVE Typed'
  <2> DEFINE f == [session[o] EXCEPT !.status = "frozen"]
             s == IF f.owner THEN [f EXCEPT !.owner = FALSE, !.released = "freeze"] ELSE f
             r == [pc |-> "freeze", worker |-> session[o].worker, molds |-> FALSE,
                   take |-> {}, reacquires |-> FALSE, session |-> s]
  <2>1. f \in Sessions
    BY <1>t, SessionMoves, <1>13 DEF TypeOK, ReadFreeze, IInv, SessionsSound, SessionSound
  <2>2. s \in Sessions
    <3> HIDE DEF f
    <3> QED  BY <2>1 DEF s, Sessions
  <2>3. session[o].worker \in Workers
    BY <1>13 DEF ReadFreeze, IInv, SessionsSound, SessionSound
  <2>4. r \in Requests
    <3> HIDE DEF s
    <3> QED  BY <2>2, <2>3 DEF r, Requests
  <2>5. req' = [req EXCEPT ![o] = r]
    BY <1>13 DEF ReadFreeze
  <2> HIDE DEF r
  <2>6. req' \in [Orders -> Requests \cup {None}]
    BY <2>4, <2>5, <1>t DEF TypeOK
  <2> QED  BY <1>13, <2>6, <1>t DEF ReadFreeze, warehouseVars, Typed, TypeOK
<1>14. ASSUME NEW o \in Orders, CommitFreeze(o) PROVE Typed'
  <2>1. req[o] \in Requests
    BY <1>14, <1>t, RequestType DEF CommitFreeze
  <2>2. req[o].session \in Sessions /\ req[o].session.worker \in Workers
    BY <1>14, <2>1 DEF CommitFreeze, IInv, Carried, FreezeSound, Requests
  <2>3. /\ shelf' \in [Molds -> Nat] /\ issued' \in [Molds -> [Workers -> Nat]]
        /\ session' \in [Orders -> Sessions]
    BY <1>14, <2>2, <1>t, PutFrozenType DEF CommitFreeze
  <2> QED  BY <1>14, <2>3, <1>t DEF CommitFreeze, Typed, TypeOK
<1>15. ASSUME NEW o \in Orders, Unfreeze(o) PROVE Typed'
  <2>1. session' \in [Orders -> Sessions]
    <3>1. session' = [session EXCEPT ![o] = [session[o] EXCEPT !.status = "paused"]]
      BY <1>15, <1>t DEF Unfreeze, TypeOK
    <3>2. session[o].worker \in Workers
      BY <1>15 DEF Unfreeze, IInv, SessionsSound, SessionSound
    <3>3. [session[o] EXCEPT !.status = "paused"] \in Sessions
      <4>1. session[o] \in Sessions
        BY <1>t DEF TypeOK
      <4> QED  BY <3>2, <4>1, SessionMoves
    <3> QED  BY <3>1, <3>3, <1>t DEF TypeOK
  <2> QED  BY <1>15, <2>1, <1>t DEF Unfreeze, warehouseVars, Typed, TypeOK
<1> QED
  BY StepCases, <1>1, <1>2, <1>3, <1>4, <1>5, <1>6, <1>7, <1>8, <1>9, <1>10, <1>11, <1>12,
     <1>13, <1>14, <1>15, Zenon

-----------------------------------------------------------------------------
(***************************************************************************)
(* Molds are conserved.                                                    *)
(***************************************************************************)

\* Nothing happens to the mold.
LEMMA KeptStays ==
    ASSUME NEW m \in Molds, Kept(m), shelf'[m] = shelf[m], issued'[m] = issued[m]
    PROVE  Kept(m)'
BY DEF Kept

\* One is taken from the shelf and given to w.
LEMMA KeptWhenIssued ==
    ASSUME TypeOK, NEW m \in Molds, NEW w \in Workers, Kept(m), shelf[m] > 0,
           shelf'[m] = shelf[m] - 1, issued'[m] = [issued[m] EXCEPT ![w] = @ + 1]
    PROVE  Kept(m)'
<1>1. shelf[m] = 1 /\ Stock[m] = 1 /\ \A v \in Workers : issued[m][v] = 0
  BY ToolingAssumption DEF Kept
<1>2. issued[m] \in [Workers -> Nat]
  BY DEF TypeOK
<1>3. shelf'[m] = 0 /\ issued'[m][w] = 1 /\ \A v \in Workers \ {w} : issued'[m][v] = 0
  BY <1>1, <1>2
<1> QED  BY <1>1, <1>3 DEF Kept

\* What w has of it goes back to the shelf.
LEMMA KeptWhenReturned ==
    ASSUME TypeOK, NEW m \in Molds, NEW w \in Workers, Kept(m),
           shelf'[m] = shelf[m] + issued[m][w], issued'[m] = [issued[m] EXCEPT ![w] = 0]
    PROVE  Kept(m)'
<1>1. issued[m] \in [Workers -> Nat] /\ shelf[m] \in Nat /\ Stock[m] \in Nat
  BY ToolingAssumption DEF TypeOK
<1>2. CASE shelf[m] = Stock[m] /\ \A v \in Workers : issued[m][v] = 0
  <2>1. shelf'[m] = Stock[m] /\ \A v \in Workers : issued'[m][v] = 0
    BY <1>1, <1>2
  <2> QED  BY <2>1 DEF Kept
<1>3. ASSUME Stock[m] = 1, shelf[m] = 0, NEW u \in Workers, issued[m][u] = 1,
             \A v \in Workers \ {u} : issued[m][v] = 0
      PROVE  Kept(m)'
  <2>1. CASE u = w
    <3>1. shelf'[m] = Stock[m] /\ \A v \in Workers : issued'[m][v] = 0
      BY <1>1, <1>3, <2>1
    <3> QED  BY <3>1 DEF Kept
  <2>2. CASE u # w
    <3>1. shelf'[m] = 0 /\ issued'[m][u] = 1 /\ \A v \in Workers \ {u} : issued'[m][v] = 0
      BY <1>1, <1>3, <2>2
    <3> QED  BY <3>1, <1>3 DEF Kept
  <2> QED  BY <2>1, <2>2
<1> QED  BY <1>2, <1>3 DEF Kept

\* A worker has one of a mold at most.
LEMMA OneEach ==
    ASSUME TypeOK, NEW m \in Molds, NEW w \in Workers, Kept(m), issued[m][w] > 0
    PROVE  issued[m][w] = 1
BY DEF Kept

\* Returning what a worker has of a set of molds keeps each of them.
LEMMA TakesBackKeeps ==
    ASSUME TypeOK, AllKept, NEW o \in Orders, NEW w \in Workers, TakesBack(o, w)
    PROVE  AllKept'
<1> SUFFICES ASSUME NEW m \in Molds PROVE Kept(m)'
  BY DEF AllKept
<1>1. Kept(m)
  BY DEF AllKept
<1>2. CASE m \in Needs[o]
  <2>1. shelf'[m] = shelf[m] + issued[m][w] /\ issued'[m] = [issued[m] EXCEPT ![w] = 0]
    BY <1>2 DEF TakesBack
  <2> QED  BY <1>1, <2>1, KeptWhenReturned
<1>3. CASE m \notin Needs[o]
  <2>1. shelf'[m] = shelf[m] /\ issued'[m] = issued[m]
    BY <1>3 DEF TakesBack
  <2> QED  BY <1>1, <2>1, KeptStays
<1> QED  BY <1>2, <1>3

\* So does a step that touches neither shelf nor checkouts.
LEMMA FrameKeeps ==
    ASSUME AllKept, UNCHANGED <<shelf, issued>>
    PROVE  AllKept'
BY KeptStays DEF AllKept

\* A freeze keeps them, whether it returns checkouts or not.
LEMMA PutFrozenKeeps ==
    ASSUME TypeOK, AllKept, NEW o \in Orders, NEW s, s.worker \in Workers, PutFrozen(o, s)
    PROVE  AllKept'
<1>1. CASE session[o].released # "freeze" /\ (s.owner \/ Released(s))
  BY <1>1, TakesBackKeeps DEF PutFrozen
<1>2. CASE ~ (session[o].released # "freeze" /\ (s.owner \/ Released(s)))
  BY <1>2, FrameKeeps DEF PutFrozen
<1> QED  BY <1>1, <1>2

\* Every step keeps every mold.
LEMMA KeptStep ==
    ASSUME IInv, [Next]_vars
    PROVE  AllKept'
<1>t. TypeOK /\ AllKept  BY DEF IInv
<1>1. CASE UNCHANGED <<shelf, issued>>
  BY <1>1, <1>t, FrameKeeps
<1>2. ASSUME NEW m \in Molds, NEW w \in Workers, Issue(m, w) PROVE AllKept'
  <2> SUFFICES ASSUME NEW n \in Molds PROVE Kept(n)'
    BY DEF AllKept
  <2>1. Kept(n)
    BY <1>t DEF AllKept
  <2>2. CASE n = m
    <3>1. shelf[n] > 0 /\ shelf'[n] = shelf[n] - 1 /\ issued'[n] = [issued[n] EXCEPT ![w] = @ + 1]
      BY <1>2, <2>2, <1>t DEF Issue, TypeOK
    <3> QED  BY <2>1, <3>1, <1>t, KeptWhenIssued
  <2>3. CASE n # m
    <3>1. shelf'[n] = shelf[n] /\ issued'[n] = issued[n]
      BY <1>2, <2>3, <1>t DEF Issue, TypeOK
    <3> QED  BY <2>1, <3>1, KeptStays
  <2> QED  BY <2>2, <2>3
<1>3. ASSUME NEW m \in Molds, NEW w \in Workers, Return(m, w) PROVE AllKept'
  <2> SUFFICES ASSUME NEW n \in Molds PROVE Kept(n)'
    BY DEF AllKept
  <2>1. Kept(n)
    BY <1>t DEF AllKept
  <2>2. CASE n = m
    <3>1. issued[n][w] > 0
      BY <1>3, <2>2 DEF Return
    <3>2. issued[n][w] = 1
      BY <3>1, <2>1, <1>t, OneEach
    <3>3. shelf'[n] = shelf[n] + 1 /\ issued'[n] = [issued[n] EXCEPT ![w] = issued[n][w] - 1]
      BY <1>3, <2>2, <1>t DEF Return, TypeOK
    <3>4. shelf'[n] = shelf[n] + issued[n][w] /\ issued'[n] = [issued[n] EXCEPT ![w] = 0]
      BY <3>2, <3>3
    <3> QED  BY <2>1, <3>4, <1>t, KeptWhenReturned
  <2>3. CASE n # m
    <3>1. shelf'[n] = shelf[n] /\ issued'[n] = issued[n]
      BY <1>3, <2>3, <1>t DEF Return, TypeOK
    <3> QED  BY <2>1, <3>1, KeptStays
  <2> QED  BY <2>2, <2>3
<1>4. ASSUME NEW o \in Orders, Commit(o) PROVE AllKept'
  <2> SUFFICES ASSUME NEW n \in Molds PROVE Kept(n)'
    BY DEF AllKept
  <2>1. Kept(n)
    BY <1>t DEF AllKept
  <2>w. req[o].worker \in Workers
    BY <1>4, <1>t, RequestType DEF Commit, Requests
  <2>2. CASE n \in req[o].take
    <3>1. shelf[n] > 0 /\ shelf'[n] = shelf[n] - 1
          /\ issued'[n] = [issued[n] EXCEPT ![req[o].worker] = @ + 1]
      BY <1>4, <2>2 DEF Commit, OnShelf
    <3> QED  BY <2>1, <2>w, <3>1, <1>t, KeptWhenIssued
  <2>3. CASE n \notin req[o].take
    <3>1. shelf'[n] = shelf[n] /\ issued'[n] = issued[n]
      BY <1>4, <2>3 DEF Commit
    <3> QED  BY <2>1, <3>1, KeptStays
  <2> QED  BY <2>2, <2>3
<1>5. ASSUME NEW o \in Orders, NEW w \in Workers, Complete(o, w) PROVE AllKept'
  <2>1. TakesBack(o, w) \/ UNCHANGED <<shelf, issued>>
    BY <1>5 DEF Complete
  <2> QED  BY <2>1, <1>1, <1>t, TakesBackKeeps
<1>6. ASSUME NEW o \in Orders, NEW w \in Workers, Freeze(o, w) PROVE AllKept'
  <2> DEFINE s == [session[o] EXCEPT !.status = "frozen", !.worker = w]
  <2>0. session[o] \in Sessions
    BY <1>t DEF TypeOK
  <2>1. s.worker \in Workers /\ PutFrozen(o, s)
    BY <2>0, <1>6, SessionMoves DEF Freeze
  <2> HIDE DEF s
  <2> QED  BY <2>1, <1>t, PutFrozenKeeps
<1>7. ASSUME NEW o \in Orders, CommitFreeze(o) PROVE AllKept'
  <2>1. req[o].session.worker \in Workers
    BY <1>7 DEF CommitFreeze, IInv, Carried, FreezeSound
  <2> QED  BY <1>7, <2>1, <1>t, PutFrozenKeeps DEF CommitFreeze
<1>8. ASSUME NEW o \in Orders, NEW w \in Workers, Prepare(o, w) \/ Pause(o, w)
      PROVE  UNCHANGED <<shelf, issued>>
  BY <1>8 DEF Prepare, Pause, warehouseVars
<1>9. ASSUME NEW o \in Orders, Read(o) \/ Abandon(o) \/ ReadFreeze(o) \/ Unfreeze(o)
      PROVE  UNCHANGED <<shelf, issued>>
  BY <1>9 DEF Read, Abandon, ReadFreeze, Unfreeze, warehouseVars
<1>10. Storing \/ Queueing \/ UNCHANGED vars => UNCHANGED <<shelf, issued>>
  BY StoringFrame, QueueingFrame DEF vars, warehouseVars
<1> QED
  BY StepCases, <1>1, <1>2, <1>3, <1>4, <1>5, <1>6, <1>7, <1>8, <1>9, <1>10, Zenon

-----------------------------------------------------------------------------
(***************************************************************************)
(* What a step does to the session and the request of one order.           *)
(***************************************************************************)

\* The warehouse took a mold of the order back.
Handed(o) ==
    /\ session[o].owner
    /\ session[o].status # "active"
    /\ session'[o] = [session[o] EXCEPT !.owner = FALSE, !.released = "return"]

\* The status moves, ownership stays.
Moved(o) ==
    /\ req[o] = None
    /\ session'[o].owner = session[o].owner
    /\ session'[o].released = session[o].released
    /\ session'[o].worker \in Workers
    /\ \/ session[o].status = "active" /\ session'[o].status = "paused"
       \/ session[o].status = "active" /\ session'[o].status = "completed" /\ o \notin first'
       \/ session[o].status = "frozen" /\ session'[o].status = "paused"

\* The order is frozen.
Stopped(o) ==
    /\ session[o].status \in {"active", "paused"}
    /\ session'[o].status = "frozen"
    /\ ~ session'[o].owner
    /\ session'[o].worker \in Workers
    /\ o \notin first'
    /\ req'[o] = None

\* A frozen session no longer owns molds; other sessions stay.
LEMMA PutFrozenSession ==
    ASSUME TypeOK, NEW o \in Orders, NEW s \in Sessions, PutFrozen(o, s)
    PROVE  /\ session'[o].status = s.status
           /\ ~ session'[o].owner
           /\ session'[o].worker = s.worker
           /\ \A p \in Orders \ {o} : session'[p] = session[p]
<1>1. session'[o] = IF s.owner THEN [s EXCEPT !.owner = FALSE, !.released = "freeze"] ELSE s
  BY DEF PutFrozen, TypeOK
<1>2. \A p \in Orders \ {o} : session'[p] = session[p]
  BY DEF PutFrozen, TypeOK
<1>3. CASE s.owner
  <2>1. session'[o] = [s EXCEPT !.owner = FALSE, !.released = "freeze"]
    BY <1>1, <1>3
  <2> QED  BY <2>1, <1>2 DEF Sessions
<1>4. CASE ~ s.owner
  BY <1>1, <1>2, <1>4
<1> QED  BY <1>3, <1>4

\* Every step leaves the session of an order alone or changes it in one of the
\* four ways.
LEMMA SessionEffect ==
    ASSUME IInv, [Next]_vars, NEW o \in Orders
    PROVE  session'[o] = session[o] \/ Handed(o) \/ Moved(o) \/ Stopped(o) \/ Commit(o)
<1>t. TypeOK /\ session[o] \in Sessions  BY DEF IInv, TypeOK
<1> DEFINE Goal == session'[o] = session[o] \/ Handed(o) \/ Moved(o) \/ Stopped(o) \/ Commit(o)
<1>1. Storing \/ Queueing \/ UNCHANGED vars => session' = session
  BY StoringFrame, QueueingFrame DEF vars, queueVars
<1>2. ASSUME NEW m \in Molds, NEW w \in Workers, Issue(m, w) PROVE session' = session
  BY <1>2 DEF Issue, queueVars
<1>3. ASSUME NEW m \in Molds, NEW w \in Workers, Return(m, w) PROVE Goal
  <2>1. CASE o \in Owners(m)
    <3>1. session'[o] = [session[o] EXCEPT !.owner = FALSE, !.released = "return"]
      BY <1>3, <2>1 DEF Return
    <3>2. session[o].owner
      BY <2>1 DEF Owners, Owns
    <3>3. session[o].status # "active"
      BY <1>3, <2>1 DEF Return, BlocksReturn
    <3> QED  BY <3>1, <3>2, <3>3 DEF Handed
  <2>2. CASE o \notin Owners(m)
    BY <1>3, <2>2 DEF Return
  <2> QED  BY <2>1, <2>2
<1>4. ASSUME NEW p \in Orders, NEW w \in Workers, Prepare(p, w) PROVE session' = session
  BY <1>4 DEF Prepare
<1>5. ASSUME NEW p \in Orders, Read(p) \/ Abandon(p) \/ ReadFreeze(p) PROVE session' = session
  BY <1>5 DEF Read, Abandon, ReadFreeze
<1>6. ASSUME NEW p \in Orders, Commit(p) PROVE Goal
  <2>1. CASE p = o
    BY <1>6, <2>1
  <2>2. CASE p # o
    <3>1. session'[o] = session[o]
      BY <1>6, <2>2, <1>t DEF Commit, TypeOK
    <3> QED  BY <3>1
  <2> QED  BY <2>1, <2>2
<1>7. ASSUME NEW p \in Orders, NEW w \in Workers, Pause(p, w) PROVE Goal
  <2>1. CASE p = o
    <3>1. session'[o] = [session[o] EXCEPT !.status = "paused", !.worker = w]
      BY <1>7, <2>1, <1>t DEF Pause, TypeOK
    <3>2. session[o].status = "active" /\ req[o] = None
      BY <1>7, <2>1 DEF Pause, Running
    <3> QED  BY <3>1, <3>2, <1>t DEF Moved, Sessions
  <2>2. CASE p # o
    <3>1. session'[o] = session[o]
      BY <1>7, <2>2, <1>t DEF Pause, TypeOK
    <3> QED  BY <3>1
  <2> QED  BY <2>1, <2>2
<1>8. ASSUME NEW p \in Orders, NEW w \in Workers, Complete(p, w) PROVE Goal
  <2>1. CASE p = o
    <3>1. session'[o] = [session[o] EXCEPT !.status = "completed", !.worker = w]
      BY <1>8, <2>1, <1>t DEF Complete, TypeOK
    <3>2. session[o].status = "active" /\ req[o] = None /\ o \notin first'
      BY <1>8, <2>1 DEF Complete, Running
    <3> QED  BY <3>1, <3>2, <1>t DEF Moved, Sessions
  <2>2. CASE p # o
    <3>1. session'[o] = session[o]
      BY <1>8, <2>2, <1>t DEF Complete, TypeOK
    <3> QED  BY <3>1
  <2> QED  BY <2>1, <2>2
<1>9. ASSUME NEW p \in Orders, NEW w \in Workers, Freeze(p, w) PROVE Goal
  <2> DEFINE s == [session[p] EXCEPT !.status = "frozen", !.worker = w]
  <2>0. session[p] \in Sessions
    BY <1>t DEF TypeOK
  <2>1. s \in Sessions /\ s.worker = w /\ PutFrozen(p, s)
    BY <2>0, <1>9, SessionMoves DEF Freeze
  <2>2. s.status = "frozen"
    BY <2>0 DEF Sessions
  <2> HIDE DEF s
  <2>3. /\ session'[p].status = "frozen" /\ ~ session'[p].owner /\ session'[p].worker \in Workers
        /\ \A q \in Orders \ {p} : session'[q] = session[q]
    BY <2>1, <2>2, <1>t, PutFrozenSession
  <2>4. session[p].status = "active" /\ req'[p] = None /\ p \notin first'
    BY <1>9 DEF Freeze, Running
  <2> QED  BY <2>3, <2>4 DEF Stopped
<1>10. ASSUME NEW p \in Orders, CommitFreeze(p) PROVE Goal
  <2> DEFINE s == req[p].session
  <2>0. s \in Sessions
    BY <1>10, <1>t, RequestType DEF CommitFreeze, Requests
  <2>1. s.status = "frozen" /\ s.worker \in Workers /\ session[p].status = "paused"
    BY <1>10 DEF CommitFreeze, IInv, Carried, FreezeSound
  <2>2. PutFrozen(p, s)
    BY <1>10 DEF CommitFreeze
  <2> HIDE DEF s
  <2>3. /\ session'[p].status = "frozen" /\ ~ session'[p].owner /\ session'[p].worker \in Workers
        /\ \A q \in Orders \ {p} : session'[q] = session[q]
    BY <2>0, <2>1, <2>2, <1>t, PutFrozenSession
  <2>4. req'[p] = None /\ p \notin first'
    BY <1>10, <1>t DEF CommitFreeze, TypeOK
  <2> QED  BY <2>1, <2>3, <2>4 DEF Stopped
<1>11. ASSUME NEW p \in Orders, Unfreeze(p) PROVE Goal
  <2>1. CASE p = o
    <3>1. session'[o] = [session[o] EXCEPT !.status = "paused"]
      BY <1>11, <2>1, <1>t DEF Unfreeze, TypeOK
    <3>2. session[o].status = "frozen" /\ req[o] = None
      BY <1>11, <2>1 DEF Unfreeze
    <3>3. session[o].worker \in Workers
      BY <3>2 DEF IInv, SessionsSound, SessionSound
    <3> QED  BY <3>1, <3>2, <3>3, <1>t DEF Moved, Sessions
  <2>2. CASE p # o
    <3>1. session'[o] = session[o]
      BY <1>11, <2>2, <1>t DEF Unfreeze, TypeOK
    <3> QED  BY <3>1
  <2> QED  BY <2>1, <2>2
<1>12. session' = session => Goal
  OBVIOUS
<1> HIDE DEF Goal
<1>13. Goal
  BY StepCases, <1>1, <1>2, <1>3, <1>4, <1>5, <1>6, <1>7, <1>8, <1>9, <1>10, <1>11, <1>12, Zenon
<1> QED  BY <1>13 DEF Goal

\* Every step leaves the request of an order alone, ends it, or is its own.
LEMMA RequestEffect ==
    ASSUME IInv, [Next]_vars, NEW o \in Orders
    PROVE  \/ req'[o] = req[o] \/ req'[o] = None
           \/ \E w \in Workers : Prepare(o, w)
           \/ Read(o) \/ ReadFreeze(o)
<1>t. TypeOK  BY DEF IInv
<1> DEFINE Goal == \/ req'[o] = req[o] \/ req'[o] = None
                   \/ \E w \in Workers : Prepare(o, w)
                   \/ Read(o) \/ ReadFreeze(o)
<1>1. Storing \/ Queueing \/ UNCHANGED vars => req' = req
  BY StoringFrame, QueueingFrame DEF vars, queueVars
<1>2. ASSUME NEW m \in Molds, NEW w \in Workers, Issue(m, w) \/ Return(m, w) PROVE req' = req
  BY <1>2 DEF Issue, Return, queueVars
<1>3. ASSUME NEW p \in Orders, NEW w \in Workers, Pause(p, w) \/ Complete(p, w) \/ Freeze(p, w)
      PROVE  req' = req
  BY <1>3 DEF Pause, Complete, Freeze
<1>4. ASSUME NEW p \in Orders, Unfreeze(p) PROVE req' = req
  BY <1>4 DEF Unfreeze
<1>5. ASSUME NEW p \in Orders, Commit(p) \/ Abandon(p) \/ CommitFreeze(p)
      PROVE  req'[o] = req[o] \/ req'[o] = None
  <2>1. req' = [req EXCEPT ![p] = None]
    BY <1>5 DEF Commit, Abandon, CommitFreeze
  <2> QED  BY <2>1, <1>t DEF TypeOK
<1>6. ASSUME NEW p \in Orders, NEW w \in Workers, Prepare(p, w), p # o PROVE req'[o] = req[o]
  BY <1>6, <1>t DEF Prepare, TypeOK
<1>7. ASSUME NEW p \in Orders, Read(p), p # o PROVE req'[o] = req[o]
  BY <1>7, <1>t DEF Read, TypeOK
<1>8. ASSUME NEW p \in Orders, ReadFreeze(p), p # o PROVE req'[o] = req[o]
  BY <1>8, <1>t DEF ReadFreeze, TypeOK
<1>9. req' = req => Goal
  OBVIOUS
<1> HIDE DEF Goal
<1>10. req'[o] = req[o] \/ req'[o] = None => Goal
  BY DEF Goal
<1>11. (\E w \in Workers : Prepare(o, w)) \/ Read(o) \/ ReadFreeze(o) => Goal
  BY DEF Goal
<1>12. Goal
  BY StepCases, <1>1, <1>2, <1>3, <1>4, <1>5, <1>6, <1>7, <1>8, <1>9, <1>10, <1>11, Zenon
<1> QED  BY <1>12 DEF Goal

\* The session a start or resume writes runs, and has its molds.
LEMMA CommitEffect ==
    ASSUME IInv, NEW o \in Orders, Commit(o)
    PROVE  /\ session'[o] = req[o].session
           /\ session'[o].status = "active"
           /\ ~ Released(session'[o])
           /\ session'[o].worker = req[o].worker
           /\ req[o].worker \in Workers
           /\ req'[o] = None
<1>t. TypeOK  BY DEF IInv
<1>1. req[o] \in Requests
  BY <1>t, RequestType DEF Commit
<1>2. ReadSound(o)
  BY DEF Commit, IInv, Carried
<1>3. session'[o] = req[o].session /\ req'[o] = None
  BY <1>t DEF Commit, TypeOK
<1>4. ~ Released(req[o].session)
  BY <1>2 DEF ReadSound, Commit, ResumeIsCurrent
<1>5. req[o].worker \in Workers
  BY <1>1 DEF Requests
<1> QED  BY <1>2, <1>3, <1>4, <1>5 DEF ReadSound

\* Sessions stay sound.
LEMMA SessionsStep ==
    ASSUME IInv, [Next]_vars
    PROVE  SessionsSound'
<1> SUFFICES ASSUME NEW o \in Orders PROVE SessionSound(session'[o])
  BY DEF SessionsSound
<1>1. SessionSound(session[o]) /\ session[o] \in Sessions
  BY DEF IInv, SessionsSound, TypeOK
<1>2. CASE session'[o] = session[o]
  BY <1>1, <1>2
<1>3. CASE Handed(o)
  <2>1. session'[o] = [session[o] EXCEPT !.owner = FALSE, !.released = "return"]
    BY <1>3 DEF Handed
  <2>2. session[o].status # "active" /\ session[o].status # "none"
    BY <1>1, <1>3 DEF Handed, SessionSound
  <2>3. /\ session'[o].status = session[o].status /\ ~ session'[o].owner
        /\ session'[o].worker = session[o].worker
    BY <2>1, <1>1 DEF Sessions
  <2> QED  BY <1>1, <2>2, <2>3 DEF SessionSound
<1>4. CASE Moved(o)
  BY <1>1, <1>4 DEF Moved, SessionSound, Released
<1>5. CASE Stopped(o)
  BY <1>5 DEF Stopped, SessionSound
<1>6. CASE Commit(o)
  BY <1>6, CommitEffect DEF SessionSound
<1> QED  BY SessionEffect, <1>2, <1>3, <1>4, <1>5, <1>6

\* Only orders that wait or run are at the head of a queue.
LEMMA HeadsStep ==
    ASSUME IInv, [Next]_vars
    PROVE  first' \subseteq {o \in Orders : session'[o].status \in {"none", "active", "paused"}}
<1>t. TypeOK  BY DEF IInv
<1> DEFINE Waiting == {o \in Orders : session[o].status \in {"none", "active", "paused"}}
<1>1. first' \subseteq first \cup Waiting
  <2>1. Storing \/ UNCHANGED vars => first' = first
    BY StoringFrame DEF vars, queueVars
  <2>2. ASSUME NEW m \in Molds, NEW w \in Workers, Issue(m, w) \/ Return(m, w) PROVE first' = first
    BY <2>2 DEF Issue, Return, queueVars
  <2>3. ASSUME NEW p \in Orders, NEW w \in Workers, Prepare(p, w) \/ Pause(p, w) PROVE first' = first
    BY <2>3 DEF Prepare, Pause
  <2>4. ASSUME NEW p \in Orders, NEW w \in Workers, Complete(p, w) \/ Freeze(p, w)
        PROVE  first' \subseteq first
    BY <2>4 DEF Complete, Freeze
  <2>5. ASSUME NEW p \in Orders, Read(p) \/ Commit(p) \/ Abandon(p) \/ ReadFreeze(p) \/ Unfreeze(p)
        PROVE  first' = first
    BY <2>5 DEF Read, Commit, Abandon, ReadFreeze, Unfreeze
  <2>6. ASSUME NEW p \in Orders, CommitFreeze(p) PROVE first' \subseteq first
    BY <2>6 DEF CommitFreeze
  <2>7. ASSUME NEW p \in Orders, Overtaken(p) PROVE first' \subseteq first
    BY <2>7 DEF Overtaken
  <2>8. ASSUME NEW p \in Orders, ComesFirst(p) PROVE first' \subseteq first \cup Waiting
    BY <2>8 DEF ComesFirst
  <2>9. first' \subseteq first => first' \subseteq first \cup Waiting
    OBVIOUS
  <2>10. first' = first => first' \subseteq first
    OBVIOUS
  <2> HIDE DEF Waiting
  <2> QED
    BY StepCases, <2>1, <2>2, <2>3, <2>4, <2>5, <2>6, <2>7, <2>8, <2>9, <2>10, Zenon DEF Queueing
<1> SUFFICES ASSUME NEW o \in first'
             PROVE  o \in Orders /\ session'[o].status \in {"none", "active", "paused"}
  OBVIOUS
<1>2. o \in Orders /\ session[o].status \in {"none", "active", "paused"}
  BY <1>1, <1>t DEF TypeOK
<1>3. CASE Handed(o)
  <2>1. session[o] \in Sessions
    BY <1>2, <1>t DEF TypeOK
  <2>2. session'[o].status = session[o].status
    BY <1>3, <2>1 DEF Handed, Sessions
  <2> QED  BY <1>2, <2>2
<1>4. CASE Moved(o)
  BY <1>2, <1>4 DEF Moved
<1>5. CASE Commit(o)
  BY <1>2, <1>5, CommitEffect
<1>6. ~ Stopped(o)
  BY DEF Stopped
<1> QED  BY <1>2, <1>3, <1>4, <1>5, <1>6, SessionEffect

\* Ownership is gained by a start or resume only.
LEMMA OwnsEffect ==
    ASSUME IInv, [Next]_vars, NEW o \in Orders, NEW m \in Molds, Owns(o, m)'
    PROVE  Owns(o, m) \/ (Commit(o) /\ req[o].session.owner)
<1>t. session[o] \in Sessions  BY DEF IInv, TypeOK
<1>1. session'[o].status \in OpenStatus /\ session'[o].owner /\ m \in Needs[o]
  BY DEF Owns
<1>2. CASE session'[o] = session[o]
  <2>1. session[o].status \in OpenStatus
    BY <1>1, <1>2
  <2>2. session[o].owner
    BY <1>1, <1>2, Zenon
  <2> QED  BY <1>1, <2>1, <2>2 DEF Owns
<1>3. ~ Handed(o)
  <2>1. [session[o] EXCEPT !.owner = FALSE, !.released = "return"].owner = FALSE
    BY <1>t DEF Sessions
  <2> QED  BY <1>1, <2>1 DEF Handed
<1>4. CASE Moved(o)
  <2>1. session[o].status \in OpenStatus
    BY <1>4 DEF Moved, OpenStatus
  <2>2. session[o].owner
    BY <1>1, <1>4, Zenon DEF Moved
  <2> QED  BY <1>1, <2>1, <2>2 DEF Owns
<1>5. ~ Stopped(o)
  BY <1>1 DEF Stopped
<1>6. CASE Commit(o)
  BY <1>1, <1>6, CommitEffect
<1> QED  BY <1>2, <1>3, <1>4, <1>5, <1>6, SessionEffect

\* A mold becomes unavailable only when no order owns it.
LEMMA WritableEffect ==
    ASSUME IInv, [Next]_vars, NEW m \in Molds, Writable(m), ~ Writable(m)'
    PROVE  Storing /\ Owners(m) = {}
<1>t. TypeOK  BY DEF IInv
<1>1. ~ UNCHANGED <<away, stored>>
  BY DEF Writable
<1>2. ASSUME NEW n \in Molds, NEW w \in Workers, Issue(n, w) \/ Return(n, w)
      PROVE  UNCHANGED <<away, stored>>
  BY <1>2 DEF Issue, Return
<1>3. ASSUME NEW p \in Orders, NEW w \in Workers,
             Prepare(p, w) \/ Pause(p, w) \/ Complete(p, w) \/ Freeze(p, w)
      PROVE  UNCHANGED <<away, stored>>
  BY <1>3 DEF Prepare, Pause, Complete, Freeze, warehouseVars
<1>4. ASSUME NEW p \in Orders,
             Read(p) \/ Commit(p) \/ Abandon(p) \/ ReadFreeze(p) \/ CommitFreeze(p) \/ Unfreeze(p)
      PROVE  UNCHANGED <<away, stored>>
  BY <1>4 DEF Read, Commit, Abandon, ReadFreeze, CommitFreeze, Unfreeze, warehouseVars
<1>5. Queueing \/ UNCHANGED vars => UNCHANGED <<away, stored>>
  BY QueueingFrame DEF vars, warehouseVars
<1>6. Storing
  BY StepCases, <1>1, <1>2, <1>3, <1>4, <1>5, Zenon
<1>7. Owners(m) = {}
  <2>1. ASSUME NEW n \in Molds, Send(n) PROVE Owners(m) = {}
    BY <2>1 DEF Send, Writable, InUse
  <2>2. ASSUME NEW n \in Molds, Pack(n) PROVE Owners(m) = {}
    BY <2>2, <1>t DEF Pack, Available, Writable, InUse, TypeOK
  <2>3. ASSUME NEW n \in Molds, Archive(n) PROVE Owners(m) = {}
    BY <2>3, <1>t DEF Archive, Available, Writable, InUse, TypeOK
  <2>4. ASSUME NEW n \in Molds, Receive(n) PROVE FALSE
    BY <2>4 DEF Receive, Writable
  <2>5. ASSUME NEW n \in Molds, Unpack(n) PROVE FALSE
    BY <2>5, <1>t DEF Unpack, Writable, TypeOK
  <2>6. ASSUME NEW n \in Molds, Restore(n) PROVE FALSE
    BY <2>6, <1>t DEF Restore, Writable, TypeOK
  <2>7. LockPallet \/ UnlockPallet \/ ArchivePallet \/ RestorePallet => UNCHANGED <<away, stored>>
    BY DEF LockPallet, UnlockPallet, ArchivePallet, RestorePallet
  <2> QED  BY <1>1, <1>6, <2>1, <2>2, <2>3, <2>4, <2>5, <2>6, <2>7, Zenon DEF Storing
<1> QED  BY <1>6, <1>7

\* Two orders never own one mold.
LEMMA UnsharedStep ==
    ASSUME IInv, [Next]_vars
    PROVE  Unshared'
<1> SUFFICES ASSUME NEW m \in Molds, NEW o \in Orders, NEW p \in Orders,
                    Owns(o, m)', Owns(p, m)', o # p
             PROVE  FALSE
  BY DEF Unshared
<1>1. ~ (Owns(o, m) /\ Owns(p, m))
  BY DEF IInv, Unshared
<1>2. ASSUME NEW q \in Orders, NEW r \in Orders, q # r, Owns(q, m), Owns(r, m)',
             Commit(r), req[r].session.owner
      PROVE  FALSE
  <2>1. m \in Needs[r]
    BY <1>2 DEF Owns
  <2>2. Owners(m) \subseteq {r}
    BY <1>2, <2>1 DEF Commit, Holds
  <2> QED  BY <1>2, <2>2 DEF Owners
<1>3. ASSUME Commit(o), Commit(p) PROVE FALSE
  <2>t. TypeOK  BY DEF IInv
  <2>1. req'[p] = None
    BY <1>3, CommitEffect
  <2>2. req'[p] = req[p] /\ req[p] # None
    BY <1>3, <2>t DEF Commit, TypeOK
  <2> QED  BY <2>1, <2>2
<1>4. Owns(o, m) \/ (Commit(o) /\ req[o].session.owner)
  BY OwnsEffect
<1>5. Owns(p, m) \/ (Commit(p) /\ req[p].session.owner)
  BY OwnsEffect
<1> QED  BY <1>1, <1>2, <1>3, <1>4, <1>5, Zenon

\* An owned mold stays available.
LEMMA WritableStep ==
    ASSUME IInv, [Next]_vars
    PROVE  OwnedIsWritable'
<1> SUFFICES ASSUME NEW m \in Molds, NEW o \in Orders, Owns(o, m)', ~ Writable(m)'
             PROVE  FALSE
  BY DEF OwnedIsWritable
<1>1. CASE Owns(o, m)
  <2>1. Writable(m)
    BY <1>1 DEF IInv, OwnedIsWritable
  <2>2. Owners(m) = {}
    BY <2>1, WritableEffect
  <2> QED  BY <1>1, <2>2 DEF Owners
<1>2. CASE Commit(o) /\ req[o].session.owner
  <2>1. m \in Needs[o]
    BY DEF Owns
  <2>2. Writable(m)
    BY <1>2, <2>1 DEF Commit, Holds
  <2>3. UNCHANGED <<away, stored>>
    BY <1>2 DEF Commit
  <2> QED  BY <2>2, <2>3 DEF Writable
<1> QED  BY <1>1, <1>2, OwnsEffect

\* What a request carries stays true of the session it was read from.
LEMMA CarriedStep ==
    ASSUME IInv, [Next]_vars
    PROVE  Carried'
<1> SUFFICES ASSUME NEW o \in Orders, req'[o] # None
             PROVE  /\ req'[o].pc = "prepared" => PreparedSound(o)'
                    /\ req'[o].pc = "read" => ReadSound(o)'
                    /\ req'[o].pc = "freeze" => FreezeSound(o)'
  BY DEF Carried
<1>t. TypeOK /\ session[o] \in Sessions  BY DEF IInv, TypeOK
<1>s. SessionSound(session[o])  BY DEF IInv, SessionsSound
<1>1. CASE req'[o] = req[o] /\ session'[o] = session[o]
  BY <1>1 DEF IInv, Carried, PreparedSound, ReadSound, FreezeSound
<1>2. CASE req'[o] = req[o] /\ Handed(o)
  <2>1. /\ session'[o].status = session[o].status /\ session'[o].released = "return"
    BY <1>2, <1>t DEF Handed, Sessions
  <2>2. Released(session'[o]) /\ session'[o].released # "freeze"
    BY <2>1 DEF Released
  <2> QED  BY <1>2, <2>1, <2>2 DEF IInv, Carried, PreparedSound, ReadSound, FreezeSound
<1>3. CASE req'[o] = req[o] /\ session'[o] # session[o] /\ ~ Handed(o)
  <2>1. ~ Moved(o) /\ ~ Stopped(o) /\ ~ Commit(o)
    BY <1>3, CommitEffect DEF Moved, Stopped
  <2> QED  BY <1>3, <2>1, SessionEffect
<1>4. ASSUME NEW w \in Workers, Prepare(o, w)
      PROVE  req'[o].pc = "prepared" /\ PreparedSound(o)'
  <2>1. /\ req'[o].pc = "prepared" /\ req'[o].molds = NeedsMolds(session[o])
        /\ req'[o].take \subseteq Needs[o]
    BY <1>4, <1>t DEF Prepare, TypeOK
  <2>2. session' = session /\ session[o].status \in {"none", "paused"}
    BY <1>4 DEF Prepare
  <2>3. session[o].released = "freeze" => NeedsMolds(session[o])
    BY DEF NeedsMolds, Released
  <2> QED  BY <2>1, <2>2, <2>3, Zenon DEF PreparedSound
<1>5. ASSUME Read(o) PROVE req'[o].pc = "read" /\ ReadSound(o)'
  <2>1. req[o] \in Requests
    BY <1>5, <1>t, RequestType DEF Read
  <2>2. PreparedSound(o)
    BY <1>5 DEF Read, IInv, Carried
  <2>3. session' = session
    BY <1>5 DEF Read
  <2> DEFINE s == [status   |-> "active",
              owner    |-> req[o].molds \/ session[o].owner,
              worker   |-> req[o].worker,
              released |-> IF req[o].molds THEN "no" ELSE session[o].released]
             b == req[o].molds /\ Released(session[o])
             r == [req[o] EXCEPT !.pc = "read", !.reacquires = b, !.session = s]
  <2>4. req'[o] = r
    BY <1>5, <2>1, <1>t DEF Read, TypeOK, Requests
  <2>5. s.status = "active" /\ s.worker = req[o].worker
    OBVIOUS
  <2>6. Released(s) => ~ req[o].molds /\ session[o].released # "no" /\ session[o].released # "freeze"
    BY <2>2 DEF Released, PreparedSound
  <2>7. Released(s) => session[o].released = "return"
    BY <2>6, <1>t DEF Sessions
  <2>8. session[o].released = "freeze" => b
    BY <2>2 DEF Released, PreparedSound
  <2> HIDE DEF s, b
  <2>9. r.pc = "read" /\ r.reacquires = b /\ r.session = s /\ r.take = req[o].take /\ r.worker = req[o].worker
    BY <2>1 DEF Requests
  <2> HIDE DEF r
  <2>10. req'[o].pc = "read" /\ req'[o].session = s /\ req'[o].take = req[o].take
         /\ req'[o].worker = req[o].worker
    BY <2>4, <2>9
  <2>11. session[o].released = "freeze" => req'[o].reacquires
    BY <2>4, <2>8, <2>9, Zenon
  <2> QED  BY <2>2, <2>3, <2>5, <2>7, <2>10, <2>11, Zenon DEF PreparedSound, ReadSound
<1>6. ASSUME ReadFreeze(o) PROVE req'[o].pc = "freeze" /\ FreezeSound(o)'
  <2> DEFINE f == [session[o] EXCEPT !.status = "frozen"]
             s == IF f.owner THEN [f EXCEPT !.owner = FALSE, !.released = "freeze"] ELSE f
             r == [pc |-> "freeze", worker |-> session[o].worker, molds |-> FALSE,
                   take |-> {}, reacquires |-> FALSE, session |-> s]
  <2>1. session' = session /\ session[o].status = "paused" /\ req'[o] = r
    BY <1>6, <1>t DEF ReadFreeze, TypeOK
  <2>2. f.owner = session[o].owner /\ f.released = session[o].released
        /\ f.status = "frozen" /\ f.worker = session[o].worker /\ f \in Sessions
    <3>1. session[o].worker \in Workers
      BY <2>1, <1>s DEF SessionSound
    <3>2. f \in Sessions
      BY <3>1, <1>t, SessionMoves
    <3> QED  BY <3>2, <1>t DEF Sessions
  <2> HIDE DEF f
  <2>3. /\ s.status = "frozen" /\ s.worker = f.worker /\ ~ s.owner
        /\ Released(s) => f.owner \/ Released(f)
    <3>1. CASE f.owner
      <4>1. s = [f EXCEPT !.owner = FALSE, !.released = "freeze"]
        BY <3>1
      <4> HIDE DEF s
      <4> QED  BY <4>1, <3>1, <2>2 DEF Sessions
    <3>2. CASE ~ f.owner
      BY <3>2, <2>2
    <3> QED  BY <3>1, <3>2
  <2> HIDE DEF s
  <2>4. req'[o].pc = "freeze" /\ req'[o].session = s
    BY <2>1
  <2>5. session[o].worker \in Workers
    BY <2>1, <1>s DEF SessionSound
  <2>6. Released(s) => session[o].owner \/ Released(session[o])
    BY <2>2, <2>3, Zenon DEF Released
  <2> QED  BY <2>1, <2>2, <2>3, <2>4, <2>5, <2>6, Zenon DEF FreezeSound
<1> QED  BY RequestEffect, <1>1, <1>2, <1>3, <1>4, <1>5, <1>6

\* The initial state.
LEMMA IInvInit ==
    ASSUME Init
    PROVE  IInv
<1> USE ToolingAssumption
<1>1. TypeOK
  BY DEF Init, TypeOK, NoSession, Sessions, OpenStatus
<1>2. \A o \in Orders : session[o] = NoSession /\ req[o] = None
  BY DEF Init
<1>3. AllKept
  BY DEF Init, AllKept, Kept
<1>4. \A o \in Orders, m \in Molds : ~ Owns(o, m)
  BY <1>2 DEF Owns, NoSession, OpenStatus
<1>5. SessionsSound
  BY <1>2 DEF SessionsSound, SessionSound, NoSession, Released
<1>6. Carried
  BY <1>2 DEF Carried
<1> QED  BY <1>1, <1>3, <1>4, <1>5, <1>6 DEF IInv, Unshared, OwnedIsWritable

\* Every step keeps the invariant.
LEMMA IInvStep ==
    ASSUME IInv, [Next]_vars
    PROVE  IInv'
<1>1. TypeOK'
  BY TypedStep, HeadsStep DEF Typed, TypeOK, Sessions, Requests, OpenStatus
<1> QED
  BY <1>1, KeptStep, UnsharedStep, WritableStep, SessionsStep, CarriedStep DEF IInv

-----------------------------------------------------------------------------
(***************************************************************************)
(* Theorems.                                                               *)
(***************************************************************************)

\* The invariant that carries the others holds in every reachable state.
THEOREM Inductive == Spec => []IInv
<1>1. Init => IInv
  BY IInvInit
<1>2. IInv /\ [Next]_vars => IInv'
  BY IInvStep
<1> QED  BY <1>1, <1>2, PTL DEF Spec

\* Every variable keeps its type, and no quantity on the shelf drops below
\* zero, however requests and warehouse commands interleave.
THEOREM TypeCorrect == Spec => []TypeOK
<1>1. IInv => TypeOK
  BY DEF IInv
<1> QED  BY <1>1, Inductive, PTL

\* A mold belongs to one open order at most, however many orders looked it up
\* while it was free (reject_qolip_in_use_tx).
THEOREM OneOwnerOnly == Spec => []OneOwner
<1>1. IInv => OneOwner
  <2> SUFFICES ASSUME IInv, NEW m \in Molds PROVE Cardinality(Owners(m)) <= 1
    BY DEF OneOwner
  <2>1. CASE Owners(m) = {}
    BY <2>1, FS_EmptySet
  <2>2. ASSUME NEW o \in Owners(m) PROVE Cardinality(Owners(m)) <= 1
    <3>1. Owners(m) = {o}
      BY <2>2 DEF Owners, IInv, Unshared
    <3> QED  BY <3>1, FS_Singleton
  <2> QED  BY <2>1, <2>2
<1> QED  BY <1>1, Inductive, PTL

\* A mold an open order owns is neither in rework, nor on a pallet, nor
\* archived (check_available, reject_qolip_in_use_tx and the storage triggers).
THEOREM OwnedStaysAvailable == Spec => []OwnedIsAvailable
<1>1. IInv => OwnedIsAvailable
  BY DEF IInv, OwnedIsWritable, OwnedIsAvailable, Owners
<1> QED  BY <1>1, Inductive, PTL

\* No mold is lost or doubled by checkouts, returns, freezes and completions
\* (save_checkout_tx, restore_checkout_location_tx).
THEOREM Conservation == Spec => []MoldsConserved
<1>1. IInv => MoldsConserved
  <2> SUFFICES ASSUME IInv, NEW m \in Molds
               PROVE  \/ shelf[m] = Stock[m] /\ ~ CheckedOut(m)
                      \/ /\ Stock[m] = 1
                         /\ shelf[m] = 0
                         /\ \E w \in Workers :
                               issued[m] = [v \in Workers |-> IF v = w THEN 1 ELSE 0]
    BY DEF MoldsConserved
  <2>1. Kept(m) /\ issued[m] \in [Workers -> Nat]
    BY DEF IInv, AllKept, TypeOK
  <2>2. CASE shelf[m] = Stock[m] /\ \A w \in Workers : issued[m][w] = 0
    BY <2>2 DEF CheckedOut
  <2>3. ASSUME Stock[m] = 1, shelf[m] = 0, NEW w \in Workers, issued[m][w] = 1,
               \A v \in Workers \ {w} : issued[m][v] = 0
        PROVE  issued[m] = [v \in Workers |-> IF v = w THEN 1 ELSE 0]
    BY <2>1, <2>3
  <2> QED  BY <2>1, <2>2, <2>3 DEF Kept
<1> QED  BY <1>1, Inductive, PTL

\* An order that gave its molds up runs again only with every physical mold of
\* its set issued to the worker who resumes it (validate_returned_qolip_resume_tx,
\* validate_reacquired_qolip_checkouts_tx).
THEOREM ResumptionHasMolds == Spec => ResumesWithItsMolds
<1> DEFINE Resumed ==
      \A o \in Orders :
          Released(session[o]) /\ session'[o].status = "active"
            => \A m \in Needs[o] : Stock[m] = 0 \/ issued'[m][session'[o].worker] > 0
<1>1. IInv /\ [Next]_vars => Resumed
  <2> SUFFICES ASSUME IInv, [Next]_vars, NEW o \in Orders, Released(session[o]),
                      session'[o].status = "active", NEW m \in Needs[o]
               PROVE  Stock[m] = 0 \/ issued'[m][session'[o].worker] > 0
    BY DEF Resumed
  <2>0. m \in Molds
    BY ToolingAssumption
  <2>1. session[o].status # "active" /\ session[o] \in Sessions
    BY DEF IInv, SessionsSound, SessionSound, TypeOK
  <2>2. ~ Handed(o)
    BY <2>1 DEF Handed, Sessions
  <2>3. Commit(o)
    BY <2>1, <2>2, SessionEffect DEF Moved, Stopped
  <2>4. ReadSound(o)
    BY <2>3 DEF Commit, IInv, Carried
  <2>5. req[o].reacquires
    <3>1. session[o].released = "freeze" \/ session[o].released = "return"
      BY <2>1 DEF Released, Sessions
    <3>2. CASE session[o].released = "freeze"
      BY <3>2, <2>4 DEF ReadSound
    <3>3. CASE session[o].released = "return"
      BY <3>3, <2>3 DEF Commit, ResumeIsCurrent
    <3> QED  BY <3>1, <3>2, <3>3
  <2>6. session'[o].worker = req[o].worker /\ req[o].worker \in Workers
    BY <2>3, CommitEffect
  <2>7. \/ issued'[m][req[o].worker] > 0
        \/ shelf'[m] = 0 /\ \A v \in Workers : issued'[m][v] = 0
    BY <2>3, <2>5 DEF Commit, Reacquired
  <2>8. Kept(m)'
    BY <2>0, KeptStep DEF AllKept
  <2>9. CASE shelf'[m] = 0 /\ \A v \in Workers : issued'[m][v] = 0
    BY <2>8, <2>9 DEF Kept
  <2> QED  BY <2>6, <2>7, <2>9
<1>2. IInv /\ [Next]_vars => [Resumed]_vars
  BY <1>1
<1> QED  BY <1>2, Inductive, PTL DEF Spec, ResumesWithItsMolds

\* A freeze of p that takes back a checkout of a mold another order owns is the
\* one FreezesReturned names.
LEMMA FreezeTakesBack ==
    ASSUME IInv, NEW p \in Orders, NEW m \in Needs[p], CommitFreeze(p), issued'[m] # issued[m]
    PROVE  Owns(p, m) \/ FreezesReturned(p, m)
<1>t. TypeOK  BY DEF IInv
<1>0. m \in Molds /\ session[p] \in Sessions
  BY ToolingAssumption, <1>t DEF TypeOK
<1>1. FreezeSound(p)
  BY DEF CommitFreeze, IInv, Carried
<1>2. session[p].released # "freeze" /\ Released(req[p].session)
  BY <1>1 DEF CommitFreeze, PutFrozen, FreezeSound
<1>3. session[p].status = "paused" /\ (session[p].owner \/ Released(session[p]))
  BY <1>1, <1>2 DEF FreezeSound
<1>4. CASE session[p].owner
  BY <1>3, <1>4 DEF Owns, OpenStatus
<1>5. CASE Released(session[p])
  <2>1. session[p].released = "return"
    BY <1>0, <1>2, <1>5 DEF Released, Sessions
  <2>2. req[p].session \in Sessions
    BY <1>t, RequestType DEF CommitFreeze, Requests
  <2>3. session'[p].status = "frozen"
    BY <1>1, <1>t, <2>2, PutFrozenSession DEF CommitFreeze, FreezeSound
  <2> QED  BY <1>3, <2>1, <2>3 DEF FreezesReturned
<1> QED  BY <1>3, <1>4, <1>5

\* A checkout of a mold that a running order owns is closed by the freeze of
\* another order only, and only after the warehouse took that order's molds
\* back (put_order_run_session_tx, blocks_return).
THEOREM RunningKeepsMolds == Spec => RunningOrderKeepsItsMolds
<1> DEFINE Keeps ==
      \A o \in Orders, m \in Molds :
          /\ Owns(o, m) /\ CheckedOut(m)
          /\ session[o].status = "active" /\ session'[o].status = "active"
          => CheckedOut(m)' \/ \E p \in Orders \ {o} : FreezesReturned(p, m)
<1>1. IInv /\ [Next]_vars => Keeps
  <2> SUFFICES ASSUME IInv, [Next]_vars, NEW o \in Orders, NEW m \in Molds,
                      Owns(o, m), CheckedOut(m), ~ CheckedOut(m)',
                      session[o].status = "active", session'[o].status = "active"
               PROVE  \E p \in Orders \ {o} : FreezesReturned(p, m)
    BY DEF Keeps
  <2>t. TypeOK  BY DEF IInv
  <2>0. issued'[m] # issued[m]
    BY DEF CheckedOut
  <2>u. \A p \in Orders : Owns(p, m) => p = o
    BY DEF IInv, Unshared
  <2>1. UNCHANGED issued => FALSE
    BY <2>0
  <2>2. Storing \/ Queueing \/ UNCHANGED vars => UNCHANGED issued
    BY StoringFrame, QueueingFrame DEF vars, warehouseVars
  <2>3. ASSUME NEW n \in Molds, NEW w \in Workers, Issue(n, w) PROVE FALSE
    <3>1. n = m
      BY <2>0, <2>3, <2>t DEF Issue, TypeOK
    <3> QED  BY <3>1, <2>3 DEF Issue, Owners
  <2>4. ASSUME NEW n \in Molds, NEW w \in Workers, Return(n, w) PROVE FALSE
    <3>1. n = m
      BY <2>0, <2>4, <2>t DEF Return, TypeOK
    <3> QED  BY <3>1, <2>4 DEF Return, Owners, BlocksReturn
  <2>5. ASSUME NEW p \in Orders, NEW w \in Workers, Prepare(p, w) \/ Pause(p, w)
        PROVE  UNCHANGED issued
    BY <2>5 DEF Prepare, Pause, warehouseVars
  <2>6. ASSUME NEW p \in Orders, Read(p) \/ Abandon(p) \/ ReadFreeze(p) \/ Unfreeze(p)
        PROVE  UNCHANGED issued
    BY <2>6 DEF Read, Abandon, ReadFreeze, Unfreeze, warehouseVars
  <2>7. ASSUME NEW p \in Orders, Commit(p) PROVE FALSE
    <3>1. req[p].worker \in Workers
      BY <2>7, CommitEffect
    <3>2. CASE m \in req[p].take
      <4>1. issued'[m] = [issued[m] EXCEPT ![req[p].worker] = @ + 1]
        BY <2>7, <3>2 DEF Commit
      <4>2. issued[m] \in [Workers -> Nat]
        BY <2>t DEF TypeOK
      <4>3. issued'[m][req[p].worker] > 0
        BY <3>1, <4>1, <4>2
      <4> QED  BY <3>1, <4>3 DEF CheckedOut
    <3>3. CASE m \notin req[p].take
      BY <2>0, <2>7, <3>3 DEF Commit
    <3> QED  BY <3>2, <3>3
  <2>8. ASSUME NEW p \in Orders, NEW w \in Workers, Complete(p, w) PROVE FALSE
    <3>1. session[p].owner /\ m \in Needs[p]
      BY <2>0, <2>8 DEF Complete, TakesBack
    <3>2. session[p].status = "active" /\ session'[p].status = "completed"
      BY <2>8, <2>t DEF Complete, Running, TypeOK, Sessions
    <3>3. p = o
      BY <3>1, <3>2, <2>u DEF Owns, OpenStatus
    <3> QED  BY <3>2, <3>3
  <2>9. ASSUME NEW p \in Orders, NEW w \in Workers, Freeze(p, w) PROVE FALSE
    <3> DEFINE s == [session[p] EXCEPT !.status = "frozen", !.worker = w]
    <3>1. session[p] \in Sessions /\ session[p].status = "active"
      BY <2>9, <2>t DEF Freeze, Running, TypeOK
    <3>2. s \in Sessions /\ PutFrozen(p, s)
      BY <2>9, <3>1, SessionMoves DEF Freeze
    <3>3. s.owner = session[p].owner /\ s.released = session[p].released /\ s.status = "frozen"
      BY <3>1 DEF Sessions
    <3>4. ~ Released(s)
      BY <3>1, <3>3 DEF IInv, SessionsSound, SessionSound, Released
    <3> HIDE DEF s
    <3>5. s.owner /\ m \in Needs[p]
      BY <2>0, <3>2, <3>4 DEF PutFrozen, TakesBack
    <3>6. session[p].owner
      BY <3>3, <3>5, Zenon
    <3>7. p = o
      BY <3>1, <3>5, <3>6, <2>u DEF Owns, OpenStatus
    <3>8. session'[p].status = "frozen"
      BY <3>2, <3>3, <2>t, PutFrozenSession
    <3> QED  BY <3>7, <3>8
  <2>10. ASSUME NEW p \in Orders, CommitFreeze(p)
         PROVE  \E q \in Orders \ {o} : FreezesReturned(q, m)
    <3>1. p # o
      BY <2>10 DEF CommitFreeze, IInv, Carried, FreezeSound
    <3>2. m \in Needs[p]
      BY <2>0, <2>10 DEF CommitFreeze, PutFrozen, TakesBack
    <3>3. Owns(p, m) \/ FreezesReturned(p, m)
      BY <2>0, <2>10, <3>2, FreezeTakesBack
    <3> QED  BY <3>1, <3>3, <2>u
  <2> QED
    BY StepCases, <2>1, <2>2, <2>3, <2>4, <2>5, <2>6, <2>7, <2>8, <2>9, <2>10, Zenon
<1>2. IInv /\ [Next]_vars => [Keeps]_vars
  BY <1>1
<1> QED  BY <1>2, Inductive, PTL DEF Spec, RunningOrderKeepsItsMolds

=============================================================================
