------------------------- MODULE MutationLocksProofs -------------------------
(***************************************************************************)
(* Proofs, for any number of requests, resources and mutexes, that the     *)
(* production-map lock manager keeps holders apart and that retiring a     *)
(* registry entry never splits the mutex of a resource.                    *)
(***************************************************************************)
EXTENDS MutationLocks, SequenceTheorems, TLAPS

\* Past the barrier on its read side.
Inside == {"entered", "locking", "held", "unlocking", "retiring"}

\* Who is inside the barrier.
BarrierInv ==
    /\ \A t \in Tasks : mode[t] = "scoped" /\ pc[t] \in Inside => t \in readers
    /\ \A t \in Tasks : mode[t] = "exclusive" => pc[t] \in {"idle", "queued", "held"}
    /\ \A t \in Tasks : mode[t] = "exclusive" /\ pc[t] = "held" => t \in writer
    /\ \A t, u \in writer : t = u
    /\ \A t \in writer : readers = {}
    /\ \A t \in Tasks : t \in readers => mode[t] = "scoped" /\ pc[t] \in Inside
    /\ \A t \in Tasks : t \in writer => mode[t] = "exclusive" /\ pc[t] = "held"

\* Leases exist from TakeLeases to the destructor, for the wanted keys only.
LeaseAt(t, k) ==
    /\ lease[t][k] # NoMutex => /\ pc[t] \in {"locking", "held", "unlocking", "retiring"}
                                /\ mode[t] = "scoped"
    /\ mode[t] = "scoped" /\ pc[t] \in {"locking", "held", "unlocking"} /\ k \in wants[t]
          => lease[t][k] # NoMutex
    /\ k \in dropping[t] => pc[t] = "retiring"
    /\ k \in wants[t] => mode[t] = "scoped"

LeaseInv == \A t \in Tasks, k \in Keys : LeaseAt(t, k)

\* Guards exist while locking, held or unlocking; a held guard is complete.
LockedInv ==
    /\ \A t \in Tasks : \A k \in locked[t] : pc[t] \in {"locking", "held", "unlocking"}
    /\ \A t \in Tasks : pc[t] = "held" => locked[t] = wants[t]

\* A mutex has one guard.
MutexInv ==
    \A t, u \in Tasks, k \in Keys :
        t # u /\ k \in locked[t] /\ k \in locked[u] => lease[t][k] # lease[u][k]

IInv == TypeOK /\ BarrierInv /\ LeaseInv /\ LockedInv /\ MutexInv /\ NoSplitMutex

-----------------------------------------------------------------------------

\* Taking one waiter out of a queue leaves a queue of requests.
LEMMA WithoutType ==
    ASSUME NEW S, NEW q \in Seq(S), NEW t
    PROVE  Without(q, t) \in Seq(S)
<1>1. CASE ~ Contains(q, t)
    BY <1>1 DEF Without
<1>2. CASE Contains(q, t)
    <2> DEFINE i == CHOOSE i \in 1..Len(q) : q[i] = t
    <2>1. i \in 1..Len(q)
        BY <1>2 DEF Contains
    <2>2. SubSeq(q, 1, i - 1) \in Seq(S) /\ SubSeq(q, i + 1, Len(q)) \in Seq(S)
        <3> HIDE DEF i
        <3> QED BY <2>1, SubSeqProperties
    <2>3. RemoveAt(q, i) \in Seq(S)
        BY <2>2 DEF RemoveAt
    <2> QED BY <2>3, <1>2 DEF Without
<1> QED BY <1>1, <1>2

\* The invariant holds at start.
THEOREM InitInv == Init => IInv
BY KeysAssumption DEF Init, IInv, TypeOK, BarrierInv, LeaseInv, LeaseAt,
   LockedInv, MutexInv, NoSplitMutex, States, NoLease, Inside

-----------------------------------------------------------------------------
(* One lemma per part of the invariant, one step per action.               *)

\* Every step keeps the types.
LEMMA NextType == ASSUME IInv, [Next]_vars PROVE TypeOK'
<1> USE KeysAssumption, MutexesAssumption
        DEF IInv, TypeOK, States, barrierVars, leaseVars, lockVars, NoMutex, NoLease
<1>1. ASSUME NEW t \in Tasks, Request(t) PROVE TypeOK'
    <2>1. locked[t] = {}
        BY <1>1 DEF Request, LockedInv
    <2>2. wants' \in [Tasks -> SUBSET Keys] /\ mode' \in [Tasks -> {"scoped", "exclusive"}]
        <3>1. CASE mode' = [mode EXCEPT ![t] = "exclusive"] /\ wants' = [wants EXCEPT ![t] = {}]
            BY <3>1
        <3>2. ASSUME NEW S \in SUBSET Keys,
                     mode' = [mode EXCEPT ![t] = "scoped"], wants' = [wants EXCEPT ![t] = S]
              PROVE wants' \in [Tasks -> SUBSET Keys] /\ mode' \in [Tasks -> {"scoped", "exclusive"}]
            BY <3>2
        <3> QED BY <1>1, <3>1, <3>2 DEF Request
    <2>3. \A u \in Tasks : u # t => wants'[u] = wants[u]
        BY <1>1 DEF Request
    <2>4. /\ pc' \in [Tasks -> States] /\ barrierQueue' \in Seq(Tasks)
          /\ UNCHANGED <<readers, writer, leaseVars, lockVars>>
        BY <1>1 DEF Request
    <2> QED BY <2>1, <2>2, <2>3, <2>4
<1>2. ASSUME NEW t \in Tasks, CancelQueued(t) PROVE TypeOK'
    BY <1>2, WithoutType DEF CancelQueued, Forget, LockedInv
<1>3. ASSUME NEW t \in Tasks, CancelLocking(t) PROVE TypeOK'
    BY <1>3, WithoutType DEF CancelLocking
<1>4. ASSUME NEW t \in Tasks, EnterShared(t) PROVE TypeOK'
    <2>1. barrierQueue' \in Seq(Tasks)
        BY <1>4, HeadTailProperties DEF EnterShared
    <2> QED BY <1>4, <2>1 DEF EnterShared
<1>5. ASSUME NEW t \in Tasks, EnterExclusive(t) PROVE TypeOK'
    <2>1. barrierQueue' \in Seq(Tasks)
        BY <1>5, HeadTailProperties DEF EnterExclusive
    <2> QED BY <1>5, <2>1 DEF EnterExclusive
<1>6. ASSUME NEW t \in Tasks, LeaveExclusive(t) PROVE TypeOK'
    BY <1>6 DEF LeaveExclusive, Forget, LockedInv, LeaseInv, LeaseAt
<1>7. ASSUME NEW t \in Tasks, TakeLeases(t) PROVE TypeOK'
    BY <1>7 DEF TakeLeases
<1>8. ASSUME NEW t \in Tasks, AwaitMutex(t) PROVE TypeOK'
    BY <1>8 DEF AwaitMutex
<1>9. ASSUME NEW t \in Tasks, LockMutex(t) PROVE TypeOK'
    <2>1. PICK k \in Keys : /\ NextKey(t, k)
                            /\ mutexQueue' = [mutexQueue EXCEPT ![k] = Without(@, t)]
                            /\ locked' = [locked EXCEPT ![t] = @ \union {k}]
                            /\ pc' = [pc EXCEPT ![t] = IF wants[t] \ locked[t] = {k}
                                                       THEN "held" ELSE "locking"]
        BY <1>9 DEF LockMutex
    <2>2. mutexQueue' \in [Keys -> Seq(Tasks)]
        BY <2>1, WithoutType
    <2>3. k \in wants[t] /\ t \in readers
        BY <2>1, <1>9 DEF NextKey, Least, LockMutex, BarrierInv, Inside
    <2>4. /\ locked' \in [Tasks -> SUBSET Keys]
          /\ \A u \in Tasks : u # t => locked'[u] = locked[u]
          /\ locked'[t] = locked[t] \union {k}
        BY <2>1
    <2>5. pc' \in [Tasks -> States]
        BY <2>1
    <2>6. UNCHANGED <<mode, wants, barrierVars, leaseVars>>
        BY <1>9 DEF LockMutex
    <2>7. \A u \in Tasks : \A j \in locked'[u] : j \in wants'[u] /\ u \in readers'
        BY <2>3, <2>4, <2>6
    <2> QED BY <2>2, <2>4, <2>5, <2>6, <2>7
<1>10. ASSUME NEW t \in Tasks, Release(t) PROVE TypeOK'
    BY <1>10 DEF Release
<1>11. ASSUME NEW t \in Tasks, UnlockMutex(t) PROVE TypeOK'
    <2>1. PICK k \in Keys : locked' = [locked EXCEPT ![t] = @ \ {k}]
        BY <1>11 DEF UnlockMutex
    <2>2. /\ locked' \in [Tasks -> SUBSET Keys]
          /\ \A u \in Tasks : locked'[u] \subseteq locked[u]
        BY <2>1
    <2>3. UNCHANGED <<pc, mode, wants, barrierVars, leaseVars, mutexQueue>>
        BY <1>11 DEF UnlockMutex
    <2> QED BY <2>2, <2>3
<1>12. ASSUME NEW t \in Tasks, GuardsDropped(t) PROVE TypeOK'
    BY <1>12 DEF GuardsDropped
<1>13. ASSUME NEW t \in Tasks, DropLease(t) PROVE TypeOK'
    <2>1. PICK k \in Keys : /\ registry' = [registry EXCEPT ![k] = Retire(t, k)]
                            /\ dropping' = [dropping EXCEPT ![t] = {k}]
        BY <1>13 DEF DropLease
    <2>2. Retire(t, k) \in Mutexes \union {NoMutex}
        BY DEF Retire
    <2>3. registry' \in [Keys -> Mutexes \union {NoMutex}] /\ dropping' \in [Tasks -> SUBSET Keys]
        BY <2>1, <2>2
    <2>4. UNCHANGED <<pc, mode, wants, barrierVars, lease, lockVars>>
        BY <1>13 DEF DropLease
    <2> QED BY <2>3, <2>4
<1>14. ASSUME NEW t \in Tasks, DropReference(t) PROVE TypeOK'
    BY <1>14 DEF DropReference
<1>15. ASSUME NEW t \in Tasks, LeaveShared(t) PROVE TypeOK'
    BY <1>15 DEF LeaveShared, Forget, LockedInv
<1>16. CASE UNCHANGED vars
    BY <1>16 DEF vars
<1> QED
    BY <1>1, <1>2, <1>3, <1>4, <1>5, <1>6, <1>7, <1>8, <1>9, <1>10, <1>11,
       <1>12, <1>13, <1>14, <1>15, <1>16 DEF Next, Progress

\* Every step keeps who may hold the execution barrier.
LEMMA NextBarrier == ASSUME IInv, [Next]_vars PROVE BarrierInv'
<1> USE DEF IInv, TypeOK, BarrierInv, Inside, barrierVars, leaseVars, lockVars
<1>1. ASSUME NEW t \in Tasks, Request(t) PROVE BarrierInv'
    BY <1>1 DEF Request
<1>2. ASSUME NEW t \in Tasks, CancelQueued(t) PROVE BarrierInv'
    BY <1>2 DEF CancelQueued, Forget
<1>3. ASSUME NEW t \in Tasks, CancelLocking(t) PROVE BarrierInv'
    BY <1>3 DEF CancelLocking
<1>4. ASSUME NEW t \in Tasks, EnterShared(t) PROVE BarrierInv'
    BY <1>4 DEF EnterShared
<1>5. ASSUME NEW t \in Tasks, EnterExclusive(t) PROVE BarrierInv'
    BY <1>5 DEF EnterExclusive, ExclusiveMayEnter
<1>6. ASSUME NEW t \in Tasks, LeaveExclusive(t) PROVE BarrierInv'
    BY <1>6 DEF LeaveExclusive, Forget
<1>7. ASSUME NEW t \in Tasks, TakeLeases(t) PROVE BarrierInv'
    BY <1>7 DEF TakeLeases
<1>8. ASSUME NEW t \in Tasks, AwaitMutex(t) PROVE BarrierInv'
    BY <1>8 DEF AwaitMutex
<1>9. ASSUME NEW t \in Tasks, LockMutex(t) PROVE BarrierInv'
    BY <1>9 DEF LockMutex
<1>10. ASSUME NEW t \in Tasks, Release(t) PROVE BarrierInv'
    BY <1>10 DEF Release
<1>11. ASSUME NEW t \in Tasks, UnlockMutex(t) PROVE BarrierInv'
    BY <1>11 DEF UnlockMutex
<1>12. ASSUME NEW t \in Tasks, GuardsDropped(t) PROVE BarrierInv'
    BY <1>12 DEF GuardsDropped
<1>13. ASSUME NEW t \in Tasks, DropLease(t) PROVE BarrierInv'
    BY <1>13 DEF DropLease
<1>14. ASSUME NEW t \in Tasks, DropReference(t) PROVE BarrierInv'
    BY <1>14 DEF DropReference
<1>15. ASSUME NEW t \in Tasks, LeaveShared(t) PROVE BarrierInv'
    BY <1>15 DEF LeaveShared, Forget
<1>16. CASE UNCHANGED vars
    BY <1>16 DEF vars
<1> QED
    BY <1>1, <1>2, <1>3, <1>4, <1>5, <1>6, <1>7, <1>8, <1>9, <1>10, <1>11,
       <1>12, <1>13, <1>14, <1>15, <1>16 DEF Next, Progress

\* Every step keeps which leases a task may hold.
LEMMA NextLease == ASSUME IInv, [Next]_vars PROVE LeaseInv'
<1> SUFFICES ASSUME NEW u \in Tasks, NEW k \in Keys PROVE LeaseAt(u, k)'
    BY DEF LeaseInv
<1>0. LeaseAt(u, k) /\ TypeOK
    BY DEF IInv, LeaseInv
<1> USE <1>0, MutexesAssumption DEF TypeOK, LeaseAt, barrierVars, leaseVars, lockVars,
        NoMutex, NoLease
<1>1. ASSUME NEW t \in Tasks, Request(t) PROVE LeaseAt(u, k)'
    BY <1>1 DEF Request
<1>2. ASSUME NEW t \in Tasks, CancelQueued(t) PROVE LeaseAt(u, k)'
    BY <1>2 DEF CancelQueued, Forget
<1>3. ASSUME NEW t \in Tasks, CancelLocking(t) PROVE LeaseAt(u, k)'
    BY <1>3 DEF CancelLocking
<1>4. ASSUME NEW t \in Tasks, EnterShared(t) PROVE LeaseAt(u, k)'
    BY <1>4 DEF EnterShared
<1>5. ASSUME NEW t \in Tasks, EnterExclusive(t) PROVE LeaseAt(u, k)'
    BY <1>5 DEF EnterExclusive
<1>6. ASSUME NEW t \in Tasks, LeaveExclusive(t) PROVE LeaseAt(u, k)'
    BY <1>6 DEF LeaveExclusive, Forget
<1>7. ASSUME NEW t \in Tasks, TakeLeases(t) PROVE LeaseAt(u, k)'
    BY <1>7 DEF TakeLeases, Least, Obtained, Fresh
<1>8. ASSUME NEW t \in Tasks, AwaitMutex(t) PROVE LeaseAt(u, k)'
    BY <1>8 DEF AwaitMutex
<1>9. ASSUME NEW t \in Tasks, LockMutex(t) PROVE LeaseAt(u, k)'
    BY <1>9 DEF LockMutex
<1>10. ASSUME NEW t \in Tasks, Release(t) PROVE LeaseAt(u, k)'
    BY <1>10 DEF Release
<1>11. ASSUME NEW t \in Tasks, UnlockMutex(t) PROVE LeaseAt(u, k)'
    BY <1>11 DEF UnlockMutex
<1>12. ASSUME NEW t \in Tasks, GuardsDropped(t) PROVE LeaseAt(u, k)'
    BY <1>12 DEF GuardsDropped
<1>13. ASSUME NEW t \in Tasks, DropLease(t) PROVE LeaseAt(u, k)'
    BY <1>13 DEF DropLease
<1>14. ASSUME NEW t \in Tasks, DropReference(t) PROVE LeaseAt(u, k)'
    BY <1>14 DEF DropReference
<1>15. ASSUME NEW t \in Tasks, LeaveShared(t) PROVE LeaseAt(u, k)'
    BY <1>15 DEF LeaveShared, Forget
<1>16. CASE UNCHANGED vars
    BY <1>16 DEF vars
<1> QED
    BY <1>1, <1>2, <1>3, <1>4, <1>5, <1>6, <1>7, <1>8, <1>9, <1>10, <1>11,
       <1>12, <1>13, <1>14, <1>15, <1>16 DEF Next, Progress

\* Every step keeps when a task may hold a mutex guard.
LEMMA NextLocked == ASSUME IInv, [Next]_vars PROVE LockedInv'
<1> USE DEF IInv, TypeOK, LockedInv, BarrierInv, barrierVars, leaseVars, lockVars
<1>1. ASSUME NEW t \in Tasks, Request(t) PROVE LockedInv'
    BY <1>1 DEF Request
<1>2. ASSUME NEW t \in Tasks, CancelQueued(t) PROVE LockedInv'
    BY <1>2 DEF CancelQueued, Forget
<1>3. ASSUME NEW t \in Tasks, CancelLocking(t) PROVE LockedInv'
    BY <1>3 DEF CancelLocking
<1>4. ASSUME NEW t \in Tasks, EnterShared(t) PROVE LockedInv'
    BY <1>4 DEF EnterShared
<1>5. ASSUME NEW t \in Tasks, EnterExclusive(t) PROVE LockedInv'
    <2>1. wants[t] = {} /\ locked[t] = {}
        BY <1>5 DEF EnterExclusive, LeaseInv, LeaseAt
    <2> QED BY <1>5, <2>1 DEF EnterExclusive
<1>6. ASSUME NEW t \in Tasks, LeaveExclusive(t) PROVE LockedInv'
    <2>1. locked[t] = {}
        BY <1>6 DEF LeaveExclusive, Forget, LeaseInv, LeaseAt
    <2> QED BY <1>6, <2>1 DEF LeaveExclusive, Forget
<1>7. ASSUME NEW t \in Tasks, TakeLeases(t) PROVE LockedInv'
    BY <1>7 DEF TakeLeases
<1>8. ASSUME NEW t \in Tasks, AwaitMutex(t) PROVE LockedInv'
    BY <1>8 DEF AwaitMutex
<1>9. ASSUME NEW t \in Tasks, LockMutex(t) PROVE LockedInv'
    <2>1. PICK k \in Keys : /\ NextKey(t, k)
                            /\ locked' = [locked EXCEPT ![t] = @ \union {k}]
                            /\ pc' = [pc EXCEPT ![t] = IF wants[t] \ locked[t] = {k}
                                                       THEN "held" ELSE "locking"]
        BY <1>9 DEF LockMutex
    <2>2. /\ \A u \in Tasks : u # t => locked'[u] = locked[u] /\ pc'[u] = pc[u]
          /\ locked'[t] = locked[t] \union {k}
          /\ pc'[t] = IF wants[t] \ locked[t] = {k} THEN "held" ELSE "locking"
        BY <2>1
    <2>3. wants' = wants
        BY <1>9 DEF LockMutex
    <2>4. pc'[t] = "held" => locked'[t] = wants'[t]
        BY <2>2, <2>3
    <2>5. pc'[t] \in {"held", "locking"}
        BY <2>2
    <2> QED BY <2>2, <2>3, <2>4, <2>5
<1>10. ASSUME NEW t \in Tasks, Release(t) PROVE LockedInv'
    BY <1>10 DEF Release
<1>11. ASSUME NEW t \in Tasks, UnlockMutex(t) PROVE LockedInv'
    <2>1. PICK k \in Keys : locked' = [locked EXCEPT ![t] = @ \ {k}]
        BY <1>11 DEF UnlockMutex
    <2>2. /\ \A u \in Tasks : u # t => locked'[u] = locked[u]
          /\ \A j \in locked'[t] : j \in locked[t]
        BY <2>1
    <2>3. pc[t] = "unlocking" /\ UNCHANGED <<pc, wants>>
        BY <1>11 DEF UnlockMutex
    <2> QED BY <2>2, <2>3
<1>12. ASSUME NEW t \in Tasks, GuardsDropped(t) PROVE LockedInv'
    BY <1>12 DEF GuardsDropped
<1>13. ASSUME NEW t \in Tasks, DropLease(t) PROVE LockedInv'
    BY <1>13 DEF DropLease
<1>14. ASSUME NEW t \in Tasks, DropReference(t) PROVE LockedInv'
    BY <1>14 DEF DropReference
<1>15. ASSUME NEW t \in Tasks, LeaveShared(t) PROVE LockedInv'
    BY <1>15 DEF LeaveShared, Forget
<1>16. CASE UNCHANGED vars
    BY <1>16 DEF vars
<1> QED
    BY <1>1, <1>2, <1>3, <1>4, <1>5, <1>6, <1>7, <1>8, <1>9, <1>10, <1>11,
       <1>12, <1>13, <1>14, <1>15, <1>16 DEF Next, Progress

\* Only four actions touch the leases or the guards.
LEMMA NextMutex == ASSUME IInv, [Next]_vars PROVE MutexInv'
<1> SUFFICES ASSUME NEW a \in Tasks, NEW b \in Tasks, NEW j \in Keys, a # b,
                    j \in locked'[a], j \in locked'[b]
             PROVE  lease'[a][j] # lease'[b][j]
    BY DEF MutexInv
<1>0. j \in locked[a] /\ j \in locked[b] => lease[a][j] # lease[b][j]
    BY DEF IInv, MutexInv
<1> USE DEF leaseVars, lockVars
<1>1. ASSUME NEW t \in Tasks, TakeLeases(t) PROVE lease'[a][j] # lease'[b][j]
    <2>1. j \notin locked[t] /\ locked' = locked
        BY <1>1 DEF TakeLeases, LockedInv, IInv, TypeOK
    <2>2. \A u \in Tasks : u # t => lease'[u] = lease[u]
        BY <1>1 DEF TakeLeases, IInv, TypeOK
    <2>3. a # t /\ b # t
        BY <2>1
    <2> QED BY <1>0, <2>1, <2>2, <2>3
<1>2. ASSUME NEW t \in Tasks, LockMutex(t) PROVE lease'[a][j] # lease'[b][j]
    <2>1. PICK k \in Keys : MutexFree(t, k) /\ locked' = [locked EXCEPT ![t] = @ \union {k}]
        BY <1>2 DEF LockMutex
    <2>2. /\ \A u \in Tasks : u # t => locked'[u] = locked[u]
          /\ locked'[t] = locked[t] \union {k}
        BY <2>1 DEF IInv, TypeOK
    <2>3. lease' = lease
        BY <1>2 DEF LockMutex
    <2>4. \A u \in Tasks : k \in locked[u] => lease[u][k] # lease[t][k]
        BY <2>1 DEF MutexFree
    <2>5. CASE j \in locked[a] /\ j \in locked[b]
        BY <1>0, <2>3, <2>5
    <2>6. CASE j \notin locked[a]
        <3>1. a = t /\ j = k /\ j \in locked[b]
            BY <2>2, <2>6
        <3> QED BY <2>3, <2>4, <3>1
    <2>7. CASE j \notin locked[b]
        <3>1. b = t /\ j = k /\ j \in locked[a]
            BY <2>2, <2>7
        <3> QED BY <2>3, <2>4, <3>1
    <2> QED BY <2>5, <2>6, <2>7
<1>3. ASSUME NEW t \in Tasks, UnlockMutex(t) PROVE lease'[a][j] # lease'[b][j]
    <2>1. j \in locked[a] /\ j \in locked[b]
        BY <1>3 DEF UnlockMutex, IInv, TypeOK
    <2>2. lease' = lease
        BY <1>3 DEF UnlockMutex
    <2> QED BY <1>0, <2>1, <2>2
<1>4. ASSUME NEW t \in Tasks, DropReference(t) PROVE lease'[a][j] # lease'[b][j]
    <2>1. j \notin locked[t] /\ locked' = locked
        BY <1>4 DEF DropReference, LockedInv, IInv, TypeOK
    <2>2. \A u \in Tasks : u # t => lease'[u] = lease[u]
        BY <1>4 DEF DropReference, IInv, TypeOK
    <2>3. a # t /\ b # t
        BY <2>1
    <2> QED BY <1>0, <2>1, <2>2, <2>3
<1>5. CASE UNCHANGED <<lease, locked>>
    BY <1>0, <1>5
<1> QED
    BY <1>1, <1>2, <1>3, <1>4, <1>5 DEF Next, Progress, vars, Request, CancelQueued,
       CancelLocking, EnterShared, EnterExclusive, LeaveExclusive, AwaitMutex,
       Release, GuardsDropped, DropLease, LeaveShared

\* The registry is changed by TakeLeases and DropLease only; DropReference
\* removes strong references.
LEMMA NextNoSplit == ASSUME IInv, [Next]_vars PROVE NoSplitMutex'
<1> USE DEF IInv, TypeOK, NoSplitMutex, leaseVars, NoMutex
<1>1. ASSUME NEW t \in Tasks, TakeLeases(t) PROVE NoSplitMutex'
    <2>1. PICK new \in [Keys -> Mutexes \union {NoMutex}] :
            /\ \A k \in Keys : Obtained(t, k, new[k])
            /\ lease' = [lease EXCEPT ![t] = new]
            /\ registry' = [k \in Keys |->
                               IF k \in wants[t] THEN new[k] ELSE registry[k]]
        BY <1>1 DEF TakeLeases
    <2>2. dropping' = dropping /\ \A k \in Keys : k \notin dropping[t]
        BY <1>1 DEF TakeLeases, LeaseInv, LeaseAt
    <2> SUFFICES ASSUME NEW u \in Tasks, NEW k \in Keys,
                        lease'[u][k] # NoMutex, k \notin dropping[u]
                 PROVE  registry'[k] = lease'[u][k]
        BY <2>2
    <2>3. CASE u = t
        <3>1. k \in wants[t]
            BY <2>1, <2>3 DEF Obtained
        <3> QED BY <2>1, <2>3, <3>1
    <2>4. CASE u # t
        <3>1. lease'[u][k] = lease[u][k] /\ registry[k] = lease[u][k]
            BY <2>1, <2>4
        <3>2. k \in wants[t] => new[k] = registry[k]
            BY <2>1, <3>1 DEF Obtained, Alive
        <3> QED BY <2>1, <3>1, <3>2
    <2> QED BY <2>3, <2>4
<1>2. ASSUME NEW t \in Tasks, DropLease(t) PROVE NoSplitMutex'
    <2>1. PICK j \in Keys : /\ Least(j, {i \in Keys : lease[t][i] # NoMutex})
                            /\ registry' = [registry EXCEPT ![j] = Retire(t, j)]
                            /\ dropping' = [dropping EXCEPT ![t] = {j}]
        BY <1>2 DEF DropLease
    <2>2. lease' = lease /\ dropping[t] = {} /\ lease[t][j] # NoMutex
        BY <1>2, <2>1 DEF DropLease, Least
    <2> SUFFICES ASSUME NEW u \in Tasks, NEW k \in Keys,
                        lease[u][k] # NoMutex, k \notin dropping'[u]
                 PROVE  registry'[k] = lease[u][k]
        BY <2>2
    <2>3. k \notin dropping[u] /\ registry[k] = lease[u][k]
        BY <2>1, <2>2
    <2>4. CASE k # j
        BY <2>1, <2>3, <2>4
    <2>5. CASE k = j
        <3>1. u # t
            BY <2>1, <2>5
        <3>2. lease[t][j] = registry[j]
            BY <2>2
        <3>3. ~ OnlyStrongReference(t, j)
            BY <2>3, <2>5, <3>1, <3>2 DEF OnlyStrongReference
        <3>4. Retire(t, j) = registry[j]
            BY <3>3 DEF Retire
        <3> QED BY <2>1, <2>3, <2>5, <3>4
    <2> QED BY <2>4, <2>5
<1>3. ASSUME NEW t \in Tasks, DropReference(t) PROVE NoSplitMutex'
    <2>1. registry' = registry
        BY <1>3 DEF DropReference
    <2> SUFFICES ASSUME NEW u \in Tasks, NEW k \in Keys,
                        lease'[u][k] # NoMutex, k \notin dropping'[u]
                 PROVE  registry[k] = lease'[u][k]
        BY <2>1
    <2>2. lease'[u][k] = lease[u][k] /\ k \notin dropping[u]
        BY <1>3 DEF DropReference
    <2> QED BY <2>2
<1>4. CASE UNCHANGED <<registry, lease, dropping>>
    BY <1>4
<1> QED
    BY <1>1, <1>2, <1>3, <1>4 DEF Next, Progress, vars, Request, CancelQueued,
       CancelLocking, EnterShared, EnterExclusive, LeaveExclusive, AwaitMutex,
       LockMutex, Release, UnlockMutex, GuardsDropped, LeaveShared

-----------------------------------------------------------------------------
(* The theorems.                                                           *)

\* The invariant of the mutation locks holds in every behaviour.
THEOREM Inductive == Spec => []IInv
<1>1. IInv /\ [Next]_vars => IInv'
    BY NextType, NextBarrier, NextLease, NextLocked, NextMutex, NextNoSplit DEF IInv
<1> QED BY InitInv, <1>1, PTL DEF Spec

\* The variables keep their types and guards stay inside the barrier.
THEOREM TypeCorrect == Spec => []TypeOK
<1>1. IInv => TypeOK
    BY DEF IInv
<1> QED BY Inductive, <1>1, PTL

\* Retiring registry entries never splits the mutex of a resource, for any
\* number of requests, resources and cancellations.
THEOREM NeverSplit == Spec => []NoSplitMutex
<1>1. IInv => NoSplitMutex
    BY DEF IInv
<1> QED BY Inductive, <1>1, PTL

\* Holders of a shared resource exclude one another and an exclusive holder
\* excludes everyone: two complete guards over one key would be two guards of
\* one mutex (NoSplitMutex), which MutexInv forbids.
THEOREM MutualExclusion == Spec => []Exclusion
<1>1. IInv => Exclusion
    <2> SUFFICES ASSUME IInv, NEW t \in Tasks, NEW u \in Tasks, t # u, pc[t] = "held"
                 PROVE  /\ pc[u] = "held" => wants[t] \intersect wants[u] = {}
                        /\ mode[t] = "exclusive" => pc[u] \in {"idle", "queued"}
        BY DEF Exclusion
    <2>1. ASSUME pc[u] = "held", NEW k \in Keys, k \in wants[t], k \in wants[u]
          PROVE  FALSE
        <3>1. k \in locked[t] /\ k \in locked[u]
            BY <2>1 DEF IInv, LockedInv
        <3>2. mode[t] = "scoped" /\ mode[u] = "scoped"
            BY <2>1 DEF IInv, LeaseInv, LeaseAt, TypeOK
        <3>3. lease[t][k] # NoMutex /\ lease[u][k] # NoMutex
            BY <2>1, <3>2 DEF IInv, LeaseInv, LeaseAt
        <3>4. k \notin dropping[t] /\ k \notin dropping[u]
            BY <2>1 DEF IInv, LeaseInv, LeaseAt
        <3>5. lease[t][k] = lease[u][k]
            BY <3>3, <3>4 DEF IInv, NoSplitMutex
        <3> QED BY <3>1, <3>5 DEF IInv, MutexInv
    <2>2. ASSUME mode[t] = "exclusive" PROVE pc[u] \in {"idle", "queued"}
        <3>1. t \in writer /\ u \notin readers /\ u \notin writer
            BY <2>2 DEF IInv, BarrierInv
        <3> QED BY <3>1 DEF IInv, BarrierInv, TypeOK, States, Inside
    <2> QED BY <2>1, <2>2 DEF IInv, TypeOK
<1> QED BY Inductive, <1>1, PTL
=============================================================================
