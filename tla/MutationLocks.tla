---------------------------- MODULE MutationLocks ----------------------------
(***************************************************************************)
(* The in-process lock manager of the production-map service               *)
(* (core/production_map/service_mutation_guard.rs).                        *)
(*                                                                         *)
(* An exclusive mutation takes the write side of a barrier.  A scoped      *)
(* mutation takes the read side, leases one mutex per resource key from a  *)
(* shared registry and then locks the leased mutexes in key order.  The    *)
(* registry keeps weak references only: the last lease of a key removes    *)
(* the entry.  Dropping a lease is two steps, the body of Drop::drop under *)
(* the registry lock and, after it, the decrement of the Arc count; they   *)
(* are two actions here.  A request may be cancelled while it waits        *)
(* (its future is dropped), which runs the same destructors.               *)
(*                                                                         *)
(* tokio's RwLock and Mutex are external: both are first-come first-served.*)
(***************************************************************************)
EXTENDS Naturals, Sequences, SequencesExt

CONSTANTS
    Tasks,          \* concurrent requests
    Keys,           \* resource keys, ordered as BTreeMap orders them
    Mutexes         \* identities of the Arc<Mutex<()>> allocations of a key

ASSUME KeysAssumption == Keys \subseteq Nat

ASSUME MutexesAssumption == Mutexes \subseteq Nat \ {0}

NoMutex == 0

VARIABLES
    pc,             \* where each request is
    mode,           \* "scoped" or "exclusive"
    wants,          \* the keys a scoped request asked for
    barrierQueue,   \* requests waiting for the barrier, in order
    readers,        \* requests holding the barrier's read side
    writer,         \* requests holding the barrier's write side
    registry,       \* key -> mutex the Weak points to, NoMutex if absent
    lease,          \* request -> key -> strong reference held
    dropping,       \* request -> keys between Drop::drop and the decrement
    mutexQueue,     \* key -> requests awaiting a mutex of that key, in order
    locked          \* request -> keys whose mutex guard it holds

vars == <<pc, mode, wants, barrierQueue, readers, writer, registry, lease,
          dropping, mutexQueue, locked>>

barrierVars == <<barrierQueue, readers, writer>>
leaseVars   == <<registry, lease, dropping>>
lockVars    == <<mutexQueue, locked>>

NoLease == [k \in Keys |-> NoMutex]

Init ==
    /\ pc = [t \in Tasks |-> "idle"]
    /\ mode = [t \in Tasks |-> "scoped"]
    /\ wants = [t \in Tasks |-> {}]
    /\ barrierQueue = <<>>
    /\ readers = {}
    /\ writer = {}
    /\ registry = NoLease
    /\ lease = [t \in Tasks |-> NoLease]
    /\ dropping = [t \in Tasks |-> {}]
    /\ mutexQueue = [k \in Keys |-> <<>>]
    /\ locked = [t \in Tasks |-> {}]

-----------------------------------------------------------------------------
(* Reference counts.                                                       *)

\* Arc::strong_count(m) > 0.  A guard's Arc clone is always dropped before
\* the lease of the same request, so leases alone decide liveness.
Alive(k, m) == \E t \in Tasks : lease[t][k] = m

\* Arc::strong_count(&self.lock) == 1, read by the lease of t.
OnlyStrongReference(t, k) ==
    /\ k \notin locked[t]
    /\ \A u \in Tasks \ {t} : lease[u][k] # lease[t][k]

\* An allocation no strong or weak reference points to.
Fresh(k, m) == ~ Alive(k, m) /\ registry[k] # m

Least(k, S) == k \in S /\ \A j \in S : k <= j

\* A queue after one of its waiters is served or gives up.
Without(q, t) ==
    IF Contains(q, t) THEN RemoveAt(q, CHOOSE i \in 1..Len(q) : q[i] = t) ELSE q

-----------------------------------------------------------------------------
(* The barrier.                                                            *)

\* A request arrives: scoped(keys), or queue_action_guard for an exclusive one.
Request(t) ==
    /\ pc[t] = "idle"
    /\ \/ /\ mode' = [mode EXCEPT ![t] = "exclusive"]
          /\ wants' = [wants EXCEPT ![t] = {}]
       \/ \E S \in SUBSET Keys \ {{}} :
          /\ mode' = [mode EXCEPT ![t] = "scoped"]
          /\ wants' = [wants EXCEPT ![t] = S]
    /\ pc' = [pc EXCEPT ![t] = "queued"]
    /\ barrierQueue' = Append(barrierQueue, t)
    /\ UNCHANGED <<readers, writer, leaseVars, lockVars>>

\* read_owned().await returns.
EnterShared(t) ==
    /\ pc[t] = "queued" /\ mode[t] = "scoped"
    /\ barrierQueue # <<>> /\ Head(barrierQueue) = t
    /\ writer = {}
    /\ barrierQueue' = Tail(barrierQueue)
    /\ readers' = readers \union {t}
    /\ pc' = [pc EXCEPT ![t] = "entered"]
    /\ UNCHANGED <<mode, wants, writer, leaseVars, lockVars>>

\* Mistake: queue_action_guard takes the read side of the barrier.
ExclusiveMayEnterEarly == writer = {}

\* write_owned() waits until nobody is inside.
ExclusiveMayEnter == writer = {} /\ readers = {}

\* write_owned().await returns.
EnterExclusive(t) ==
    /\ pc[t] = "queued" /\ mode[t] = "exclusive"
    /\ barrierQueue # <<>> /\ Head(barrierQueue) = t
    /\ ExclusiveMayEnter
    /\ barrierQueue' = Tail(barrierQueue)
    /\ writer' = writer \union {t}
    /\ pc' = [pc EXCEPT ![t] = "held"]
    /\ UNCHANGED <<mode, wants, readers, leaseVars, lockVars>>

\* The request is over: nothing of it is left.
Forget(t) ==
    /\ pc' = [pc EXCEPT ![t] = "idle"]
    /\ mode' = [mode EXCEPT ![t] = "scoped"]
    /\ wants' = [wants EXCEPT ![t] = {}]

\* The future is dropped while it waits for the barrier.
CancelQueued(t) ==
    /\ pc[t] = "queued"
    /\ barrierQueue' = Without(barrierQueue, t)
    /\ Forget(t)
    /\ UNCHANGED <<readers, writer, leaseVars, lockVars>>

\* The write guard is dropped.
LeaveExclusive(t) ==
    /\ pc[t] = "held" /\ mode[t] = "exclusive"
    /\ writer' = writer \ {t}
    /\ Forget(t)
    /\ UNCHANGED <<barrierQueue, readers, leaseVars, lockVars>>

-----------------------------------------------------------------------------
(* Leasing and locking.                                                    *)

\* What the registry lookup returns for a wanted key: the live mutex the Weak
\* upgrades to, or a newly allocated one (allocations are interchangeable, so
\* the least unused one stands for any).
Obtained(t, k, m) ==
    IF k \notin wants[t] THEN m = NoMutex
    ELSE IF registry[k] # NoMutex /\ Alive(k, registry[k]) THEN m = registry[k]
    ELSE Least(m, {n \in Mutexes : Fresh(k, n)})

\* All leases are taken in one critical section of the registry lock.
TakeLeases(t) ==
    /\ pc[t] = "entered"
    /\ \E new \in [Keys -> Mutexes \union {NoMutex}] :
          /\ \A k \in Keys : Obtained(t, k, new[k])
          /\ lease' = [lease EXCEPT ![t] = new]
          /\ registry' = [k \in Keys |->
                             IF k \in wants[t] THEN new[k] ELSE registry[k]]
    /\ pc' = [pc EXCEPT ![t] = "locking"]
    /\ UNCHANGED <<mode, wants, barrierVars, dropping, lockVars>>

\* Mistake: mutexes are locked in the order the caller listed them.
NextKeyUnsorted(t, k) == k \in wants[t] \ locked[t]

\* The next mutex, in key order, that t must lock.
NextKey(t, k) == Least(k, wants[t] \ locked[t])

\* First poll of lock_owned(): the request joins the mutex's waiters.
AwaitMutex(t) ==
    /\ pc[t] = "locking"
    /\ \E k \in Keys :
          /\ NextKey(t, k)
          /\ ~ Contains(mutexQueue[k], t)
          /\ mutexQueue' = [mutexQueue EXCEPT ![k] = Append(@, t)]
    /\ UNCHANGED <<pc, mode, wants, barrierVars, leaseVars, locked>>

\* t is the first waiter of the mutex it leased (waiters of another mutex of
\* the same key, if there were one, do not count).
FirstWaiter(t, k) ==
    \E i \in 1..Len(mutexQueue[k]) :
       /\ mutexQueue[k][i] = t
       /\ \A j \in 1..(i - 1) :
             lease[mutexQueue[k][j]][k] # lease[t][k]

MutexFree(t, k) ==
    \A u \in Tasks : k \in locked[u] => lease[u][k] # lease[t][k]

\* lock_owned().await returns; after the last key the guard is complete.
LockMutex(t) ==
    /\ pc[t] = "locking"
    /\ \E k \in Keys :
          /\ NextKey(t, k)
          /\ FirstWaiter(t, k)
          /\ MutexFree(t, k)
          /\ mutexQueue' = [mutexQueue EXCEPT ![k] = Without(@, t)]
          /\ locked' = [locked EXCEPT ![t] = @ \union {k}]
          /\ pc' = [pc EXCEPT ![t] = IF wants[t] \ locked[t] = {k}
                                     THEN "held" ELSE "locking"]
    /\ UNCHANGED <<mode, wants, barrierVars, leaseVars>>

\* Mistake: cancellation leaves the barrier and forgets the guards it took.
CancelLockingLeaky(t) ==
    /\ pc[t] = "locking"
    /\ mutexQueue' = [k \in Keys |-> Without(mutexQueue[k], t)]
    /\ pc' = [pc EXCEPT ![t] = "retiring"]
    /\ UNCHANGED <<mode, wants, barrierVars, leaseVars, locked>>

\* The future is dropped while it waits for a mutex: the partial guard drops.
CancelLocking(t) ==
    /\ pc[t] = "locking"
    /\ mutexQueue' = [k \in Keys |-> Without(mutexQueue[k], t)]
    /\ pc' = [pc EXCEPT ![t] = "unlocking"]
    /\ UNCHANGED <<mode, wants, barrierVars, leaseVars, locked>>

-----------------------------------------------------------------------------
(* Dropping a ScopedProductionMutationGuard: _guards, _leases, _barrier.   *)

\* The caller drops the guard.
Release(t) ==
    /\ pc[t] = "held" /\ mode[t] = "scoped"
    /\ pc' = [pc EXCEPT ![t] = "unlocking"]
    /\ UNCHANGED <<mode, wants, barrierVars, leaseVars, lockVars>>

\* One OwnedMutexGuard is dropped.
UnlockMutex(t) ==
    /\ pc[t] = "unlocking"
    /\ \E k \in Keys :
          /\ Least(k, locked[t])
          /\ locked' = [locked EXCEPT ![t] = @ \ {k}]
    /\ UNCHANGED <<pc, mode, wants, barrierVars, leaseVars, mutexQueue>>

GuardsDropped(t) ==
    /\ pc[t] = "unlocking" /\ locked[t] = {}
    /\ pc' = [pc EXCEPT ![t] = "retiring"]
    /\ UNCHANGED <<mode, wants, barrierVars, leaseVars, lockVars>>

\* Mistake: the entry is removed without the strong_count test.
RetireAlways(t, k) ==
    IF registry[k] = lease[t][k] THEN NoMutex ELSE registry[k]

\* What ResourceLease::drop leaves in the registry for the key of its lease.
Retire(t, k) ==
    IF OnlyStrongReference(t, k) /\ registry[k] = lease[t][k]
    THEN NoMutex ELSE registry[k]

\* The body of ResourceLease::drop, under the registry lock.
DropLease(t) ==
    /\ pc[t] = "retiring" /\ dropping[t] = {}
    /\ \E k \in Keys :
          /\ Least(k, {j \in Keys : lease[t][j] # NoMutex})
          /\ registry' = [registry EXCEPT ![k] = Retire(t, k)]
          /\ dropping' = [dropping EXCEPT ![t] = {k}]
    /\ UNCHANGED <<pc, mode, wants, barrierVars, lease, lockVars>>

\* The fields of the lease are dropped: the Arc count is decremented.
DropReference(t) ==
    /\ pc[t] = "retiring" /\ dropping[t] # {}
    /\ lease' = [lease EXCEPT ![t] =
                    [k \in Keys |-> IF k \in dropping[t] THEN NoMutex ELSE @[k]]]
    /\ dropping' = [dropping EXCEPT ![t] = {}]
    /\ UNCHANGED <<pc, mode, wants, barrierVars, registry, lockVars>>

\* The read side of the barrier is released last.
LeaveShared(t) ==
    /\ pc[t] = "retiring" /\ dropping[t] = {} /\ lease[t] = NoLease
    /\ readers' = readers \ {t}
    /\ Forget(t)
    /\ UNCHANGED <<barrierQueue, writer, leaseVars, lockVars>>

-----------------------------------------------------------------------------
\* The steps the runtime takes by itself once a request is in the system.
Progress(t) ==
    \/ EnterShared(t) \/ EnterExclusive(t) \/ LeaveExclusive(t)
    \/ TakeLeases(t) \/ AwaitMutex(t) \/ LockMutex(t)
    \/ Release(t) \/ UnlockMutex(t) \/ GuardsDropped(t)
    \/ DropLease(t) \/ DropReference(t) \/ LeaveShared(t)

Next == \E t \in Tasks :
    Request(t) \/ CancelQueued(t) \/ CancelLocking(t) \/ Progress(t)

Spec == Init /\ [][Next]_vars

\* Holders finish their work and wake-ups are delivered; nobody is obliged to
\* send a request or to cancel one.
FairSpec == Spec /\ \A t \in Tasks : WF_vars(Progress(t))

-----------------------------------------------------------------------------
(* Properties.                                                             *)

States == {"idle", "queued", "entered", "locking", "held", "unlocking",
           "retiring"}

\* Every variable stays in its type; a request holds guards only of keys that
\* it asked for, and only while it is past the barrier.
TypeOK ==
    /\ pc \in [Tasks -> States]
    /\ mode \in [Tasks -> {"scoped", "exclusive"}]
    /\ wants \in [Tasks -> SUBSET Keys]
    /\ barrierQueue \in Seq(Tasks)
    /\ readers \subseteq Tasks
    /\ writer \subseteq Tasks
    /\ registry \in [Keys -> Mutexes \union {NoMutex}]
    /\ lease \in [Tasks -> [Keys -> Mutexes \union {NoMutex}]]
    /\ dropping \in [Tasks -> SUBSET Keys]
    /\ mutexQueue \in [Keys -> Seq(Tasks)]
    /\ locked \in [Tasks -> SUBSET Keys]
    /\ \A t \in Tasks : \A k \in locked[t] : k \in wants[t] /\ t \in readers

\* Two requests that both hold their guard never share a resource, and the
\* holder of the exclusive guard is alone: while it runs no scoped request is
\* even past the barrier (queue_action_guard, scoped).
Exclusion ==
    \A t, u \in Tasks : t # u /\ pc[t] = "held" =>
        /\ pc[u] = "held" => wants[t] \intersect wants[u] = {}
        /\ mode[t] = "exclusive" => pc[u] \in {"idle", "queued"}

\* "a waiting action cannot be bypassed by creating another mutex for the same
\* physical resource" (ResourceLease::drop): every owner and waiter of a key
\* is on the one mutex the registry hands out, whoever retires meanwhile.
NoSplitMutex ==
    \A t \in Tasks, k \in Keys :
        lease[t][k] # NoMutex /\ k \notin dropping[t] => registry[k] = lease[t][k]

\* Whatever keys the requests ask for and however they are cancelled, a
\* queued request is eventually served (or cancelled by its caller): sorted
\* locking leaves no cycle of waiters.
Served == \A t \in Tasks : pc[t] = "queued" ~> pc[t] \in {"held", "unlocking", "idle"}

=============================================================================
