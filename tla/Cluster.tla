-------------------------------- MODULE Cluster --------------------------------
(***************************************************************************)
(* The worker pool of cdp_driver::cluster: Cluster::new opens the tabs,    *)
(* execute and the tasks that run spawns take a permit of the semaphore    *)
(* and a client of the Vec behind its mutex, run with retries, give the    *)
(* client back and drop the permit, and close closes what the Vec holds.   *)
(*                                                                         *)
(* One element of Tasks is one execution of the body that execute and run  *)
(* share.  The user's closure may succeed, fail or panic, and its future   *)
(* may be dropped: execute's by its caller, at once; a task of run's by    *)
(* dropping run's, whose JoinSet asks the runtime to abort the task, which *)
(* may be in the middle of a poll and owns the pool as the cluster does.   *)
(***************************************************************************)
EXTENDS Integers, Sequences, FiniteSets

CONSTANTS Workers,     \* the tabs, concurrency of them
          Tasks,       \* executions of the body
          Panicking,   \* those whose closure may panic
          Spawned,     \* those that are tasks spawned by run
          Cancellable, \* those whose future, or whose run's, may be dropped
          Retries,     \* config.retries
          NoWorker     \* stands for no client

ASSUME ClusterAssumption ==
    /\ IsFiniteSet(Workers) /\ Workers # {}
    /\ IsFiniteSet(Tasks)
    /\ Panicking \subseteq Tasks /\ Spawned \subseteq Tasks /\ Cancellable \subseteq Tasks
    /\ Retries \in Nat
    /\ NoWorker \notin Workers

VARIABLES
    phase,    \* "creating", "failed", "ready", "closing", "closed" or "abandoned"
    tab,      \* each tab: "none", "blank", "open": set up, "closed": sent Page.close
    pool,     \* pool.clients, the last one pushed on top
    permits,  \* permits of pool.semaphore nobody has
    aborted,  \* spawned tasks whose run was dropped
    queue,    \* tasks waiting in acquire, served in order
    pc,       \* where each task is
    holds,    \* the client it popped
    attempts, \* how often its closure ran
    result    \* "none", "ok" or "err"

tasks == <<queue, pc, holds, attempts, result>>
vars  == <<phase, tab, pool, permits, aborted, tasks>>

States == {"idle", "queued", "permitted", "running", "returning", "releasing",
           "done", "missing", "panicked", "cancelled"}

TypeOK ==
    /\ phase \in {"creating", "failed", "ready", "closing", "closed", "abandoned"}
    /\ tab \in [Workers -> {"none", "blank", "open", "closed"}]
    /\ pool \in Seq(Workers)
    /\ permits \in 0 .. Cardinality(Workers)
    /\ aborted \subseteq Spawned \cap Cancellable
    /\ queue \in Seq(Tasks)
    /\ pc \in [Tasks -> States]
    /\ holds \in [Tasks -> Workers \cup {NoWorker}]
    /\ attempts \in [Tasks -> 0 .. Retries + 1]
    /\ result \in [Tasks -> {"none", "ok", "err"}]

Init ==
    /\ phase = "creating"
    /\ tab = [w \in Workers |-> "none"]
    /\ pool = << >>
    /\ permits = 0
    /\ aborted = {}
    /\ queue = << >>
    /\ pc = [t \in Tasks |-> "idle"]
    /\ holds = [t \in Tasks |-> NoWorker]
    /\ attempts = [t \in Tasks |-> 0]
    /\ result = [t \in Tasks |-> "none"]

-----------------------------------------------------------------------------
(* Cluster::new, one worker after the other.                               *)

\* create_tab opens the next tab.
OpenTab(w) ==
    /\ phase = "creating" /\ tab[w] = "none"
    /\ \A v \in Workers : tab[v] # "blank"
    /\ tab' = [tab EXCEPT ![w] = "blank"]
    /\ UNCHANGED <<phase, pool, permits, aborted, tasks>>

\* connect, Page.enable, Runtime.enable and the viewport.
SetUpTab(w) ==
    /\ phase = "creating" /\ tab[w] = "blank"
    /\ tab' = [tab EXCEPT ![w] = "open"]
    /\ pool' = Append(pool, w)
    /\ UNCHANGED <<phase, permits, aborted, tasks>>

\* Any step may fail; the error returns at once, and closes nothing.
CreationFails ==
    /\ phase = "creating"
    /\ \E w \in Workers : tab[w] # "open"
    /\ phase' = "failed"
    /\ pool' = << >>
    /\ UNCHANGED <<tab, permits, aborted, tasks>>

CreationEnds ==
    /\ phase = "creating"
    /\ \A w \in Workers : tab[w] = "open"
    /\ phase' = "ready"
    /\ permits' = Cardinality(Workers)
    /\ UNCHANGED <<tab, pool, aborted, tasks>>

-----------------------------------------------------------------------------
(* The body of execute and of the tasks run spawns.                        *)

HasPermit(t) == pc[t] \in {"permitted", "running", "returning", "releasing"}
Started(t)   == pc[t] # "idle"
Over(t)      == pc[t] \in {"done", "missing", "panicked", "cancelled"}

\* semaphore.acquire: the waiters are served first come, first served.  A spawned task
\* gets here in its first poll, which may outlast its run.
Start(t) ==
    /\ phase = "ready" \/ t \in aborted
    /\ pc[t] = "idle"
    /\ pc' = [pc EXCEPT ![t] = "queued"]
    /\ queue' = Append(queue, t)
    /\ UNCHANGED <<phase, tab, aborted, pool, permits, holds, attempts, result>>

Acquire(t) ==
    /\ queue # << >> /\ t = Head(queue) /\ permits > 0
    /\ queue' = Tail(queue)
    /\ permits' = permits - 1
    /\ pc' = [pc EXCEPT ![t] = "permitted"]
    /\ UNCHANGED <<phase, tab, aborted, pool, holds, attempts, result>>

\* close has pool.clients locked from its first to its last await.
MutexFree == phase # "closing"

\* Mutation: the client is read from the top of the Vec and not removed.
CheckOutShared(t) ==
    /\ pc[t] = "permitted" /\ MutexFree
    /\ pool # << >>
    /\ pc' = [pc EXCEPT ![t] = "running"]
    /\ holds' = [holds EXCEPT ![t] = pool[Len(pool)]]
    /\ UNCHANGED <<phase, tab, aborted, pool, permits, queue, attempts, result>>

\* Mutation: a missing worker unwinds without giving the permit back.
CheckOutLeaking(t) ==
    /\ pc[t] = "permitted" /\ MutexFree
    /\ \/ /\ pool # << >>
          /\ pc' = [pc EXCEPT ![t] = "running"]
          /\ holds' = [holds EXCEPT ![t] = pool[Len(pool)]]
          /\ pool' = SubSeq(pool, 1, Len(pool) - 1)
       \/ /\ pool = << >>
          /\ pc' = [pc EXCEPT ![t] = "missing"]
          /\ UNCHANGED <<pool, holds>>
    /\ UNCHANGED <<phase, tab, aborted, permits, queue, attempts, result>>

\* clients.lock().pop(): with none left, expect("worker missing") panics and
\* the permit goes back as the stack unwinds.
CheckOut(t) ==
    /\ pc[t] = "permitted" /\ MutexFree
    /\ \/ /\ pool # << >>
          /\ pc' = [pc EXCEPT ![t] = "running"]
          /\ holds' = [holds EXCEPT ![t] = pool[Len(pool)]]
          /\ pool' = SubSeq(pool, 1, Len(pool) - 1)
          /\ UNCHANGED permits
       \/ /\ pool = << >>
          /\ pc' = [pc EXCEPT ![t] = "missing"]
          /\ permits' = permits + 1
          /\ UNCHANGED <<pool, holds>>
    /\ UNCHANGED <<phase, tab, aborted, queue, attempts, result>>

\* Mutation: the attempt just made is not counted against the retries.
ExhaustedOffByOne(n) == n >= Retries

\* run_with_retries, once attempts has been incremented to n: attempts > retries.
Exhausted(n) == n > Retries

\* One iteration of run_with_retries.
Attempt(t, ok) ==
    /\ pc[t] = "running"
    /\ attempts' = [attempts EXCEPT ![t] = @ + 1]
    /\ \/ /\ ok
          /\ result' = [result EXCEPT ![t] = "ok"]
          /\ pc' = [pc EXCEPT ![t] = "returning"]
       \/ /\ ~ok /\ Exhausted(attempts'[t])
          /\ result' = [result EXCEPT ![t] = "err"]
          /\ pc' = [pc EXCEPT ![t] = "returning"]
       \/ /\ ~ok /\ ~Exhausted(attempts'[t])
          /\ UNCHANGED <<result, pc>>
    /\ UNCHANGED <<phase, tab, aborted, pool, permits, queue, holds>>

\* Mutation: the permit is dropped as the client is about to go back.
CheckInLate(t) ==
    /\ pc[t] = "returning" /\ MutexFree
    /\ permits' = permits + 1
    /\ pc' = [pc EXCEPT ![t] = "releasing"]
    /\ UNCHANGED <<phase, tab, aborted, pool, queue, holds, attempts, result>>

\* clients.lock().push(client).
CheckIn(t) ==
    /\ pc[t] = "returning" /\ MutexFree
    /\ pool' = Append(pool, holds[t])
    /\ holds' = [holds EXCEPT ![t] = NoWorker]
    /\ pc' = [pc EXCEPT ![t] = "releasing"]
    /\ UNCHANGED <<phase, tab, aborted, permits, queue, attempts, result>>

\* Mutation: the permit is forgotten.
ReleaseForgotten(t) ==
    /\ pc[t] = "releasing"
    /\ pc' = [pc EXCEPT ![t] = "done"]
    /\ UNCHANGED <<phase, tab, aborted, pool, permits, queue, holds, attempts, result>>

\* The body returns its TaskResult and drops the permit.
Release(t) ==
    /\ pc[t] = "releasing"
    /\ permits' = permits + 1
    /\ pc' = [pc EXCEPT ![t] = "done"]
    /\ UNCHANGED <<phase, tab, aborted, pool, queue, holds, attempts, result>>

\* The closure panics: the permit goes back, the client does not.
Panic(t) ==
    /\ t \in Panicking /\ pc[t] = "running"
    /\ permits' = permits + 1
    /\ holds' = [holds EXCEPT ![t] = NoWorker]
    /\ pc' = [pc EXCEPT ![t] = "panicked"]
    /\ UNCHANGED <<phase, tab, aborted, pool, queue, attempts, result>>

\* run's future is dropped: its JoinSet asks for the abort of the tasks it still has.
Abort(t) ==
    /\ phase = "ready"
    /\ t \in (Spawned \cap Cancellable) \ aborted
    /\ ~Over(t)
    /\ aborted' = aborted \cup {t}
    /\ UNCHANGED <<phase, tab, pool, permits, tasks>>

\* The future is dropped at an await: in the queue, on the mutex, in the closure.  The
\* runtime drops that of an aborted task, unless it goes through the rest of its awaits
\* without one that is pending.
Cancel(t) ==
    /\ t \in Cancellable /\ (t \in Spawned => t \in aborted)
    /\ \/ /\ \E k \in 1 .. Len(queue) :
               /\ queue[k] = t
               /\ queue' = SubSeq(queue, 1, k - 1) \o SubSeq(queue, k + 1, Len(queue))
          /\ UNCHANGED permits
       \/ /\ pc[t] \in {"permitted", "running", "returning"}
          /\ permits' = permits + 1
          /\ UNCHANGED queue
    /\ holds' = [holds EXCEPT ![t] = NoWorker]
    /\ pc' = [pc EXCEPT ![t] = "cancelled"]
    /\ UNCHANGED <<phase, tab, aborted, pool, attempts, result>>

-----------------------------------------------------------------------------
(* Cluster::close consumes the cluster: no future of execute or run borrows *)
(* it any more.  Tasks of a run that was dropped may still be under way.    *)

CloseStarts ==
    /\ phase = "ready"
    /\ \A t \in Tasks : Started(t) => Over(t) \/ t \in aborted
    /\ phase' = "closing"
    /\ UNCHANGED <<tab, pool, permits, aborted, tasks>>

Pooled == {pool[k] : k \in 1 .. Len(pool)}

\* Page.close on each client of the Vec, one after the other; errors are ignored.
CloseTab(w) ==
    /\ phase = "closing"
    /\ w \in Pooled /\ tab[w] = "open"
    /\ tab' = [tab EXCEPT ![w] = "closed"]
    /\ UNCHANGED <<phase, pool, permits, aborted, tasks>>

\* Mutation: close stops after the first tab.
CloseEndsEarly ==
    /\ phase = "closing"
    /\ \E w \in Pooled : tab[w] = "closed"
    /\ phase' = "closed"
    /\ UNCHANGED <<tab, pool, permits, aborted, tasks>>

CloseEnds ==
    /\ phase = "closing"
    /\ \A w \in Pooled : tab[w] = "closed"
    /\ phase' = "closed"
    /\ UNCHANGED <<tab, pool, permits, aborted, tasks>>

\* The future of close is dropped, and with it the lock.
CloseDropped ==
    /\ phase = "closing"
    /\ phase' = "abandoned"
    /\ UNCHANGED <<tab, pool, permits, aborted, tasks>>

-----------------------------------------------------------------------------
Body(t) == \/ Acquire(t) \/ CheckOut(t) \/ CheckIn(t) \/ Release(t)
           \/ \E ok \in BOOLEAN : Attempt(t, ok)

Next ==
    \/ \E w \in Workers : OpenTab(w) \/ SetUpTab(w) \/ CloseTab(w)
    \/ CreationFails \/ CreationEnds \/ CloseStarts \/ CloseEnds \/ CloseDropped
    \/ \E t \in Tasks : Start(t) \/ Body(t) \/ Panic(t) \/ Abort(t) \/ Cancel(t)

Spec == Init /\ [][Next]_vars

\* The runtime polls every ready task, and every closure returns in the end, as
\* each command in it does by its timeout.  It drops a task that was asked to abort
\* once the task is pending.
Fairness == \A t \in Tasks : WF_vars(Body(t)) /\ WF_vars(t \in aborted /\ Cancel(t))

FairSpec == Spec /\ Fairness

-----------------------------------------------------------------------------
(* What the pool promises.                                                 *)

Held     == {holds[t] : t \in Tasks} \ {NoWorker}
Consumed == phase \in {"closing", "closed", "abandoned"}
Built    == phase = "ready" \/ Consumed

\* Tasks that took a client down with them.
Losers == {t \in Tasks : pc[t] \in {"panicked", "cancelled"}}

\* A tab serves one task at a time: no client is with two tasks, nor with a task
\* and in the Vec, nor twice in the Vec, whatever panics or is cancelled.
TabsAreExclusive ==
    /\ \A t, u \in Tasks : holds[t] = holds[u] /\ holds[t] # NoWorker => t = u
    /\ Pooled \cap Held = {}
    /\ \A j, k \in 1 .. Len(pool) : pool[j] = pool[k] => j = k

\* Permits are neither lost nor invented on any way out of the body, the panics
\* included: the semaphore always admits as many tasks as the cluster was built for.
PermitsAreConserved ==
    Built => permits + Cardinality({t \in Tasks : HasPermit(t)}) = Cardinality(Workers)

\* A permit is worth a client unless a task that panicked or was dropped took one
\* away: expect("worker missing") needs such a task, and each takes one at most.
WorkersGoMissingOnlyWithTheirTask ==
    /\ \A t \in Tasks : pc[t] = "missing" => Losers # {}
    /\ Built => Len(pool) + Cardinality({t \in Tasks : holds[t] # NoWorker})
                + Cardinality(Losers) >= Cardinality(Workers)

\* A task reports failure after all its attempts and not before.
FailuresAreFinal ==
    \A t \in Tasks : result[t] = "err" => attempts[t] = Retries + 1

\* close accounts for every tab it leaves open, however long the tasks of a dropped run
\* go on beside it: each is the one client of a task that panicked or was dropped or
\* aborted, and with none of these every tab is closed.
CloseReachesEveryTab ==
    phase = "closed" =>
        Cardinality({w \in Workers : tab[w] # "closed"}) <= Cardinality(Losers \cup aborted)

\* Cluster::close: "Close every worker tab."
EveryWorkerTabIsClosed == phase = "closed" => \A w \in Workers : tab[w] = "closed"

-----------------------------------------------------------------------------
(* The inductive invariant behind them, proved in Cluster_proofs.          *)

Holders == {t \in Tasks : holds[t] # NoWorker}

\* No task runs before the cluster is built, and none but aborted ones once close has begun.
QuietOutside ==
    /\ ~Built => queue = << >> /\ aborted = {} /\ \A t \in Tasks : pc[t] = "idle"
    /\ Consumed => \A t \in Tasks : Started(t) => Over(t) \/ t \in aborted

\* A client is with a task while the task runs its closure, and only then.
HoldersRun ==
    /\ \A t \in Tasks : holds[t] # NoWorker <=> pc[t] \in {"running", "returning"}
    /\ Losers \subseteq Panicking \cup Cancellable

\* The queue holds the waiting tasks, each of them once.
QueueIsFaithful ==
    /\ \A t \in Tasks : pc[t] = "queued" <=> \E k \in 1 .. Len(queue) : queue[k] = t
    /\ \A j, k \in 1 .. Len(queue) : queue[j] = queue[k] => j = k

\* A task that runs has an attempt left and no result yet.
AttemptsLeft ==
    \A t \in Tasks : pc[t] \in {"idle", "queued", "permitted", "running"} =>
        attempts[t] <= Retries /\ result[t] = "none"

\* new pushes each tab it has set up, once.
PoolIsOpen ==
    phase = "creating" =>
        /\ \A w \in Pooled : tab[w] = "open"
        /\ Len(pool) = Cardinality({w \in Workers : tab[w] = "open"})

CInv ==
    /\ TypeOK
    /\ QuietOutside
    /\ HoldersRun
    /\ QueueIsFaithful
    /\ AttemptsLeft
    /\ PoolIsOpen
    /\ TabsAreExclusive
    /\ PermitsAreConserved
    /\ WorkersGoMissingOnlyWithTheirTask
    /\ FailuresAreFinal
    /\ CloseReachesEveryTab

-----------------------------------------------------------------------------
(* What must eventually happen, under Fairness.                            *)

\* Every task that starts ends, whoever fails, panics or is dropped before it.
StartedTasksEnd == \A t \in Tasks : Started(t) ~> Over(t)

\* Its safety core: no task waits for nobody. While one is under way, some task has a
\* permit, with which it can go on or be dropped, or the first of the queue can have one.
SomeTaskCanGoOn ==
    (\E t \in Tasks : Started(t) /\ ~Over(t)) =>
        (\E u \in Tasks : HasPermit(u)) \/ (queue # << >> /\ permits > 0)

\* The other half: no task goes on for ever, as each of its steps leaves it fewer stages
\* or attempts, whatever its closure does and whoever else moves.
Stages == [idle |-> 6, queued |-> 5, permitted |-> 4, running |-> 3, returning |-> 2,
           releasing |-> 1, done |-> 0, missing |-> 0, panicked |-> 0, cancelled |-> 0]
Remaining(t) == Stages[pc[t]] + Retries + 1 - attempts[t]
TasksUseThemselvesUp ==
    [][\A t \in Tasks : \/ pc'[t] = pc[t] /\ attempts'[t] = attempts[t]
                        \/ 0 <= Remaining(t)' /\ Remaining(t)' < Remaining(t)]_vars

\* execute "blocks until a worker is free": it never finds the Vec empty.
NobodyFindsAWorkerMissing == \A t \in Tasks : pc[t] # "missing"

-----------------------------------------------------------------------------
(* The lease of workers that the cluster implements.                       *)

Stage == CASE phase = "creating" -> "opening"
           [] phase = "failed"   -> "failed"
           [] OTHER              -> "open"

ClientState(t) == CASE pc[t] = "idle"                      -> "idle"
                    [] pc[t] \in {"queued", "permitted"}   -> "asking"
                    [] pc[t] \in {"running", "returning"}  -> "leased"
                    [] pc[t] \in {"releasing", "done"}     -> "served"
                    [] pc[t] \in {"panicked", "cancelled"} -> "gone"
                    [] pc[t] = "missing"                   -> "refused"

Pool == INSTANCE WorkerPool WITH
            Clients <- Tasks,
            stage   <- Stage,
            free    <- Pooled,
            closed  <- {w \in Workers : tab[w] = "closed"},
            client  <- [t \in Tasks |-> ClientState(t)],
            lease   <- holds

\* A client is handed to one task and comes back, or is lost with the task; a task
\* is refused only once a client is lost; and a tab is closed while no task has it.
ImplementsWorkerPool == Pool!Spec
=============================================================================
