---------------------------- MODULE Cluster_proofs ----------------------------
(***************************************************************************)
(* Proofs about Cluster, for every pool size, set of tasks and retries:    *)
(* its safety, and that it implements WorkerPool.                          *)
(***************************************************************************)
EXTENDS Cluster, QueueLemmas, FiniteSetTheorems, TLAPS

USE DEF tasks, vars

-----------------------------------------------------------------------------
(* Counting tasks.                                                         *)

Permitted == {t \in Tasks : HasPermit(t)}

LEMMA Counts ==
  ASSUME NEW S \in SUBSET Tasks
  PROVE  IsFiniteSet(S) /\ Cardinality(S) \in Nat
  BY ClusterAssumption, FS_Subset, FS_CardinalityType

LEMMA PoolSize == Cardinality(Workers) \in Nat \ {0}
<1>1. Cardinality(Workers) \in Nat /\ (Cardinality(Workers) = 0 <=> Workers = {})
  BY ClusterAssumption, FS_CardinalityType, FS_EmptySet
<1> QED
  BY <1>1, ClusterAssumption

\* A set of tasks that gains or loses one.
LEMMA CountAdd ==
  ASSUME NEW S \in SUBSET Tasks, NEW t \in Tasks \ S
  PROVE  Cardinality(S \cup {t}) = Cardinality(S) + 1
  BY Counts, FS_AddElement

LEMMA CountRemove ==
  ASSUME NEW S \in SUBSET Tasks, NEW t \in S
  PROVE  Cardinality(S \ {t}) = Cardinality(S) - 1
  BY Counts, FS_RemoveElement

-----------------------------------------------------------------------------
(* The inductive invariant.                                                *)

LEMMA InitCInv == Init => CInv
<1> SUFFICES ASSUME Init PROVE CInv
  OBVIOUS
<1>1. TypeOK
  BY PoolSize, ClusterAssumption DEF Init, TypeOK, States
<1>2. /\ QuietOutside /\ HoldersRun /\ QueueIsFaithful /\ AttemptsLeft
      /\ FailuresAreFinal /\ TabsAreExclusive
  BY ClusterAssumption
     DEF Init, QuietOutside, HoldersRun, QueueIsFaithful, AttemptsLeft, Built, Consumed, Started,
         FailuresAreFinal, TabsAreExclusive, Losers, Pooled, Held
<1>3. PoolIsOpen
  <2>1. {w \in Workers : tab[w] = "open"} = {} /\ pool = << >> /\ Pooled = {}
    BY DEF Init, Pooled
  <2> QED
    BY <2>1, FS_EmptySet DEF PoolIsOpen
<1>4. PermitsAreConserved /\ WorkersGoMissingOnlyWithTheirTask /\ CloseReachesEveryTab
  BY DEF Init, PermitsAreConserved, WorkersGoMissingOnlyWithTheirTask, CloseReachesEveryTab,
         Built, Consumed
<1> QED
  BY <1>1, <1>2, <1>3, <1>4 DEF CInv

LEMMA PooledWorkers ==
  ASSUME TypeOK
  PROVE  Pooled \subseteq Workers /\ Len(pool) \in Nat
BY DEF TypeOK, Pooled

\* The queue as a set.
LEMMA QueueElements ==
  ASSUME CInv
  PROVE  /\ queue \in Seq(Tasks) /\ HasNoDuplicates(queue)
         /\ Elements(queue) = {u \in Tasks : pc[u] = "queued"}
<1>1. queue \in Seq(Tasks) /\ QueueIsFaithful
  BY DEF CInv, TypeOK
<1>2. \A k \in 1 .. Len(queue) : queue[k] \in Tasks
  BY <1>1
<1> QED
  BY <1>1, <1>2 DEF QueueIsFaithful, Elements, HasNoDuplicates

\* A frame for the steps that leave the tasks alone.
LEMMA TasksUnchanged ==
  ASSUME CInv, UNCHANGED tasks
  PROVE  /\ HoldersRun' /\ QueueIsFaithful' /\ AttemptsLeft' /\ FailuresAreFinal'
         /\ Held' = Held /\ Losers' = Losers /\ Permitted' = Permitted /\ Holders' = Holders
         /\ \A t \in Tasks : Started(t)' = Started(t) /\ Over(t)' = Over(t)
BY DEF CInv, HoldersRun, QueueIsFaithful, AttemptsLeft, FailuresAreFinal, Held, Losers,
       Permitted, Holders, HasPermit, Started, Over

LEMMA OpenTabCInv ==
  ASSUME CInv, NEW w \in Workers, OpenTab(w)
  PROVE  CInv'
<1>1. TypeOK'
  BY DEF CInv, TypeOK, OpenTab
<1>2. UNCHANGED <<aborted, tasks>> /\ pool' = pool /\ permits' = permits /\ phase = "creating"
      /\ phase' = "creating" /\ Pooled' = Pooled
  BY DEF OpenTab, Pooled
<1>3. {v \in Workers : tab'[v] = "open"} = {v \in Workers : tab[v] = "open"}
  BY DEF CInv, TypeOK, OpenTab
<1>4. PoolIsOpen'
  <2>1. \A v \in Pooled : tab'[v] = "open"
    BY <1>2, PooledWorkers DEF CInv, TypeOK, PoolIsOpen, OpenTab
  <2> QED
    BY <1>2, <1>3, <2>1 DEF CInv, PoolIsOpen
<1>5. QuietOutside' /\ TabsAreExclusive' /\ PermitsAreConserved'
      /\ WorkersGoMissingOnlyWithTheirTask' /\ CloseReachesEveryTab'
  BY <1>2, TasksUnchanged
     DEF CInv, QuietOutside, TabsAreExclusive, PermitsAreConserved, Started, Over,
         WorkersGoMissingOnlyWithTheirTask, CloseReachesEveryTab, Built, Consumed, Held, Losers
<1> QED
  BY <1>1, <1>2, <1>4, <1>5, TasksUnchanged DEF CInv

LEMMA SetUpTabCInv ==
  ASSUME CInv, NEW w \in Workers, SetUpTab(w)
  PROVE  CInv'
<1>1. TypeOK'
  BY DEF CInv, TypeOK, SetUpTab
<1>2. UNCHANGED <<aborted, tasks>> /\ pool' = Append(pool, w) /\ permits' = permits
      /\ phase = "creating" /\ phase' = "creating"
  BY DEF SetUpTab
<1>3. w \notin Pooled
  BY DEF CInv, TypeOK, PoolIsOpen, SetUpTab
<1>4. Pooled' = Pooled \cup {w} /\ HasNoDuplicates(pool') /\ Len(pool') = Len(pool) + 1
      /\ Len(pool) \in Nat
  <2>1. pool \in Seq(Workers) /\ Pooled = Elements(pool) /\ HasNoDuplicates(pool)
    BY DEF CInv, TypeOK, Pooled, TabsAreExclusive, Elements, HasNoDuplicates
  <2>2. Elements(pool') = Elements(pool) \cup {w} /\ HasNoDuplicates(pool')
    BY <1>2, <1>3, <2>1, AppendElements
  <2>3. Pooled' = Elements(pool')
    BY DEF Pooled, Elements
  <2> QED
    BY <1>2, <2>1, <2>2, <2>3
<1>5. Held = {}
  BY <1>2 DEF CInv, QuietOutside, HoldersRun, Built, Consumed, Held
<1>6. PoolIsOpen'
  <2>1. \A v \in Pooled' : tab'[v] = "open"
    BY <1>4, PooledWorkers DEF CInv, TypeOK, PoolIsOpen, SetUpTab
  <2> DEFINE O == {v \in Workers : tab[v] = "open"}
  <2>2. {v \in Workers : tab'[v] = "open"} = O \cup {w} /\ w \notin O
    BY DEF CInv, TypeOK, SetUpTab
  <2>3. Cardinality(O \cup {w}) = Cardinality(O) + 1
    BY <2>2, ClusterAssumption, FS_Subset, FS_AddElement
  <2> QED
    BY <1>2, <1>4, <2>1, <2>2, <2>3 DEF CInv, PoolIsOpen
<1>7. QuietOutside' /\ TabsAreExclusive' /\ PermitsAreConserved'
      /\ WorkersGoMissingOnlyWithTheirTask' /\ CloseReachesEveryTab'
  <2>1. /\ QuietOutside' /\ PermitsAreConserved' /\ WorkersGoMissingOnlyWithTheirTask'
        /\ CloseReachesEveryTab'
    BY <1>2, TasksUnchanged
       DEF CInv, QuietOutside, PermitsAreConserved, Started, Over, CloseReachesEveryTab,
           WorkersGoMissingOnlyWithTheirTask, Built, Consumed, Losers
  <2>2. TabsAreExclusive'
    BY <1>2, <1>4, <1>5, TasksUnchanged
       DEF CInv, TabsAreExclusive, Elements, HasNoDuplicates
  <2> QED
    BY <2>1, <2>2
<1> QED
  BY <1>1, <1>2, <1>6, <1>7, TasksUnchanged DEF CInv

LEMMA CreationFailsCInv ==
  ASSUME CInv, CreationFails
  PROVE  CInv'
<1>1. TypeOK'
  BY DEF CInv, TypeOK, CreationFails
<1>2. UNCHANGED <<aborted, tasks>> /\ pool' = << >> /\ permits' = permits
      /\ phase = "creating" /\ phase' = "failed" /\ Pooled' = {}
  BY DEF CreationFails, Pooled
<1>3. QuietOutside' /\ TabsAreExclusive' /\ PermitsAreConserved' /\ PoolIsOpen'
      /\ WorkersGoMissingOnlyWithTheirTask' /\ CloseReachesEveryTab'
  BY <1>2, TasksUnchanged
     DEF CInv, QuietOutside, TabsAreExclusive, PermitsAreConserved, Started, Over,
         WorkersGoMissingOnlyWithTheirTask, CloseReachesEveryTab, Built, Consumed, Held, Losers,
         PoolIsOpen
<1> QED
  BY <1>1, <1>2, <1>3, TasksUnchanged DEF CInv

LEMMA CreationEndsCInv ==
  ASSUME CInv, CreationEnds
  PROVE  CInv'
<1>1. TypeOK'
  BY PoolSize DEF CInv, TypeOK, CreationEnds
<1>2. UNCHANGED <<aborted, tasks>> /\ pool' = pool /\ permits' = Cardinality(Workers)
      /\ phase = "creating" /\ phase' = "ready" /\ Pooled' = Pooled
  BY DEF CreationEnds, Pooled
<1>3. \A t \in Tasks : pc[t] = "idle"
  BY <1>2 DEF CInv, QuietOutside, Built, Consumed
<1>4. Permitted = {} /\ Holders = {} /\ Losers = {} /\ Cardinality({}) = 0
  BY <1>3, FS_EmptySet DEF Permitted, HasPermit, Holders, Losers, CInv, HoldersRun
<1>5. Len(pool) = Cardinality(Workers)
  <2>1. {w \in Workers : tab[w] = "open"} = Workers
    BY DEF CreationEnds
  <2> QED
    BY <1>2, <2>1 DEF CInv, PoolIsOpen
<1>6. PermitsAreConserved'
  BY <1>2, <1>4, PoolSize, TasksUnchanged DEF PermitsAreConserved, Permitted
<1>7. WorkersGoMissingOnlyWithTheirTask'
  <2>1. \A t \in Tasks : pc'[t] # "missing"
    BY <1>2, <1>3 DEF tasks
  <2>2. Len(pool') + Cardinality(Holders') + Cardinality(Losers') >= Cardinality(Workers)
    <3>1. Holders' = {} /\ Losers' = {}
      BY <1>2, <1>4, TasksUnchanged
    <3>2. Cardinality(Holders') = 0 /\ Cardinality(Losers') = 0
      BY <3>1, FS_EmptySet
    <3> QED
      BY <1>2, <1>5, <3>2, PoolSize
  <2> QED
    BY <2>1, <2>2 DEF WorkersGoMissingOnlyWithTheirTask, Holders
<1>8. QuietOutside' /\ TabsAreExclusive' /\ PoolIsOpen' /\ CloseReachesEveryTab'
  BY <1>2, TasksUnchanged
     DEF CInv, QuietOutside, TabsAreExclusive, CloseReachesEveryTab, Built, Consumed, Held,
         PoolIsOpen, tasks
<1> QED
  BY <1>1, <1>2, <1>6, <1>7, <1>8, TasksUnchanged DEF CInv

\* The tasks with a permit are no more than the permits there are.
LEMMA Budget ==
  ASSUME CInv, Built
  PROVE  /\ permits + Cardinality(Permitted) = Cardinality(Workers)
         /\ permits \in Nat /\ Cardinality(Permitted) \in Nat
         /\ Len(pool) + Cardinality(Holders) + Cardinality(Losers) >= Cardinality(Workers)
         /\ Cardinality(Holders) \in Nat /\ Cardinality(Losers) \in Nat
<1>1. Permitted \in SUBSET Tasks /\ Holders \in SUBSET Tasks /\ Losers \in SUBSET Tasks
  BY DEF Permitted, Holders, Losers
<1>2. permits \in Nat
  BY PoolSize DEF CInv, TypeOK
<1> QED
  BY <1>1, <1>2, Counts
     DEF CInv, PermitsAreConserved, Permitted, Built, Holders,
         WorkersGoMissingOnlyWithTheirTask

\* The Vec holds as many clients as it is long.
LEMMA PoolCount ==
  ASSUME CInv
  PROVE  IsFiniteSet(Pooled) /\ Cardinality(Pooled) = Len(pool)
<1> DEFINE n == Len(pool)
<1>1. pool \in Seq(Workers) /\ n \in Nat /\ Pooled \subseteq Workers
  BY PooledWorkers DEF CInv, TypeOK
<1>2. IsFiniteSet(1 .. n) /\ Cardinality(1 .. n) = n
  BY <1>1, FS_Interval
<1>3. pool \in Surjection(1 .. n, Pooled) /\ pool \in Injection(1 .. n, Pooled)
  <2>1. pool \in [1 .. n -> Pooled]
    BY <1>1 DEF Pooled
  <2>2. \A j, k \in 1 .. n : pool[j] = pool[k] => j = k
    BY DEF CInv, TabsAreExclusive
  <2>3. \A w \in Pooled : \E k \in 1 .. n : pool[k] = w
    BY DEF Pooled
  <2> QED
    BY <2>1, <2>2, <2>3 DEF Injection, Surjection, IsInjective
<1> QED
  BY <1>2, <1>3, FS_Surjection

-----------------------------------------------------------------------------
(* Aborting a run, and closing.                                            *)

\* When close has gone through the Vec, each tab still open is the one client of a task
\* that took it away, or of an aborted one that has it still.
LEMMA CloseEndsAccountsForTabs ==
  ASSUME CInv, CloseEnds
  PROVE  Cardinality({w \in Workers : tab[w] # "closed"}) <= Cardinality(Losers \cup aborted)
<1> DEFINE open == {w \in Workers : tab[w] # "closed"}
<1>1. phase = "closing" /\ \A w \in Pooled : tab[w] = "closed"
  BY DEF CloseEnds
<1>2. open \subseteq Workers \ Pooled
  BY <1>1
<1>3. Cardinality(open) <= Cardinality(Workers) - Len(pool)
  <2>1. Pooled \subseteq Workers /\ Workers \cap Pooled = Pooled
    BY PooledWorkers DEF CInv
  <2>2. /\ IsFiniteSet(Workers \ Pooled)
        /\ Cardinality(Workers \ Pooled) = Cardinality(Workers) - Len(pool)
    <3>1. /\ IsFiniteSet(Workers \ Pooled)
          /\ Cardinality(Workers \ Pooled)
                = Cardinality(Workers) - Cardinality(Workers \cap Pooled)
      BY ClusterAssumption, FS_Difference
    <3> QED
      BY <2>1, <3>1, PoolCount
  <2> QED
    BY <1>2, <2>2, FS_Subset
<1>4. Holders \in SUBSET aborted /\ Losers \in SUBSET Tasks /\ aborted \in SUBSET Tasks
  <2>1. aborted \subseteq Tasks
    BY ClusterAssumption DEF CInv, TypeOK
  <2>2. \A t \in Holders : Started(t) /\ ~Over(t)
    BY DEF CInv, HoldersRun, Holders, Started, Over
  <2> QED
    BY <1>1, <2>1, <2>2 DEF CInv, QuietOutside, Consumed, Holders, Losers
<1>5. Holders \cap Losers = {}
  BY DEF CInv, HoldersRun, Holders, Losers
<1>6. Cardinality(Holders \cup Losers) = Cardinality(Holders) + Cardinality(Losers)
  <2>1. /\ IsFiniteSet(Holders) /\ IsFiniteSet(Losers)
        /\ Cardinality(Holders) \in Nat /\ Cardinality(Losers) \in Nat
    <3>1. Holders \in SUBSET Tasks
      BY DEF Holders
    <3> QED
      BY <1>4, <3>1, Counts
  <2>2. Cardinality(Holders \cup Losers)
          = Cardinality(Holders) + Cardinality(Losers) - Cardinality(Holders \cap Losers)
    BY <2>1, FS_Union
  <2>3. Cardinality(Holders \cap Losers) = 0
    BY <1>5, FS_EmptySet
  <2> QED
    BY <2>1, <2>2, <2>3
<1>7. Cardinality(Holders \cup Losers) <= Cardinality(Losers \cup aborted)
  <2>1. Losers \cup aborted \in SUBSET Tasks /\ Holders \cup Losers \in SUBSET (Losers \cup aborted)
    BY <1>4
  <2> QED
    BY <2>1, Counts, FS_Subset
<1>8. /\ Cardinality(open) \in Nat /\ Cardinality(Losers \cup aborted) \in Nat
      /\ Len(pool) \in Nat
  BY <1>4, ClusterAssumption, PooledWorkers, Counts, FS_Subset, FS_CardinalityType DEF CInv
<1>9. Built
  BY <1>1 DEF Built, Consumed
<1> QED
  BY <1>3, <1>6, <1>7, <1>8, <1>9, Budget, PoolSize

\* The steps that leave the tasks and the Vec alone.
LEMMA ClosingCInv ==
  ASSUME CInv, \/ CloseStarts \/ CloseEnds \/ CloseDropped
               \/ \E w \in Workers : CloseTab(w)
               \/ \E t \in Tasks : Abort(t)
  PROVE  CInv'
<1>1. /\ UNCHANGED tasks /\ pool' = pool /\ permits' = permits /\ Pooled' = Pooled
      /\ Built /\ Built' /\ phase' # "creating" /\ aborted \subseteq aborted'
  BY DEF CloseStarts, CloseEnds, CloseDropped, CloseTab, Abort, Pooled, Built, Consumed
<1>2. TypeOK'
  BY DEF CInv, TypeOK, CloseStarts, CloseEnds, CloseDropped, CloseTab, Abort, tasks
<1>3. QuietOutside'
  <2>1. Consumed' => \A t \in Tasks : Started(t) => Over(t) \/ t \in aborted'
    BY <1>1 DEF CInv, QuietOutside, CloseStarts, CloseEnds, CloseDropped, CloseTab, Abort, Consumed
  <2> QED
    BY <1>1, <2>1, TasksUnchanged DEF QuietOutside
<1>4. PoolIsOpen' /\ TabsAreExclusive'
  BY <1>1, TasksUnchanged DEF CInv, PoolIsOpen, TabsAreExclusive, Built, Consumed, tasks
<1>5. PermitsAreConserved' /\ WorkersGoMissingOnlyWithTheirTask'
  <2>1. PermitsAreConserved'
    BY <1>1, TasksUnchanged DEF CInv, PermitsAreConserved, Permitted
  <2>2. WorkersGoMissingOnlyWithTheirTask'
    BY <1>1, TasksUnchanged DEF CInv, WorkersGoMissingOnlyWithTheirTask, Holders, tasks
  <2> QED
    BY <2>1, <2>2
<1>6. CloseReachesEveryTab'
  <2>1. CASE CloseEnds
    <3>1. tab' = tab /\ aborted' = aborted
      BY <2>1 DEF CloseEnds
    <3> QED
      BY <2>1, <3>1, TasksUnchanged, CloseEndsAccountsForTabs, <1>1 DEF CloseReachesEveryTab
  <2>2. CASE ~CloseEnds
    <3>1. phase' # "closed"
      BY <2>2 DEF CloseStarts, CloseDropped, CloseTab, Abort
    <3> QED
      BY <3>1 DEF CloseReachesEveryTab
  <2> QED
    BY <2>1, <2>2
<1> QED
  BY <1>1, <1>2, <1>3, <1>4, <1>5, <1>6, TasksUnchanged DEF CInv

-----------------------------------------------------------------------------
(* The steps of a task.                                                    *)

\* A task that is in the body finds the cluster built, and consumed only if it is aborted.
LEMMA Busy ==
  ASSUME CInv, NEW t \in Tasks, Started(t), ~Over(t)
  PROVE  Built /\ (Consumed => t \in aborted)
BY DEF CInv, TypeOK, QuietOutside, Built, Consumed, Started

\* While a task moves only the parts of the invariant about tasks and clients can be
\* disturbed.
LEMMA BodyFrame ==
  ASSUME CInv, Built, UNCHANGED <<phase, tab, aborted>>, NEW t \in Tasks,
         Consumed => t \in aborted, NEW s \in States, pc' \in {pc, [pc EXCEPT ![t] = s]},
         Losers \subseteq Losers'
  PROVE  QuietOutside' /\ PoolIsOpen' /\ Built' /\ CloseReachesEveryTab'
<1>1. Built' /\ Consumed' = Consumed /\ phase' # "creating"
  BY DEF Built, Consumed
<1>2. QuietOutside'
  <2>1. \A u \in Tasks : u # t => pc'[u] = pc[u]
    BY DEF CInv, TypeOK
  <2>2. Consumed => \A u \in Tasks : Started(u)' => Over(u)' \/ u \in aborted
    BY <2>1 DEF CInv, QuietOutside, Started, Over
  <2> QED
    BY <1>1, <2>2 DEF QuietOutside
<1>3. CloseReachesEveryTab'
  <2> DEFINE open == {w \in Workers : tab[w] # "closed"}
  <2> SUFFICES ASSUME phase = "closed"
               PROVE  Cardinality(open) <= Cardinality(Losers' \cup aborted)
    BY DEF CloseReachesEveryTab
  <2>1. /\ Losers' \cup aborted \in SUBSET Tasks
        /\ Losers \cup aborted \in SUBSET (Losers' \cup aborted)
    BY ClusterAssumption DEF CInv, TypeOK, Losers
  <2>2. /\ Cardinality(Losers \cup aborted) <= Cardinality(Losers' \cup aborted)
        /\ Cardinality(Losers \cup aborted) \in Nat /\ Cardinality(Losers' \cup aborted) \in Nat
    BY <2>1, Counts, FS_Subset
  <2>3. Cardinality(open) <= Cardinality(Losers \cup aborted)
    BY DEF CInv, CloseReachesEveryTab
  <2>4. Cardinality(open) \in Nat
    BY ClusterAssumption, FS_Subset, FS_CardinalityType
  <2> QED
    BY <2>2, <2>3, <2>4
<1> QED
  BY <1>1, <1>2, <1>3 DEF PoolIsOpen

\* What is left to show of the two counting invariants once the sets are known.
LEMMA Recount ==
  ASSUME CInv, Built, Built',
         permits' + Cardinality(Permitted') = Cardinality(Workers),
         Len(pool') + Cardinality(Holders') + Cardinality(Losers') >= Cardinality(Workers),
         Losers \subseteq Losers',
         \A u \in Tasks : pc'[u] = "missing" => pc[u] = "missing" \/ Losers # {}
  PROVE  PermitsAreConserved' /\ WorkersGoMissingOnlyWithTheirTask'
<1>1. PermitsAreConserved'
  BY DEF PermitsAreConserved, Permitted
<1>2. \A u \in Tasks : pc'[u] = "missing" => Losers' # {}
  BY DEF CInv, WorkersGoMissingOnlyWithTheirTask
<1>3. WorkersGoMissingOnlyWithTheirTask'
  BY <1>2 DEF WorkersGoMissingOnlyWithTheirTask, Holders
<1> QED
  BY <1>1, <1>3

\* A task that neither enters nor leaves the queue leaves it as it is.
LEMMA QueueKept ==
  ASSUME CInv, queue' = queue, NEW t \in Tasks, pc[t] # "queued",
         NEW s \in States \ {"queued"}, pc' = [pc EXCEPT ![t] = s]
  PROVE  QueueIsFaithful'
<1>1. \A u \in Tasks : pc'[u] = "queued" <=> pc[u] = "queued"
  BY DEF CInv, TypeOK
<1> QED
  BY <1>1 DEF CInv, QueueIsFaithful

LEMMA StartCInv ==
  ASSUME CInv, NEW t \in Tasks, Start(t)
  PROVE  CInv'
<1>1. /\ UNCHANGED <<phase, tab, aborted>> /\ pool' = pool /\ permits' = permits
      /\ pc[t] = "idle" /\ pc' = [pc EXCEPT ![t] = "queued"] /\ Pooled' = Pooled
      /\ holds' = holds /\ queue' = Append(queue, t) /\ attempts' = attempts
      /\ result' = result
  BY DEF Start, Pooled
<1>0. Built /\ (Consumed => t \in aborted)
  BY DEF Start, CInv, QuietOutside, Built, Consumed
<1>2. TypeOK'
  BY DEF CInv, TypeOK, Start, States
<1>3. HoldersRun'
  BY <1>1 DEF CInv, TypeOK, HoldersRun, Losers
<1>4. QueueIsFaithful'
  <2>1. Elements(queue') = Elements(queue) \cup {t} /\ HasNoDuplicates(queue')
    BY <1>1, QueueElements, AppendElements
  <2>2. \A u \in Tasks : pc'[u] = "queued" <=> u \in Elements(queue')
    BY <1>1, <2>1, QueueElements DEF CInv, TypeOK
  <2> QED
    BY <2>1, <2>2 DEF QueueIsFaithful, Elements, HasNoDuplicates
<1>5. AttemptsLeft' /\ FailuresAreFinal'
  BY <1>1 DEF CInv, TypeOK, AttemptsLeft, FailuresAreFinal
<1>6. TabsAreExclusive'
  BY <1>1 DEF CInv, TabsAreExclusive, Held
<1>7. Permitted' = Permitted /\ Holders' = Holders /\ Losers' = Losers
  BY <1>1 DEF CInv, TypeOK, Permitted, HasPermit, Holders, Losers
<1>8. \A u \in Tasks : pc'[u] = "missing" => pc[u] = "missing"
  BY <1>1 DEF CInv, TypeOK
<1>9. QuietOutside' /\ PoolIsOpen' /\ Built' /\ CloseReachesEveryTab'
  BY <1>1, <1>7, <1>0, BodyFrame DEF States
<1> QED
  BY <1>1, <1>2, <1>3, <1>4, <1>5, <1>6, <1>7, <1>8, Budget, Recount, <1>9, <1>0 DEF CInv

LEMMA AcquireCInv ==
  ASSUME CInv, NEW t \in Tasks, Acquire(t)
  PROVE  CInv'
<1>1. /\ queue \in Seq(Tasks) /\ queue # << >> /\ t = Head(queue) /\ pc[t] = "queued"
  <2>1. queue \in Seq(Tasks) /\ queue # << >> /\ t = Head(queue)
    BY DEF CInv, TypeOK, Acquire
  <2> QED
    BY <2>1, QueueElements, TailElements
<1>2. Built /\ (Consumed => t \in aborted)
  BY <1>1, Busy DEF Started, Over
<1>3. /\ UNCHANGED <<phase, tab, aborted>> /\ pool' = pool /\ Pooled' = Pooled
      /\ permits > 0 /\ permits' = permits - 1
      /\ pc' = [pc EXCEPT ![t] = "permitted"]
      /\ holds' = holds /\ queue' = Tail(queue) /\ attempts' = attempts
      /\ result' = result
  BY <1>2 DEF Acquire, Pooled
<1>4. TypeOK'
  <2>1. permits' \in 0 .. Cardinality(Workers) /\ queue' \in Seq(Tasks)
    BY <1>1, <1>3, PoolSize DEF CInv, TypeOK
  <2> QED
    BY <2>1 DEF CInv, TypeOK, Acquire, States
<1>5. HoldersRun'
  BY <1>1, <1>3 DEF CInv, TypeOK, HoldersRun, Losers
<1>6. QueueIsFaithful'
  <2>1. /\ Elements(queue) = Elements(queue') \cup {t} /\ HasNoDuplicates(queue')
        /\ t \notin Elements(queue')
    BY <1>1, <1>3, QueueElements, TailElements
  <2>2. \A u \in Tasks : pc'[u] = "queued" <=> u \in Elements(queue')
    BY <1>3, <2>1, QueueElements DEF CInv, TypeOK
  <2> QED
    BY <2>1, <2>2 DEF QueueIsFaithful, Elements, HasNoDuplicates
<1>7. AttemptsLeft' /\ FailuresAreFinal'
  BY <1>1, <1>3 DEF CInv, TypeOK, AttemptsLeft, FailuresAreFinal
<1>8. TabsAreExclusive'
  BY <1>3 DEF CInv, TabsAreExclusive, Held
<1>9. /\ Permitted' = Permitted \cup {t} /\ t \notin Permitted /\ Permitted \in SUBSET Tasks
      /\ Holders' = Holders /\ Losers' = Losers
      /\ \A u \in Tasks : pc'[u] = "missing" => pc[u] = "missing"
  BY <1>1, <1>3 DEF CInv, TypeOK, Permitted, HasPermit, Holders, Losers
<1>10. Cardinality(Permitted') = Cardinality(Permitted) + 1
  BY <1>9, CountAdd
<1>11. permits' + Cardinality(Permitted') = Cardinality(Workers)
  BY <1>2, <1>3, <1>10, Budget, PoolSize
<1>12. QuietOutside' /\ PoolIsOpen' /\ Built' /\ CloseReachesEveryTab'
  BY <1>2, <1>3, <1>9, BodyFrame DEF States
<1> QED
  BY <1>2, <1>3, <1>4, <1>5, <1>6, <1>7, <1>8, <1>9, <1>11, Budget, Recount, <1>12
     DEF CInv

\* Every holder and every permitted task other than those are accounted for, so a
\* permit with nothing in the Vec means that some task took a client away.
LEMMA EmptyPoolHasLosers ==
  ASSUME CInv, NEW t \in Tasks, pc[t] = "permitted", pool = << >>
  PROVE  Losers # {}
<1>1. Built
  BY Busy DEF Started, Over
<1>2. Holders \in SUBSET (Permitted \ {t}) /\ t \in Permitted /\ Permitted \in SUBSET Tasks
  BY DEF CInv, HoldersRun, Holders, Permitted, HasPermit
<1>3. Cardinality(Permitted \ {t}) = Cardinality(Permitted) - 1
  BY <1>2, CountRemove
<1>4. Cardinality(Holders) <= Cardinality(Permitted \ {t})
  BY <1>2, Counts, FS_Subset
<1>5. Len(pool) = 0 /\ Cardinality({}) = 0
  BY FS_EmptySet
<1>6. ASSUME Losers = {} PROVE FALSE
  <2>1. Cardinality(Losers) = 0
    BY <1>5, <1>6
  <2> QED
    BY <1>1, <1>3, <1>4, <1>5, <2>1, Budget, PoolSize
<1> QED
  BY <1>6

LEMMA CheckOutCInv ==
  ASSUME CInv, NEW t \in Tasks, CheckOut(t)
  PROVE  CInv'
<1>1. pc[t] = "permitted"
  BY DEF CheckOut
<1>2. Built /\ (Consumed => t \in aborted)
  BY <1>1, Busy DEF Started, Over
<1>3. UNCHANGED <<phase, tab, aborted>> /\ queue' = queue /\ attempts' = attempts /\ result' = result
  BY <1>2 DEF CheckOut
<1>4. holds[t] = NoWorker
  BY <1>1, ClusterAssumption DEF CInv, HoldersRun, TypeOK
<1>5. QueueIsFaithful' /\ AttemptsLeft' /\ FailuresAreFinal'
  <2>1. PICK s \in {"running", "missing"} : pc' = [pc EXCEPT ![t] = s]
    BY DEF CheckOut
  <2>2. QueueIsFaithful'
    BY <1>1, <1>3, <2>1, QueueKept DEF States
  <2>3. AttemptsLeft' /\ FailuresAreFinal'
    BY <1>1, <1>3, <2>1 DEF CInv, TypeOK, AttemptsLeft, FailuresAreFinal
  <2> QED
    BY <2>2, <2>3
<1>6. CASE pool # << >>
  <2>1. /\ pc' = [pc EXCEPT ![t] = "running"] /\ permits' = permits
        /\ holds' = [holds EXCEPT ![t] = pool[Len(pool)]]
        /\ pool' = SubSeq(pool, 1, Len(pool) - 1)
    BY <1>6 DEF CheckOut
  <2> DEFINE w == pool[Len(pool)]
  <2>2. pool \in Seq(Workers) /\ HasNoDuplicates(pool) /\ Pooled = Elements(pool)
    BY DEF CInv, TypeOK, TabsAreExclusive, HasNoDuplicates, Elements, Pooled
  <2>3. /\ pool' \in Seq(Workers) /\ Len(pool') = Len(pool) - 1 /\ Len(pool) \in Nat
        /\ Elements(pool) = Elements(pool') \cup {w} /\ HasNoDuplicates(pool')
        /\ w \notin Elements(pool')
    BY <1>6, <2>1, <2>2, FrontElements
  <2>4. w \in Workers /\ w # NoWorker /\ w \notin Held /\ Pooled' = Pooled \ {w}
    <3>1. w \in Workers /\ w \in Pooled
      BY <2>2, <2>3, PooledWorkers DEF CInv
    <3>2. Pooled' = Elements(pool')
      BY DEF Pooled, Elements
    <3> QED
      BY <2>2, <2>3, <3>1, <3>2, ClusterAssumption DEF CInv, TabsAreExclusive
  <2> HIDE DEF w
  <2>5. holds' = [holds EXCEPT ![t] = w]
    BY <2>1 DEF w
  <2>6. TypeOK'
    BY <1>2, <1>3, <2>1, <2>3, <2>4, <2>5 DEF CheckOut, CInv, TypeOK, States
  <2>7. HoldersRun'
    BY <1>1, <2>1, <2>4, <2>5 DEF CInv, TypeOK, HoldersRun, Losers
  <2>8. TabsAreExclusive'
    <3>1. \A u \in Tasks : u # t => holds[u] # w
      BY <2>4 DEF Held
    <3>2. \A u \in Tasks : holds'[u] = IF u = t THEN w ELSE holds[u]
      BY <2>5 DEF CInv, TypeOK
    <3>3. \A u, v \in Tasks : holds'[u] = holds'[v] /\ holds'[u] # NoWorker => u = v
      BY <3>1, <3>2 DEF CInv, TabsAreExclusive
    <3>4. Held' \subseteq Held \cup {w}
      BY <3>2 DEF Held
    <3>5. Pooled' \cap Held' = {}
      BY <2>4, <3>4 DEF CInv, TabsAreExclusive
    <3> QED
      BY <2>3, <3>3, <3>5 DEF TabsAreExclusive, HasNoDuplicates
  <2>9. /\ Permitted' = Permitted /\ Losers' = Losers
        /\ Holders' = Holders \cup {t} /\ t \notin Holders /\ Holders \in SUBSET Tasks
        /\ \A u \in Tasks : pc'[u] = "missing" => pc[u] = "missing"
    BY <1>1, <1>4, <2>1, <2>4, <2>5
       DEF CInv, TypeOK, Permitted, HasPermit, Holders, Losers
  <2>10. Cardinality(Holders') = Cardinality(Holders) + 1
    BY <2>9, CountAdd
  <2>11. Len(pool') + Cardinality(Holders') + Cardinality(Losers') >= Cardinality(Workers)
    BY <1>2, <2>3, <2>9, <2>10, Budget, PoolSize
  <2>12. QuietOutside' /\ PoolIsOpen' /\ Built' /\ CloseReachesEveryTab'
    BY <1>2, <1>3, <2>1, <2>9, BodyFrame DEF States
  <2> QED
    BY <1>2, <1>3, <1>5, <2>1, <2>6, <2>7, <2>8, <2>9, <2>11, <2>12, Budget, Recount
       DEF CInv
<1>7. CASE pool = << >>
  <2>1. /\ pc' = [pc EXCEPT ![t] = "missing"] /\ permits' = permits + 1
        /\ holds' = holds /\ pool' = pool /\ Pooled' = Pooled
    BY <1>7 DEF CheckOut, Pooled
  <2>2. Losers # {}
    BY <1>1, <1>7, EmptyPoolHasLosers
  <2>3. /\ Permitted' = Permitted \ {t} /\ t \in Permitted /\ Permitted \in SUBSET Tasks
        /\ Holders' = Holders /\ Losers' = Losers
    BY <1>1, <2>1 DEF CInv, TypeOK, Permitted, HasPermit, Holders, Losers
  <2>4. Cardinality(Permitted') = Cardinality(Permitted) - 1
    BY <2>3, CountRemove
  <2>5. permits' + Cardinality(Permitted') = Cardinality(Workers) /\ permits' \in Nat
        /\ Cardinality(Permitted') \in Nat
    <3>1. Permitted' \in SUBSET Tasks
      BY <2>3
    <3>2. Cardinality(Permitted') \in Nat
      BY <3>1, Counts
    <3>3. permits' = permits + 1 /\ permits \in Nat
      BY <1>2, <2>1, Budget
    <3>4. /\ permits + Cardinality(Permitted) = Cardinality(Workers)
          /\ Cardinality(Permitted) \in Nat
      BY <1>2, Budget
    <3> QED
      BY <2>4, <3>2, <3>3, <3>4
  <2>6. permits' \in 0 .. Cardinality(Workers)
    BY <2>5, PoolSize
  <2>7. TypeOK'
    BY <1>2, <1>3, <2>1, <2>6 DEF CheckOut, CInv, TypeOK, States
  <2>8. HoldersRun' /\ TabsAreExclusive'
    BY <1>1, <2>1 DEF CInv, TypeOK, HoldersRun, Losers, TabsAreExclusive, Held
  <2>9. QuietOutside' /\ PoolIsOpen' /\ Built' /\ CloseReachesEveryTab'
    BY <1>2, <1>3, <2>1, <2>3, BodyFrame DEF States
  <2> QED
    BY <1>2, <1>3, <1>5, <2>1, <2>2, <2>3, <2>5, <2>7, <2>8, <2>9, Budget, Recount
       DEF CInv
<1> QED
  BY <1>6, <1>7

LEMMA AttemptCInv ==
  ASSUME CInv, NEW t \in Tasks, NEW ok \in BOOLEAN, Attempt(t, ok)
  PROVE  CInv'
<1>1. pc[t] = "running"
  BY DEF Attempt
<1>2. Built /\ (Consumed => t \in aborted)
  BY <1>1, Busy DEF Started, Over
<1>3. /\ UNCHANGED <<phase, tab, aborted>> /\ pool' = pool /\ Pooled' = Pooled /\ permits' = permits
      /\ holds' = holds /\ queue' = queue
      /\ attempts' = [attempts EXCEPT ![t] = @ + 1]
      /\ pc' \in {pc, [pc EXCEPT ![t] = "returning"]}
  BY <1>2 DEF Attempt, Pooled
<1>4. attempts[t] \in 0 .. Retries /\ attempts'[t] = attempts[t] + 1
      /\ attempts'[t] \in 0 .. Retries + 1 /\ result[t] = "none" /\ Retries \in Nat
  BY <1>1, <1>3, ClusterAssumption DEF CInv, TypeOK, AttemptsLeft
<1>5. TypeOK'
  BY <1>3, <1>4 DEF Attempt, CInv, TypeOK, States
<1>6. HoldersRun' /\ QueueIsFaithful' /\ TabsAreExclusive'
  <2>0. TabsAreExclusive'
    BY <1>3 DEF CInv, TabsAreExclusive, Held
  <2>1. HoldersRun'
    BY <1>1, <1>3 DEF CInv, TypeOK, HoldersRun, Losers
  <2>2. PICK s \in {"running", "returning"} : pc' = [pc EXCEPT ![t] = s]
    BY <1>1, <1>3 DEF CInv, TypeOK
  <2>3. QueueIsFaithful'
    BY <1>1, <1>3, <2>2, QueueKept DEF States
  <2> QED
    BY <2>0, <2>1, <2>3
<1>7. AttemptsLeft' /\ FailuresAreFinal'
  <2>1. \A u \in Tasks \ {t} : attempts'[u] = attempts[u] /\ result'[u] = result[u]
                               /\ pc'[u] = pc[u]
    BY <1>3 DEF Attempt, CInv, TypeOK
  <2>2. pc'[t] = "running" => attempts'[t] <= Retries /\ result'[t] = "none"
    BY <1>1, <1>4 DEF Attempt, CInv, TypeOK, Exhausted
  <2>3. pc'[t] \in {"running", "returning"}
    BY <1>1, <1>3 DEF CInv, TypeOK
  <2>4. result'[t] = "err" => attempts'[t] = Retries + 1
    BY <1>1, <1>4 DEF Attempt, CInv, TypeOK, Exhausted
  <2> QED
    BY <2>1, <2>2, <2>3, <2>4 DEF CInv, AttemptsLeft, FailuresAreFinal
<1>8. /\ Permitted' = Permitted /\ Holders' = Holders /\ Losers' = Losers
      /\ \A u \in Tasks : pc'[u] = "missing" => pc[u] = "missing"
  BY <1>1, <1>3 DEF CInv, TypeOK, Permitted, HasPermit, Holders, Losers
<1>9. QuietOutside' /\ PoolIsOpen' /\ Built' /\ CloseReachesEveryTab'
  BY <1>2, <1>3, <1>8, BodyFrame DEF States
<1> QED
  BY <1>2, <1>3, <1>5, <1>6, <1>7, <1>8, Budget, Recount, <1>9 DEF CInv

LEMMA CheckInCInv ==
  ASSUME CInv, NEW t \in Tasks, CheckIn(t)
  PROVE  CInv'
<1>1. pc[t] = "returning"
  BY DEF CheckIn
<1>2. Built /\ (Consumed => t \in aborted)
  BY <1>1, Busy DEF Started, Over
<1>3. /\ UNCHANGED <<phase, tab, aborted>> /\ permits' = permits /\ queue' = queue
      /\ attempts' = attempts /\ result' = result
      /\ pool' = Append(pool, holds[t])
      /\ holds' = [holds EXCEPT ![t] = NoWorker]
      /\ pc' = [pc EXCEPT ![t] = "releasing"]
  BY <1>2 DEF CheckIn
<1>4. holds[t] \in Workers /\ holds[t] \in Held
  BY <1>1 DEF CInv, TypeOK, HoldersRun, Held
<1>5. /\ pool \in Seq(Workers) /\ pool' \in Seq(Workers) /\ Len(pool) \in Nat
      /\ Len(pool') = Len(pool) + 1
      /\ Pooled' = Pooled \cup {holds[t]} /\ HasNoDuplicates(pool')
  <2>1. pool \in Seq(Workers) /\ Pooled = Elements(pool) /\ HasNoDuplicates(pool)
        /\ holds[t] \notin Elements(pool)
    BY <1>4 DEF CInv, TypeOK, Pooled, TabsAreExclusive, Elements, HasNoDuplicates
  <2>2. Elements(pool') = Elements(pool) \cup {holds[t]} /\ HasNoDuplicates(pool')
    BY <1>3, <1>4, <2>1, AppendElements
  <2>3. Pooled' = Elements(pool')
    BY DEF Pooled, Elements
  <2> QED
    BY <1>3, <1>4, <2>1, <2>2, <2>3
<1>6. TypeOK'
  BY <1>3, <1>5 DEF CheckIn, CInv, TypeOK, States
<1>7. HoldersRun' /\ QueueIsFaithful' /\ AttemptsLeft' /\ FailuresAreFinal'
  <2>1. HoldersRun' /\ AttemptsLeft' /\ FailuresAreFinal'
    BY <1>1, <1>3 DEF CInv, TypeOK, HoldersRun, Losers, AttemptsLeft, FailuresAreFinal
  <2>2. QueueIsFaithful'
    BY <1>1, <1>3, QueueKept DEF States
  <2> QED
    BY <2>1, <2>2
<1>8. TabsAreExclusive'
  <2>1. \A u \in Tasks : holds'[u] = IF u = t THEN NoWorker ELSE holds[u]
    BY <1>3 DEF CInv, TypeOK
  <2>2. \A u, v \in Tasks : holds'[u] = holds'[v] /\ holds'[u] # NoWorker => u = v
    BY <2>1 DEF CInv, TabsAreExclusive
  <2>3. Held' \subseteq Held \ {holds[t]}
    BY <1>4, <2>1 DEF Held, CInv, TabsAreExclusive
  <2>4. Pooled' \cap Held' = {}
    BY <1>5, <2>3 DEF CInv, TabsAreExclusive
  <2> QED
    BY <1>5, <2>2, <2>4 DEF TabsAreExclusive, HasNoDuplicates
<1>9. /\ Permitted' = Permitted /\ Losers' = Losers
      /\ Holders' = Holders \ {t} /\ t \in Holders /\ Holders \in SUBSET Tasks
      /\ \A u \in Tasks : pc'[u] = "missing" => pc[u] = "missing"
  BY <1>1, <1>3, <1>4, ClusterAssumption
     DEF CInv, TypeOK, Permitted, HasPermit, Holders, Losers
<1>10. Cardinality(Holders') = Cardinality(Holders) - 1
  BY <1>9, CountRemove
<1>11. Len(pool') + Cardinality(Holders') + Cardinality(Losers') >= Cardinality(Workers)
  BY <1>2, <1>5, <1>9, <1>10, Budget, PoolSize
<1>12. QuietOutside' /\ PoolIsOpen' /\ Built' /\ CloseReachesEveryTab'
  BY <1>2, <1>3, <1>9, BodyFrame DEF States
<1> QED
  BY <1>2, <1>3, <1>6, <1>7, <1>8, <1>9, <1>11, Budget, Recount, <1>12 DEF CInv

\* A task that leaves the body gives its permit back, and nothing else is counted
\* differently but the client it may hold and the loss it may be.
LEMMA LeavesBody ==
  ASSUME CInv, Built, NEW t \in Tasks, t \in Permitted,
         permits' = permits + 1, Permitted' = Permitted \ {t}
  PROVE  /\ permits' + Cardinality(Permitted') = Cardinality(Workers)
         /\ permits' \in 0 .. Cardinality(Workers)
<1>1. Permitted \in SUBSET Tasks /\ Permitted' \in SUBSET Tasks
  BY DEF Permitted
<1>2. Cardinality(Permitted') = Cardinality(Permitted) - 1 /\ Cardinality(Permitted') \in Nat
  BY <1>1, CountRemove, Counts
<1>3. /\ permits + Cardinality(Permitted) = Cardinality(Workers)
      /\ permits \in Nat /\ Cardinality(Permitted) \in Nat
  BY Budget
<1> QED
  BY <1>2, <1>3, PoolSize

LEMMA ReleaseCInv ==
  ASSUME CInv, NEW t \in Tasks, Release(t)
  PROVE  CInv'
<1>1. pc[t] = "releasing"
  BY DEF Release
<1>2. Built /\ (Consumed => t \in aborted)
  BY <1>1, Busy DEF Started, Over
<1>3. /\ UNCHANGED <<phase, tab, aborted>> /\ permits' = permits + 1 /\ pc' = [pc EXCEPT ![t] = "done"]
      /\ pool' = pool /\ Pooled' = Pooled /\ queue' = queue
      /\ holds' = holds /\ attempts' = attempts /\ result' = result
  BY <1>2 DEF Release, Pooled
<1>4. /\ Permitted' = Permitted \ {t} /\ t \in Permitted
      /\ Holders' = Holders /\ Losers' = Losers
      /\ \A u \in Tasks : pc'[u] = "missing" => pc[u] = "missing"
  BY <1>1, <1>3 DEF CInv, TypeOK, Permitted, HasPermit, Holders, Losers
<1>5. /\ permits' + Cardinality(Permitted') = Cardinality(Workers)
      /\ permits' \in 0 .. Cardinality(Workers)
  BY <1>2, <1>3, <1>4, LeavesBody
<1>6. TypeOK'
  BY <1>3, <1>5 DEF Release, CInv, TypeOK, States
<1>7. HoldersRun' /\ QueueIsFaithful' /\ AttemptsLeft' /\ FailuresAreFinal'
      /\ TabsAreExclusive'
  <2>1. HoldersRun' /\ AttemptsLeft' /\ FailuresAreFinal' /\ TabsAreExclusive'
    BY <1>1, <1>3 DEF CInv, TypeOK, HoldersRun, Losers, AttemptsLeft, FailuresAreFinal,
                      TabsAreExclusive, Held
  <2>2. QueueIsFaithful'
    BY <1>1, <1>3, QueueKept DEF States
  <2> QED
    BY <2>1, <2>2
<1>8. QuietOutside' /\ PoolIsOpen' /\ Built' /\ CloseReachesEveryTab'
  BY <1>2, <1>3, <1>4, BodyFrame DEF States
<1> QED
  BY <1>2, <1>3, <1>4, <1>5, <1>6, <1>7, Budget, Recount, <1>8 DEF CInv

\* A task that panics or is dropped may take a client along: the clients that are
\* left and the losses still add up.
LEMMA TakenAlong ==
  ASSUME CInv, Built, NEW t \in Tasks, pool' = pool,
         Losers' = Losers \cup {t}, t \notin Losers,
         Holders' = Holders \ {t}
  PROVE  Len(pool') + Cardinality(Holders') + Cardinality(Losers') >= Cardinality(Workers)
<1>1. Holders \in SUBSET Tasks /\ Losers \in SUBSET Tasks
  BY DEF Holders, Losers
<1>2. Cardinality(Losers') = Cardinality(Losers) + 1
  BY <1>1, CountAdd
<1>3. Cardinality(Holders') >= Cardinality(Holders) - 1 /\ Cardinality(Holders') \in Nat
  <2>1. CASE t \in Holders
    BY <1>1, <2>1, CountRemove, Counts
  <2>2. CASE t \notin Holders
    <3>1. Holders' = Holders
      BY <2>2
    <3> QED
      BY <1>1, <3>1, Counts
  <2> QED
    BY <2>1, <2>2
<1>4. /\ Len(pool) + Cardinality(Holders) + Cardinality(Losers) >= Cardinality(Workers)
      /\ Cardinality(Holders) \in Nat /\ Cardinality(Losers) \in Nat
  BY Budget
<1>5. Len(pool') = Len(pool) /\ Len(pool) \in Nat
  BY PooledWorkers DEF CInv
<1> QED
  BY <1>2, <1>3, <1>4, <1>5, PoolSize

\* Clients with fewer tasks are still with one task each.
LEMMA Relinquished ==
  ASSUME CInv, NEW t \in Tasks, pool' = pool, holds' = [holds EXCEPT ![t] = NoWorker]
  PROVE  TabsAreExclusive' /\ Holders' = Holders \ {t}
<1>1. \A u \in Tasks : holds'[u] = IF u = t THEN NoWorker ELSE holds[u]
  BY DEF CInv, TypeOK
<1>2. Held' \subseteq Held /\ Pooled' = Pooled
  BY <1>1 DEF Held, Pooled
<1>3. TabsAreExclusive'
  BY <1>1, <1>2 DEF CInv, TabsAreExclusive
<1>4. Holders' = Holders \ {t}
  BY <1>1 DEF Holders
<1> QED
  BY <1>3, <1>4

LEMMA PanicCInv ==
  ASSUME CInv, NEW t \in Tasks, Panic(t)
  PROVE  CInv'
<1>1. pc[t] = "running" /\ t \in Panicking
  BY DEF Panic
<1>2. Built /\ (Consumed => t \in aborted)
  BY <1>1, Busy DEF Started, Over
<1>3. /\ UNCHANGED <<phase, tab, aborted>> /\ permits' = permits + 1
      /\ pc' = [pc EXCEPT ![t] = "panicked"]
      /\ holds' = [holds EXCEPT ![t] = NoWorker]
      /\ pool' = pool /\ queue' = queue /\ attempts' = attempts /\ result' = result
  BY <1>2 DEF Panic
<1>4. /\ Permitted' = Permitted \ {t} /\ t \in Permitted
      /\ Losers' = Losers \cup {t} /\ t \notin Losers
      /\ \A u \in Tasks : pc'[u] = "missing" => pc[u] = "missing"
  BY <1>1, <1>3 DEF CInv, TypeOK, Permitted, HasPermit, Losers
<1>5. /\ permits' + Cardinality(Permitted') = Cardinality(Workers)
      /\ permits' \in 0 .. Cardinality(Workers)
  BY <1>2, <1>3, <1>4, LeavesBody
<1>6. TabsAreExclusive' /\ Holders' = Holders \ {t}
  BY <1>3, Relinquished
<1>7. Len(pool') + Cardinality(Holders') + Cardinality(Losers') >= Cardinality(Workers)
  BY <1>2, <1>3, <1>4, <1>6, TakenAlong
<1>8. TypeOK'
  BY <1>3, <1>5 DEF Panic, CInv, TypeOK, States
<1>9. HoldersRun' /\ AttemptsLeft' /\ FailuresAreFinal'
  BY <1>1, <1>3, <1>4, ClusterAssumption
     DEF CInv, TypeOK, HoldersRun, AttemptsLeft, FailuresAreFinal
<1>10. QueueIsFaithful'
  BY <1>1, <1>3, QueueKept DEF States
<1>11. QuietOutside' /\ PoolIsOpen' /\ Built' /\ CloseReachesEveryTab'
  BY <1>2, <1>3, <1>4, BodyFrame DEF States
<1> QED
  BY <1>2, <1>3, <1>4, <1>5, <1>6, <1>7, <1>8, <1>9, <1>10, Recount, <1>11 DEF CInv

LEMMA CancelCInv ==
  ASSUME CInv, NEW t \in Tasks, Cancel(t)
  PROVE  CInv'
<1>1. /\ t \in Cancellable /\ pc[t] \in {"queued", "permitted", "running", "returning"}
      /\ pool' = pool /\ attempts' = attempts /\ result' = result /\ phase' = phase
      /\ tab' = tab /\ aborted' = aborted
      /\ pc' = [pc EXCEPT ![t] = "cancelled"]
      /\ holds' = [holds EXCEPT ![t] = NoWorker]
  BY DEF Cancel, CInv, QueueIsFaithful
<1>2. Built /\ (Consumed => t \in aborted)
  BY <1>1, Busy DEF Started, Over
<1>3. /\ Losers' = Losers \cup {t} /\ t \notin Losers
      /\ \A u \in Tasks : pc'[u] = "missing" => pc[u] = "missing"
  BY <1>1 DEF CInv, TypeOK, Losers
<1>4. TabsAreExclusive' /\ Holders' = Holders \ {t}
  BY <1>1, Relinquished
<1>5. Len(pool') + Cardinality(Holders') + Cardinality(Losers') >= Cardinality(Workers)
  BY <1>1, <1>2, <1>3, <1>4, TakenAlong
<1>6. HoldersRun' /\ AttemptsLeft' /\ FailuresAreFinal'
  BY <1>1, <1>3, ClusterAssumption
     DEF CInv, TypeOK, HoldersRun, AttemptsLeft, FailuresAreFinal
<1>7. queue' \in Seq(Tasks) /\ QueueIsFaithful'
  <2>1. queue' \in Seq(Tasks) /\ HasNoDuplicates(queue')
        /\ Elements(queue') = Elements(queue) \ {t}
    <3>1. CASE pc[t] = "queued"
      <4>1. PICK k \in 1 .. Len(queue) :
              /\ queue[k] = t
              /\ queue' = SubSeq(queue, 1, k - 1) \o SubSeq(queue, k + 1, Len(queue))
        BY <3>1 DEF Cancel
      <4> QED
        BY <4>1, QueueElements, RemoveAtElements
    <3>2. CASE pc[t] # "queued"
      <4>1. queue' = queue /\ t \notin Elements(queue)
        BY <3>2, QueueElements DEF Cancel, Elements
      <4> QED
        BY <4>1, QueueElements
    <3> QED
      BY <3>1, <3>2
  <2>2. \A u \in Tasks : pc'[u] = "queued" <=> u \in Elements(queue')
    BY <1>1, <2>1, QueueElements DEF CInv, TypeOK
  <2> QED
    BY <2>1, <2>2 DEF QueueIsFaithful, HasNoDuplicates, Elements
<1>8. /\ permits' + Cardinality(Permitted') = Cardinality(Workers)
      /\ permits' \in 0 .. Cardinality(Workers)
  <2>1. CASE pc[t] = "queued"
    <3>1. permits' = permits /\ Permitted' = Permitted
      BY <1>1, <2>1 DEF Cancel, CInv, TypeOK, Permitted, HasPermit
    <3> QED
      BY <1>2, <3>1, Budget DEF CInv, TypeOK
  <2>2. CASE pc[t] # "queued"
    <3>1. permits' = permits + 1 /\ Permitted' = Permitted \ {t} /\ t \in Permitted
      BY <1>1, <2>2 DEF Cancel, CInv, TypeOK, QueueIsFaithful, Permitted, HasPermit
    <3> QED
      BY <1>2, <3>1, LeavesBody
  <2> QED
    BY <2>1, <2>2
<1>9. TypeOK'
  BY <1>1, <1>7, <1>8 DEF CInv, TypeOK, States
<1>10. QuietOutside' /\ PoolIsOpen' /\ Built' /\ CloseReachesEveryTab'
  BY <1>1, <1>2, <1>3, BodyFrame DEF States
<1> QED
  BY <1>1, <1>2, <1>3, <1>4, <1>5, <1>6, <1>7, <1>8, <1>9, Recount, <1>10 DEF CInv

-----------------------------------------------------------------------------
(* The theorems.                                                           *)

LEMMA StutterCInv ==
  ASSUME CInv, UNCHANGED vars
  PROVE  CInv'
<1>1. UNCHANGED <<phase, tab, pool, permits, aborted>> /\ UNCHANGED tasks
  OBVIOUS
<1>2. Pooled' = Pooled /\ Held' = Held /\ Losers' = Losers /\ Built' = Built
      /\ \A t \in Tasks : HasPermit(t)' = HasPermit(t) /\ Started(t)' = Started(t)
                          /\ Over(t)' = Over(t)
  BY <1>1 DEF Pooled, Held, Losers, Built, Consumed, HasPermit, Started, Over
<1>3. TypeOK' /\ QuietOutside' /\ PoolIsOpen' /\ TabsAreExclusive' /\ CloseReachesEveryTab'
  BY <1>1, <1>2 DEF CInv, TypeOK, QuietOutside, Consumed, PoolIsOpen, TabsAreExclusive,
                    CloseReachesEveryTab
<1>4. PermitsAreConserved'
  BY <1>1, <1>2, TasksUnchanged DEF CInv, PermitsAreConserved, Permitted
<1>5. WorkersGoMissingOnlyWithTheirTask'
  BY <1>1, <1>2, TasksUnchanged DEF CInv, WorkersGoMissingOnlyWithTheirTask, Holders
<1> QED
  BY <1>1, <1>3, <1>4, <1>5, TasksUnchanged DEF CInv

LEMMA NextCInv == CInv /\ [Next]_vars => CInv'
<1> SUFFICES ASSUME CInv, Next PROVE CInv'
  BY StutterCInv
<1>1. CASE \E w \in Workers : OpenTab(w) \/ SetUpTab(w) \/ CloseTab(w)
  BY <1>1, OpenTabCInv, SetUpTabCInv, ClosingCInv
<1>2. CASE CreationFails \/ CreationEnds \/ CloseStarts \/ CloseEnds \/ CloseDropped
  BY <1>2, CreationFailsCInv, CreationEndsCInv, ClosingCInv
<1>3. CASE \E t \in Tasks : Start(t) \/ Body(t) \/ Panic(t) \/ Abort(t) \/ Cancel(t)
  <2>1. PICK t \in Tasks : Start(t) \/ Body(t) \/ Panic(t) \/ Abort(t) \/ Cancel(t)
    BY <1>3
  <2>2. CASE Body(t)
    BY <2>2, AcquireCInv, CheckOutCInv, CheckInCInv, ReleaseCInv, AttemptCInv DEF Body
  <2> QED
    BY <2>1, <2>2, StartCInv, PanicCInv, ClosingCInv, CancelCInv
<1> QED
  BY <1>1, <1>2, <1>3 DEF Next

\* CInv is an invariant of every cluster.
THEOREM InductiveInvariant == Spec => []CInv
BY InitCInv, NextCInv, PTL DEF Spec

\* Every variable of the pool keeps its type: among others, the semaphore never
\* has more permits than there are workers.
THEOREM TypeCorrect == Spec => []TypeOK
<1>1. CInv => TypeOK
  BY DEF CInv
<1> QED
  BY <1>1, InductiveInvariant, PTL

\* No tab serves two tasks at once, for any number of workers and tasks.
THEOREM TabsServeOneTask == Spec => []TabsAreExclusive
<1>1. CInv => TabsAreExclusive
  BY DEF CInv
<1> QED
  BY <1>1, InductiveInvariant, PTL

\* No way out of the body loses or duplicates a permit.
THEOREM PermitsAreKept == Spec => []PermitsAreConserved
<1>1. CInv => PermitsAreConserved
  BY DEF CInv
<1> QED
  BY <1>1, InductiveInvariant, PTL

\* The Vec can be found empty only after a task took a client down with it.
THEOREM MissingWorkersHaveACause == Spec => []WorkersGoMissingOnlyWithTheirTask
<1>1. CInv => WorkersGoMissingOnlyWithTheirTask
  BY DEF CInv
<1> QED
  BY <1>1, InductiveInvariant, PTL

\* Where no closure panics and no future is dropped, no permit is without a client:
\* the expect of execute cannot fail.
THEOREM NoWorkerGoesMissing ==
  ASSUME Panicking = {}, Cancellable = {}
  PROVE  Spec => []NobodyFindsAWorkerMissing
<1>1. CInv => NobodyFindsAWorkerMissing
  BY DEF CInv, HoldersRun, WorkersGoMissingOnlyWithTheirTask, NobodyFindsAWorkerMissing
<1> QED
  BY <1>1, InductiveInvariant, PTL

\* Whatever panicked or was dropped before, the queue stands still only while some
\* task with a permit moves: the waiters are all in the queue, and the permits that no
\* task has are all there.
THEOREM TasksNeverWaitForNobody == Spec => []SomeTaskCanGoOn
<1>1. CInv => SomeTaskCanGoOn
  <2> SUFFICES ASSUME CInv, NEW t \in Tasks, Started(t), ~Over(t),
                      \A u \in Tasks : ~HasPermit(u)
               PROVE  queue # << >> /\ permits > 0
    BY DEF SomeTaskCanGoOn
  <2>1. pc[t] = "queued"
    BY DEF CInv, TypeOK, States, Started, Over, HasPermit
  <2>2. queue # << >>
    BY <2>1 DEF CInv, QueueIsFaithful
  <2>3. Built
    BY Busy
  <2>4. Cardinality(Permitted) = 0
    <3>1. Permitted = {}
      BY DEF Permitted
    <3> QED
      BY <3>1, FS_EmptySet
  <2>5. permits = Cardinality(Workers)
    BY <2>3, <2>4, Budget
  <2> QED
    BY <2>2, <2>5, PoolSize
<1> QED
  BY <1>1, InductiveInvariant, PTL

\* The stage a task is in and the attempts it has left go down with each of its steps,
\* and no step of another task, of run or of close changes them: with somebody who can go on,
\* what StartedTasksEnd needs besides fairness.
THEOREM TasksEndByThemselves == Spec => TasksUseThemselvesUp
<1> DEFINE Still(t)   == pc'[t] = pc[t] /\ attempts'[t] = attempts[t]
           Lowered(t) == 0 <= Remaining(t)' /\ Remaining(t)' < Remaining(t)
           Lowers == \A t \in Tasks : \/ pc'[t] = pc[t] /\ attempts'[t] = attempts[t]
                                      \/ 0 <= Remaining(t)' /\ Remaining(t)' < Remaining(t)
<1>1. CInv /\ [Next]_vars => [Lowers]_vars
  <2> SUFFICES ASSUME CInv, Next, NEW t \in Tasks PROVE Still(t) \/ Lowered(t)
    OBVIOUS
  <2>1. /\ Retries \in Nat /\ attempts \in [Tasks -> 0 .. Retries + 1]
        /\ pc \in [Tasks -> States]
    BY ClusterAssumption DEF CInv, TypeOK
  <2>2. CASE pc' = pc /\ attempts' = attempts
    BY <2>2
  <2>3. ASSUME NEW u \in Tasks, NEW s \in States, pc' = [pc EXCEPT ![u] = s],
               attempts' = attempts, Stages[s] < Stages[pc[u]]
        PROVE  Still(t) \/ Lowered(t)
    <3>1. CASE t # u
      BY <2>1, <2>3, <3>1
    <3>2. CASE t = u
      <4>1. pc'[t] = s /\ attempts'[t] = attempts[t] /\ attempts[t] \in 0 .. Retries + 1
        BY <2>1, <2>3, <3>2
      <4>2. Stages[s] \in 0 .. 6 /\ Stages[pc[t]] \in 0 .. 6
        BY <2>1 DEF Stages, States
      <4> QED
        BY <2>1, <2>3, <3>2, <4>1, <4>2 DEF Remaining
    <3> QED
      BY <3>1, <3>2
  <2>4. ASSUME NEW u \in Tasks, NEW ok \in BOOLEAN, Attempt(u, ok)
        PROVE  Still(t) \/ Lowered(t)
    <3>1. CASE t # u
      BY <2>1, <2>4, <3>1 DEF Attempt
    <3>2. CASE t = u
      <4>1. /\ pc[t] = "running" /\ pc'[t] \in {"running", "returning"}
            /\ attempts'[t] = attempts[t] + 1 /\ attempts[t] \in 0 .. Retries
        BY <2>1, <2>4, <3>2 DEF Attempt, CInv, AttemptsLeft
      <4>2. Stages[pc[t]] = 3 /\ Stages[pc'[t]] \in {2, 3}
        BY <4>1 DEF Stages
      <4> QED
        BY <2>1, <4>1, <4>2 DEF Remaining
    <3> QED
      BY <3>1, <3>2
  <2>5. ASSUME NEW u \in Tasks, Start(u) \/ Body(u) \/ Panic(u) \/ Abort(u) \/ Cancel(u)
        PROVE  Still(t) \/ Lowered(t)
    <3>1. CASE Start(u)
      <4>1. /\ pc[u] = "idle" /\ pc' = [pc EXCEPT ![u] = "queued"] /\ attempts' = attempts
            /\ "queued" \in States
        BY <3>1 DEF Start, States
      <4>2. Stages["queued"] < Stages[pc[u]]
        BY <4>1 DEF Stages
      <4> QED
        BY <2>3, <4>1, <4>2
    <3>2. CASE Acquire(u)
      <4>1. pc[u] = "queued"
        BY <3>2, QueueElements, TailElements DEF Acquire
      <4>2. /\ pc' = [pc EXCEPT ![u] = "permitted"] /\ attempts' = attempts
            /\ "permitted" \in States
        BY <3>2 DEF Acquire, States
      <4>3. Stages["permitted"] < Stages[pc[u]]
        BY <4>1 DEF Stages
      <4> QED
        BY <2>3, <4>2, <4>3
    <3>3. CASE CheckOut(u)
      BY <2>3, <3>3 DEF CheckOut, Stages, States
    <3>4. CASE CheckIn(u) \/ Release(u) \/ Panic(u)
      BY <2>3, <3>4 DEF CheckIn, Release, Panic, Stages, States
    <3>5. CASE Cancel(u)
      <4>1. pc[u] \in {"queued", "permitted", "running", "returning"}
        BY <3>5 DEF Cancel, CInv, QueueIsFaithful
      <4>2. /\ pc' = [pc EXCEPT ![u] = "cancelled"] /\ attempts' = attempts
            /\ "cancelled" \in States
        BY <3>5 DEF Cancel, States
      <4>3. Stages["cancelled"] < Stages[pc[u]]
        BY <4>1 DEF Stages
      <4> QED
        BY <2>3, <4>2, <4>3
    <3>6. CASE Abort(u)
      BY <2>2, <3>6 DEF Abort
    <3> QED
      BY <2>4, <2>5, <3>1, <3>2, <3>3, <3>4, <3>5, <3>6 DEF Body
  <2>6. CASE \E w \in Workers : OpenTab(w) \/ SetUpTab(w) \/ CloseTab(w)
    BY <2>2, <2>6 DEF OpenTab, SetUpTab, CloseTab
  <2>7. CASE CreationFails \/ CreationEnds \/ CloseStarts \/ CloseEnds \/ CloseDropped
    BY <2>2, <2>7 DEF CreationFails, CreationEnds, CloseStarts, CloseEnds, CloseDropped
  <2> QED
    BY <2>5, <2>6, <2>7 DEF Next
<1> QED
  BY <1>1, InductiveInvariant, PTL DEF Spec, TasksUseThemselvesUp

\* A failure is reported after 1 + retries attempts.
THEOREM RetriesAreUsedUp == Spec => []FailuresAreFinal
<1>1. CInv => FailuresAreFinal
  BY DEF CInv
<1> QED
  BY <1>1, InductiveInvariant, PTL

\* However many tasks of dropped runs are still under way while close goes through the Vec
\* and after it, it leaves one tab open at most for each task that panicked, was dropped or
\* was aborted.
THEOREM CloseIsThorough == Spec => []CloseReachesEveryTab
<1>1. CInv => CloseReachesEveryTab
  BY DEF CInv
<1> QED
  BY <1>1, InductiveInvariant, PTL

\* Where no closure panics and no future is dropped, close keeps its word.
THEOREM CloseKeepsItsWord ==
  ASSUME Panicking = {}, Cancellable = {}
  PROVE  Spec => []EveryWorkerTabIsClosed
<1>1. CInv => EveryWorkerTabIsClosed
  <2> SUFFICES ASSUME CInv, phase = "closed"
               PROVE  {w \in Workers : tab[w] # "closed"} = {}
    BY DEF EveryWorkerTabIsClosed
  <2>1. Losers \cup aborted = {}
    BY DEF CInv, HoldersRun, TypeOK
  <2>2. /\ IsFiniteSet({w \in Workers : tab[w] # "closed"})
        /\ Cardinality({w \in Workers : tab[w] # "closed"}) \in Nat
    BY ClusterAssumption, FS_Subset, FS_CardinalityType
  <2>3. Cardinality({w \in Workers : tab[w] # "closed"}) <= 0
    BY <2>1, FS_EmptySet DEF CInv, CloseReachesEveryTab
  <2> QED
    BY <2>2, <2>3, FS_EmptySet
<1> QED
  BY <1>1, InductiveInvariant, PTL

-----------------------------------------------------------------------------
(* Cluster implements WorkerPool: each step of the pool is one of the lease *)
(* or none at all.  The image of a state.                                   *)

closedBar == {w \in Workers : tab[w] = "closed"}
clientBar == [t \in Tasks |-> ClientState(t)]

LEMMA InitRefines == Init => Pool!Init
<1> SUFFICES ASSUME Init PROVE Pool!Init
  OBVIOUS
<1>1. Stage = "opening" /\ Pooled = {} /\ closedBar = {}
  BY DEF Init, Stage, Pooled, closedBar
<1>2. clientBar = [t \in Tasks |-> "idle"]
  BY DEF Init, clientBar, ClientState
<1> QED
  BY <1>1, <1>2 DEF Init, Pool!Init, closedBar, clientBar

\* A step of one task changes the image of that task only.
LEMMA Moves ==
  ASSUME TypeOK, NEW t \in Tasks, NEW s \in States, pc' = [pc EXCEPT ![t] = s]
  PROVE  /\ pc'[t] = s
         /\ clientBar[t] = ClientState(t)
         /\ clientBar' = [clientBar EXCEPT ![t] = ClientState(t)']
<1>1. pc \in [Tasks -> States]
  BY DEF TypeOK
<1>2. pc'[t] = s /\ \A u \in Tasks : u # t => pc'[u] = pc[u]
  BY <1>1
<1>3. \A u \in Tasks : u # t => ClientState(u)' = ClientState(u)
  BY <1>2 DEF ClientState
<1> QED
  BY <1>2, <1>3 DEF clientBar

\* The steps of a task leave the stage and the tabs alone.
LEMMA TaskFrame ==
  ASSUME UNCHANGED <<phase, tab>>
  PROVE  Stage' = Stage /\ closedBar' = closedBar
BY DEF Stage, closedBar

-----------------------------------------------------------------------------
(* Opening and closing the pool.                                           *)

\* A client that is set up becomes a free worker.
LEMMA SetUpTabRefines ==
  ASSUME CInv, NEW w \in Workers, SetUpTab(w)
  PROVE  Pool!Open(w)
<1>1. pool' = Append(pool, w) /\ phase = "creating" /\ phase' = "creating"
      /\ UNCHANGED tasks /\ tab' = [tab EXCEPT ![w] = "open"]
  BY DEF SetUpTab
<1>2. w \notin Pooled
  BY DEF CInv, TypeOK, PoolIsOpen, SetUpTab
<1>3. Pooled' = Pooled \cup {w}
  <2>1. pool \in Seq(Workers)
    BY DEF CInv, TypeOK
  <2>2. Elements(pool') = Elements(pool) \cup {w}
    BY <1>1, <2>1, AppendElements
  <2> QED
    BY <2>2 DEF Pooled, Elements
<1>4. Stage = "opening" /\ Stage' = "opening"
  BY <1>1 DEF Stage
<1>5. closedBar' = closedBar
  BY <1>1 DEF closedBar, CInv, TypeOK, SetUpTab
<1>6. clientBar' = clientBar /\ holds' = holds
  BY <1>1 DEF clientBar, ClientState
<1> QED
  BY <1>2, <1>3, <1>4, <1>5, <1>6 DEF Pool!Open, closedBar, clientBar

\* As many distinct clients as workers are all the workers.
LEMMA FullPool ==
  ASSUME CInv, Len(pool) = Cardinality(Workers)
  PROVE  Pooled = Workers
<1>1. Pooled \subseteq Workers
  BY PooledWorkers DEF CInv
<1> QED
  BY <1>1, PoolCount, ClusterAssumption, FS_Subset

\* The pool opens with all its workers free.
LEMMA CreationEndsRefines ==
  ASSUME CInv, CreationEnds
  PROVE  Pool!Ready
<1>1. phase = "creating" /\ phase' = "ready" /\ pool' = pool /\ tab' = tab /\ UNCHANGED tasks
  BY DEF CreationEnds
<1>2. Len(pool) = Cardinality(Workers)
  <2>1. {w \in Workers : tab[w] = "open"} = Workers
    BY DEF CreationEnds
  <2> QED
    BY <1>1, <2>1 DEF CInv, PoolIsOpen
<1>3. Pooled = Workers /\ Pooled' = Pooled
  BY <1>1, <1>2, FullPool DEF Pooled
<1>4. Stage = "opening" /\ Stage' = "open"
  BY <1>1 DEF Stage
<1>5. clientBar' = clientBar /\ closedBar' = closedBar /\ holds' = holds
  BY <1>1 DEF clientBar, ClientState, closedBar
<1> QED
  BY <1>3, <1>4, <1>5 DEF Pool!Ready, closedBar, clientBar

LEMMA CreationFailsRefines ==
  ASSUME CreationFails
  PROVE  Pool!Fail
<1>1. phase = "creating" /\ phase' = "failed" /\ pool' = << >> /\ tab' = tab /\ UNCHANGED tasks
  BY DEF CreationFails
<1>2. Stage = "opening" /\ Stage' = "failed" /\ Pooled' = {}
  BY <1>1 DEF Stage, Pooled
<1>3. clientBar' = clientBar /\ closedBar' = closedBar /\ holds' = holds
  BY <1>1 DEF clientBar, ClientState, closedBar
<1> QED
  BY <1>2, <1>3 DEF Pool!Fail, closedBar, clientBar

\* close finds every client it closes free.
LEMMA CloseTabRefines ==
  ASSUME CInv, NEW w \in Workers, CloseTab(w)
  PROVE  Pool!Close(w)
<1>1. w \in Pooled /\ tab' = [tab EXCEPT ![w] = "closed"] /\ phase' = phase
      /\ pool' = pool /\ UNCHANGED tasks
  BY DEF CloseTab
<1>2. closedBar' = closedBar \cup {w}
  BY <1>1 DEF closedBar, CInv, TypeOK
<1>3. Stage' = Stage /\ Pooled' = Pooled /\ clientBar' = clientBar /\ holds' = holds
  BY <1>1 DEF Stage, Pooled, clientBar, ClientState
<1> QED
  BY <1>1, <1>2, <1>3 DEF Pool!Close, closedBar, clientBar

-----------------------------------------------------------------------------
(* The steps of a task.                                                    *)

LEMMA StartRefines ==
  ASSUME CInv, NEW t \in Tasks, Start(t)
  PROVE  Pool!Ask(t)
<1>1. /\ Built /\ pc[t] = "idle" /\ pc' = [pc EXCEPT ![t] = "queued"]
      /\ UNCHANGED <<phase, tab>> /\ pool' = pool /\ holds' = holds
  BY DEF Start, CInv, QuietOutside, Built, Consumed
<1>2. /\ pc'[t] = "queued" /\ clientBar[t] = ClientState(t)
      /\ clientBar' = [clientBar EXCEPT ![t] = ClientState(t)']
  BY <1>1, Moves DEF CInv, States
<1>3. ClientState(t) = "idle" /\ ClientState(t)' = "asking"
  BY <1>1, <1>2 DEF ClientState
<1>4. Stage = "open" /\ Stage' = Stage /\ closedBar' = closedBar /\ Pooled' = Pooled
  BY <1>1, TaskFrame DEF Stage, Pooled, Built, Consumed
<1> QED
  BY <1>1, <1>2, <1>3, <1>4 DEF Pool!Ask, closedBar, clientBar

\* A permitted task that finds the Vec empty proves a worker lost: the tasks that
\* have one are fewer than the permits.
LEMMA EmptyPoolHasLostWorkers ==
  ASSUME CInv, NEW t \in Tasks, pc[t] = "permitted", pool = << >>
  PROVE  Pool!Lost # {}
<1>1. Built
  BY Busy DEF Started, Over
<1>2. Holders \in SUBSET (Permitted \ {t}) /\ t \in Permitted /\ Permitted \in SUBSET Tasks
  BY DEF CInv, HoldersRun, Holders, Permitted, HasPermit
<1>3. Cardinality(Holders) < Cardinality(Workers)
  <2>1. Cardinality(Permitted \ {t}) = Cardinality(Permitted) - 1
    BY <1>2, CountRemove
  <2>2. Cardinality(Holders) <= Cardinality(Permitted \ {t})
    BY <1>2, Counts, FS_Subset
  <2> QED
    BY <1>1, <2>1, <2>2, Budget, PoolSize
<1>4. Pooled = {}
  BY DEF Pooled
<1>5. ASSUME Workers \subseteq {holds[u] : u \in Tasks} PROVE FALSE
  <2> DEFINE owner == [u \in Holders |-> holds[u]]
  <2>1. \A u \in Holders : holds[u] \in Workers /\ u \in Tasks
    BY DEF CInv, TypeOK, Holders
  <2>2. \A w \in Workers : \E u \in Holders : holds[u] = w
    BY <1>5, ClusterAssumption DEF Holders
  <2>3. owner \in Surjection(Holders, Workers)
    BY <2>1, <2>2 DEF Surjection
  <2>4. Cardinality(Workers) <= Cardinality(Holders)
    BY <1>2, <2>3, Counts, FS_Surjection
  <2> QED
    BY <1>1, <1>3, <2>4, Budget, PoolSize
<1> QED
  BY <1>4, <1>5 DEF Pool!Lost

LEMMA CheckOutRefines ==
  ASSUME CInv, NEW t \in Tasks, CheckOut(t)
  PROVE  Pool!Refuse(t) \/ \E w \in Workers : Pool!Lease(t, w)
<1>1. pc[t] = "permitted" /\ UNCHANGED <<phase, tab>>
  BY DEF CheckOut
<1>2. Stage' = Stage /\ closedBar' = closedBar
  BY <1>1, TaskFrame
<1>3. CASE pool # << >>
  <2> DEFINE w == pool[Len(pool)]
  <2>1. /\ pc' = [pc EXCEPT ![t] = "running"] /\ holds' = [holds EXCEPT ![t] = w]
        /\ pool' = SubSeq(pool, 1, Len(pool) - 1)
    BY <1>3 DEF CheckOut
  <2>2. w \in Workers /\ w \in Pooled /\ Pooled' = Pooled \ {w}
    <3>1. pool \in Seq(Workers) /\ HasNoDuplicates(pool) /\ Pooled = Elements(pool)
      BY DEF CInv, TypeOK, TabsAreExclusive, HasNoDuplicates, Elements, Pooled
    <3>2. Elements(pool) = Elements(pool') \cup {w} /\ w \notin Elements(pool')
      BY <1>3, <2>1, <3>1, FrontElements
    <3>3. Pooled' = Elements(pool')
      BY DEF Pooled, Elements
    <3> QED
      BY <3>1, <3>2, <3>3, PooledWorkers DEF CInv
  <2> HIDE DEF w
  <2>3. /\ pc'[t] = "running" /\ clientBar[t] = ClientState(t)
        /\ clientBar' = [clientBar EXCEPT ![t] = ClientState(t)']
    BY <2>1, Moves DEF CInv, States
  <2>4. ClientState(t) = "asking" /\ ClientState(t)' = "leased"
    BY <1>1, <2>3 DEF ClientState
  <2>5. Pool!Lease(t, w)
    BY <1>2, <2>1, <2>2, <2>3, <2>4 DEF Pool!Lease, closedBar, clientBar
  <2> QED
    BY <2>2, <2>5
<1>4. CASE pool = << >>
  <2>1. /\ pc' = [pc EXCEPT ![t] = "missing"] /\ holds' = holds /\ Pooled' = Pooled
    BY <1>4 DEF CheckOut, Pooled
  <2>2. /\ pc'[t] = "missing" /\ clientBar[t] = ClientState(t)
        /\ clientBar' = [clientBar EXCEPT ![t] = ClientState(t)']
    BY <2>1, Moves DEF CInv, States
  <2>3. ClientState(t) = "asking" /\ ClientState(t)' = "refused"
    BY <1>1, <2>2 DEF ClientState
  <2>4. Pool!Lost # {}
    BY <1>1, <1>4, EmptyPoolHasLostWorkers
  <2>5. Pool!Refuse(t)
    BY <1>2, <2>1, <2>2, <2>3, <2>4 DEF Pool!Refuse, closedBar, clientBar
  <2> QED
    BY <2>5
<1> QED
  BY <1>3, <1>4

LEMMA CheckInRefines ==
  ASSUME CInv, NEW t \in Tasks, CheckIn(t)
  PROVE  Pool!Return(t)
<1>1. /\ pc[t] = "returning" /\ pc' = [pc EXCEPT ![t] = "releasing"]
      /\ holds' = [holds EXCEPT ![t] = NoWorker] /\ pool' = Append(pool, holds[t])
      /\ UNCHANGED <<phase, tab>>
  BY DEF CheckIn
<1>2. holds[t] \in Workers
  BY <1>1 DEF CInv, TypeOK, HoldersRun
<1>3. Pooled' = Pooled \cup {holds[t]}
  <2>1. pool \in Seq(Workers)
    BY DEF CInv, TypeOK
  <2>2. Elements(pool') = Elements(pool) \cup {holds[t]}
    BY <1>1, <1>2, <2>1, AppendElements
  <2> QED
    BY <2>2 DEF Pooled, Elements
<1>4. /\ pc'[t] = "releasing" /\ clientBar[t] = ClientState(t)
      /\ clientBar' = [clientBar EXCEPT ![t] = ClientState(t)']
  BY <1>1, Moves DEF CInv, States
<1>5. ClientState(t) = "leased" /\ ClientState(t)' = "served"
  BY <1>1, <1>4 DEF ClientState
<1>6. Stage' = Stage /\ closedBar' = closedBar
  BY <1>1, TaskFrame
<1> QED
  BY <1>1, <1>3, <1>4, <1>5, <1>6 DEF Pool!Return, closedBar, clientBar

\* Whatever a task that panics or is dropped has goes with it.
LEMMA LeavingRefines ==
  ASSUME CInv, NEW t \in Tasks, Panic(t) \/ Cancel(t)
  PROVE  Pool!Leave(t)
<1>1. PICK s \in {"panicked", "cancelled"} : pc' = [pc EXCEPT ![t] = s]
  BY DEF Panic, Cancel
<1>2. /\ pc[t] \in {"queued", "permitted", "running", "returning"}
      /\ holds' = [holds EXCEPT ![t] = NoWorker] /\ pool' = pool /\ UNCHANGED <<phase, tab>>
  BY DEF Panic, Cancel, CInv, QueueIsFaithful
<1>3. /\ pc'[t] = s /\ clientBar[t] = ClientState(t)
      /\ clientBar' = [clientBar EXCEPT ![t] = ClientState(t)']
  BY <1>1, Moves DEF CInv, States
<1>4. ClientState(t) \in {"asking", "leased"} /\ ClientState(t)' = "gone"
  BY <1>2, <1>3 DEF ClientState
<1>5. Stage' = Stage /\ closedBar' = closedBar /\ Pooled' = Pooled
  BY <1>2, TaskFrame DEF Pooled
<1> QED
  BY <1>2, <1>3, <1>4, <1>5 DEF Pool!Leave, closedBar, clientBar

\* What a task does with its permit and its closure the lease does not see.
LEMMA InnerStepsStutter ==
  ASSUME CInv, NEW t \in Tasks, NEW ok \in BOOLEAN, Acquire(t) \/ Attempt(t, ok) \/ Release(t)
  PROVE  UNCHANGED Pool!vars
<1>1. /\ UNCHANGED <<phase, tab>> /\ pool' = pool /\ holds' = holds
      /\ pc' \in {pc, [pc EXCEPT ![t] = "permitted"], [pc EXCEPT ![t] = "returning"],
                  [pc EXCEPT ![t] = "done"]}
  BY DEF Acquire, Attempt, Release
<1>2. ClientState(t)' = ClientState(t)
  <2>1. CASE Acquire(t)
    <3>1. pc[t] = "queued"
      BY <2>1 DEF Acquire, CInv, TypeOK, QueueIsFaithful
    <3>2. pc'[t] = "permitted"
      BY <2>1 DEF Acquire, CInv, TypeOK
    <3> QED
      BY <3>1, <3>2 DEF ClientState
  <2>2. CASE Attempt(t, ok)
    <3>1. pc[t] = "running" /\ pc'[t] \in {"running", "returning"}
      BY <2>2 DEF Attempt, CInv, TypeOK
    <3> QED
      BY <3>1 DEF ClientState
  <2>3. CASE Release(t)
    <3>1. pc[t] = "releasing" /\ pc'[t] = "done"
      BY <2>3 DEF Release, CInv, TypeOK
    <3> QED
      BY <3>1 DEF ClientState
  <2> QED
    BY <2>1, <2>2, <2>3
<1>3. clientBar' = clientBar
  <2>1. \A u \in Tasks : u # t => pc'[u] = pc[u]
    BY <1>1 DEF CInv, TypeOK
  <2>2. \A u \in Tasks : ClientState(u)' = ClientState(u)
    BY <1>2, <2>1 DEF ClientState
  <2> QED
    BY <2>2 DEF clientBar
<1>4. Stage' = Stage /\ closedBar' = closedBar /\ Pooled' = Pooled
  BY <1>1, TaskFrame DEF Pooled
<1> QED
  BY <1>1, <1>3, <1>4 DEF Pool!vars, closedBar, clientBar

\* Nor does it see the tab that is opened, the run that is dropped, or that close takes a while.
LEMMA OuterStepsStutter ==
  ASSUME CInv, \/ CloseStarts \/ CloseEnds \/ CloseDropped \/ UNCHANGED vars
               \/ \E w \in Workers : OpenTab(w)
               \/ \E t \in Tasks : Abort(t)
  PROVE  UNCHANGED Pool!vars
<1>1. pool' = pool /\ UNCHANGED tasks
  BY DEF CloseStarts, CloseEnds, CloseDropped, Abort, OpenTab
<1>2. Stage' = Stage
  BY DEF CloseStarts, CloseEnds, CloseDropped, Abort, OpenTab, Stage
<1>3. closedBar' = closedBar
  BY DEF CloseStarts, CloseEnds, CloseDropped, Abort, OpenTab, closedBar, CInv, TypeOK
<1>4. Pooled' = Pooled /\ clientBar' = clientBar
  BY <1>1 DEF Pooled, clientBar, ClientState
<1> QED
  BY <1>1, <1>2, <1>3, <1>4 DEF Pool!vars, closedBar, clientBar

-----------------------------------------------------------------------------
LEMMA NextRefines == CInv /\ [Next]_vars => [Pool!Next]_(Pool!vars)
<1> SUFFICES ASSUME CInv, [Next]_vars PROVE [Pool!Next]_(Pool!vars)
  OBVIOUS
<1>1. CASE UNCHANGED vars
  BY <1>1, OuterStepsStutter
<1>2. CASE \E w \in Workers : OpenTab(w) \/ SetUpTab(w) \/ CloseTab(w)
  <2>1. PICK w \in Workers : OpenTab(w) \/ SetUpTab(w) \/ CloseTab(w)
    BY <1>2
  <2>2. CASE OpenTab(w)
    BY <2>2, OuterStepsStutter
  <2>3. CASE SetUpTab(w)
    BY <2>3, SetUpTabRefines DEF Pool!Next
  <2>4. CASE CloseTab(w)
    BY <2>4, CloseTabRefines DEF Pool!Next
  <2> QED
    BY <2>1, <2>2, <2>3, <2>4
<1>3. CASE CreationFails \/ CreationEnds \/ CloseStarts \/ CloseEnds \/ CloseDropped
  BY <1>3, CreationFailsRefines, CreationEndsRefines, OuterStepsStutter DEF Pool!Next
<1>4. CASE \E t \in Tasks : Start(t) \/ Body(t) \/ Panic(t) \/ Abort(t) \/ Cancel(t)
  <2>1. PICK t \in Tasks : Start(t) \/ Body(t) \/ Panic(t) \/ Abort(t) \/ Cancel(t)
    BY <1>4
  <2>2. CASE Start(t)
    BY <2>2, StartRefines DEF Pool!Next
  <2>3. CASE Panic(t) \/ Cancel(t)
    BY <2>3, LeavingRefines DEF Pool!Next
  <2>4. CASE CheckOut(t)
    BY <2>4, CheckOutRefines DEF Pool!Next
  <2>5. CASE CheckIn(t)
    BY <2>5, CheckInRefines DEF Pool!Next
  <2>7. CASE Abort(t)
    BY <2>7, OuterStepsStutter
  <2>6. CASE Acquire(t) \/ Release(t) \/ \E ok \in BOOLEAN : Attempt(t, ok)
    BY <2>6, InnerStepsStutter
  <2> QED
    BY <2>1, <2>2, <2>3, <2>4, <2>5, <2>6, <2>7 DEF Body
<1> QED
  BY <1>1, <1>2, <1>3, <1>4 DEF Next

\* The permits, the queue, the mutex and the retries of the pool add up to a lease of
\* workers: one task at a time has a client, a client comes back or is lost with its
\* task, and only when one is lost is a task turned away.
THEOREM ClusterImplementsWorkerPool == Spec => ImplementsWorkerPool
BY InitRefines, NextRefines, InductiveInvariant, PTL
   DEF Spec, ImplementsWorkerPool, Pool!Spec
===============================================================================
