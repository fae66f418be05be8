-------------------------- MODULE NodeCluster_proofs --------------------------
(***************************************************************************)
(* Proofs about NodeCluster, for every number of workers, batches, calls   *)
(* of close and retries, and that it implements WorkerPool.                *)
(***************************************************************************)
EXTENDS NodeCluster, QueueLemmas, FiniteSetTheorems, TLAPS

USE DEF pool, calls, close, vars

-----------------------------------------------------------------------------
(* Counting batches, and what the parts of the invariant look at.          *)

LEMMA Counts ==
  ASSUME NEW S \in SUBSET Batches
  PROVE  IsFiniteSet(S) /\ Cardinality(S) \in Nat
BY NodeClusterAssumption, FS_Subset, FS_CardinalityType

LEMMA PoolSize == Cardinality(Workers) \in Nat
BY NodeClusterAssumption, FS_CardinalityType

LEMMA VecTypes ==
  ASSUME TypeOK
  PROVE  InVec \subseteq Workers /\ Len(vec) \in Nat
BY DEF TypeOK, InVec

\* A step keeps the parts of the invariant whose variables it leaves alone.
LEMMA Frames ==
  ASSUME NInv
  PROVE  /\ UNCHANGED <<pc, holds>> => HoldersRun'
         /\ UNCHANGED <<pc, queue>> => QueueIsFaithful'
         /\ UNCHANGED <<vec, holds>> => WorkersAreExclusive'
         /\ UNCHANGED <<phase, vec, holds>> => WorkersAreKept'
         /\ UNCHANGED <<phase, permits, pc>> => PermitsAreConserved'
         /\ UNCHANGED <<tab, vec, locked, closer, left>> => CloseGuardsTheVec'
         /\ UNCHANGED <<pc, attempts, results>> => AttemptsAreInOrder' /\ ResultsAreOfOneAttempt'
         /\ phase' = "ready" => QuietUntilReady' /\ SetUpTabsArePooled'
<1>1. /\ UNCHANGED <<pc, holds>> => HoldersRun'
      /\ UNCHANGED <<pc, queue>> => QueueIsFaithful'
      /\ UNCHANGED <<tab, vec, locked, closer, left>> => CloseGuardsTheVec'
  BY DEF NInv, HoldersRun, QueueIsFaithful, CloseGuardsTheVec, InVec
<1>2. /\ UNCHANGED <<vec, holds>> => WorkersAreExclusive'
      /\ UNCHANGED <<phase, vec, holds>> => WorkersAreKept'
  BY DEF NInv, WorkersAreExclusive, WorkersAreKept, InVec, Held, Holders
<1>3. UNCHANGED <<phase, permits, pc>> => PermitsAreConserved'
  BY DEF NInv, PermitsAreConserved, Permitted, HasPermit
<1>4. UNCHANGED <<pc, attempts, results>> => AttemptsAreInOrder' /\ ResultsAreOfOneAttempt'
  BY DEF NInv, AttemptsAreInOrder, ResultsAreOfOneAttempt, Failed
<1>5. phase' = "ready" => QuietUntilReady' /\ SetUpTabsArePooled'
  BY DEF QuietUntilReady, SetUpTabsArePooled
<1> QED
  BY <1>1, <1>2, <1>3, <1>4, <1>5

\* The Vec and the queue as sets.
LEMMA VecElements ==
  ASSUME NInv
  PROVE  vec \in Seq(Workers) /\ InVec = Elements(vec) /\ HasNoDuplicates(vec)
BY DEF NInv, TypeOK, InVec, Elements, WorkersAreExclusive, HasNoDuplicates

LEMMA QueueElements ==
  ASSUME NInv
  PROVE  /\ queue \in Seq(Batches) /\ HasNoDuplicates(queue)
         /\ \A c \in Batches : pc[c] = "queued" <=> c \in Elements(queue)
<1>1. queue \in Seq(Batches) /\ QueueIsFaithful
  BY DEF NInv, TypeOK
<1> QED
  BY <1>1 DEF QueueIsFaithful, Elements, HasNoDuplicates

\* Batches and calls of close are under way in a ready pool alone.
LEMMA Busy ==
  ASSUME NInv
  PROVE  /\ \A b \in Batches : pc[b] # "idle" => phase = "ready"
         /\ queue # << >> => phase = "ready"
         /\ \A x \in Closers : closer[x] # "idle" => phase = "ready"
BY DEF NInv, QuietUntilReady

-----------------------------------------------------------------------------
(* The inductive invariant.                                                *)

LEMMA InitNInv == Init => NInv
<1> SUFFICES ASSUME Init PROVE NInv
  OBVIOUS
<1> USE DEF Init
<1>1. TypeOK
  BY PoolSize, NodeClusterAssumption DEF TypeOK
<1>2. InVec = {} /\ Len(vec) = 0 /\ Len(queue) = 0
  BY DEF InVec
<1>3. /\ QuietUntilReady /\ HoldersRun /\ QueueIsFaithful /\ WorkersAreExclusive
      /\ WorkersAreKept /\ PermitsAreConserved
  BY <1>2 DEF QuietUntilReady, HoldersRun, QueueIsFaithful, WorkersAreExclusive, Holders,
     WorkersAreKept, PermitsAreConserved
<1>4. CloseGuardsTheVec /\ SetUpTabsArePooled
  BY <1>2 DEF CloseGuardsTheVec, SetUpTabsArePooled
<1>5. AttemptsAreInOrder /\ ResultsAreOfOneAttempt
  BY NodeClusterAssumption DEF AttemptsAreInOrder, ResultsAreOfOneAttempt
<1> QED
  BY <1>1, <1>3, <1>4, <1>5 DEF NInv

\* No batch is under way while the pool is being created.
LEMMA CreatingNInv ==
  ASSUME NInv, TypeOK', SetUpTabsArePooled', WorkersAreExclusive',
         phase \in {"creating", "rollback"}, phase' # "ready",
         UNCHANGED <<locked, permits, calls, close>>
  PROVE  NInv'
<1>1. QuietUntilReady' /\ WorkersAreKept' /\ PermitsAreConserved'
  BY DEF NInv, QuietUntilReady, WorkersAreKept, PermitsAreConserved
<1>2. CloseGuardsTheVec'
  BY DEF NInv, QuietUntilReady, CloseGuardsTheVec
<1> QED
  BY <1>1, <1>2, Frames DEF NInv

LEMMA CreateTabNInv ==
  ASSUME NInv, NEW w \in Workers, CreateTab(w)
  PROVE  NInv'
<1>1. /\ phase = "creating" /\ tab[w] = "none" /\ tab' = [tab EXCEPT ![w] = "created"]
      /\ UNCHANGED <<phase, pool, calls, close>>
  BY DEF CreateTab
<1>2. TypeOK'
  BY <1>1 DEF NInv, TypeOK
<1>3. SetUpTabsArePooled'
  BY <1>1 DEF NInv, TypeOK, SetUpTabsArePooled, InVec
<1> QED
  BY <1>1, <1>2, <1>3, CreatingNInv, Frames

LEMMA SpawnWorkerNInv ==
  ASSUME NInv, NEW w \in Workers, SpawnWorker(w)
  PROVE  NInv'
<1>1. /\ phase = "creating" /\ tab[w] = "created" /\ tab' = [tab EXCEPT ![w] = "setup"]
      /\ vec' = Append(vec, w)
      /\ UNCHANGED <<phase, locked, permits, calls, close>>
  BY DEF SpawnWorker
<1>2. TypeOK'
  BY <1>1 DEF NInv, TypeOK
<1>3. InVec = {v \in Workers : tab[v] = "setup"} /\ w \notin InVec
  BY <1>1 DEF NInv, SetUpTabsArePooled
<1>4. InVec' = InVec \cup {w} /\ HasNoDuplicates(vec')
  <2>1. Elements(vec') = Elements(vec) \cup {w} /\ HasNoDuplicates(vec')
    BY <1>1, <1>3, VecElements, AppendElements
  <2> QED
    BY <2>1, VecElements DEF InVec, Elements
<1>5. SetUpTabsArePooled'
  BY <1>1, <1>3, <1>4 DEF NInv, TypeOK, SetUpTabsArePooled
<1>6. WorkersAreExclusive'
  <2>1. \A b \in Batches : holds[b] = NoWorker
    BY <1>1 DEF NInv, QuietUntilReady, HoldersRun
  <2> QED
    BY <1>1, <1>4, <2>1 DEF WorkersAreExclusive, HasNoDuplicates, Held, Holders
<1> QED
  BY <1>1, <1>2, <1>5, <1>6, CreatingNInv

LEMMA RollingBackNInv ==
  ASSUME NInv, SpawnFails \/ \E w \in Workers : RollBack(w)
  PROVE  NInv'
<1>1. /\ phase \in {"creating", "rollback"} /\ phase' = "rollback"
      /\ UNCHANGED <<pool, calls, close>>
      /\ tab' = tab \/ \E w \in InVec : tab' = [tab EXCEPT ![w] = "closed"]
  BY DEF SpawnFails, RollBack
<1>2. TypeOK'
  BY <1>1 DEF NInv, TypeOK
<1>3. SetUpTabsArePooled'
  BY <1>1 DEF NInv, TypeOK, SetUpTabsArePooled, InVec
<1> QED
  BY <1>1, <1>2, <1>3, CreatingNInv, Frames

\* The rollback has closed what was set up: that is in the Vec.
LEMMA CreateFailsNInv ==
  ASSUME NInv, CreateFails
  PROVE  NInv'
<1>1. /\ phase = "rollback" /\ \A w \in InVec : tab[w] = "closed"
      /\ phase' = "failed" /\ vec' = << >> /\ UNCHANGED <<tab, locked, permits, calls, close>>
  BY DEF CreateFails
<1>2. TypeOK'
  BY <1>1 DEF NInv, TypeOK
<1>3. SetUpTabsArePooled'
  BY <1>1 DEF NInv, SetUpTabsArePooled
<1>4. WorkersAreExclusive'
  BY <1>1 DEF NInv, WorkersAreExclusive, InVec, Held, Holders
<1> QED
  BY <1>1, <1>2, <1>3, <1>4, CreatingNInv

LEMMA CreatedNInv ==
  ASSUME NInv, Created
  PROVE  NInv'
<1>1. /\ phase = "creating" /\ \A w \in Workers : tab[w] = "setup"
      /\ phase' = "ready" /\ permits' = Cardinality(Workers)
      /\ UNCHANGED <<tab, vec, locked, calls, close>>
  BY DEF Created
<1>2. TypeOK'
  BY <1>1, PoolSize DEF NInv, TypeOK
<1>3. WorkersAreKept'
  <2>1. InVec = Workers
    BY <1>1 DEF NInv, SetUpTabsArePooled
  <2>2. \A b \in Batches : holds[b] = NoWorker
    BY <1>1 DEF NInv, QuietUntilReady, HoldersRun
  <2> QED
    BY <1>1, <2>1, <2>2 DEF WorkersAreKept, InVec, Held
<1>4. PermitsAreConserved'
  <2>1. Permitted' = {}
    BY <1>1 DEF NInv, QuietUntilReady, Permitted, HasPermit
  <2> QED
    BY <1>1, <2>1, FS_EmptySet, PoolSize DEF PermitsAreConserved
<1> QED
  BY <1>1, <1>2, <1>3, <1>4, Frames DEF NInv

-----------------------------------------------------------------------------
(* The steps of a batch.                                                   *)

LEMMA Budget ==
  ASSUME NInv, phase = "ready"
  PROVE  /\ permits + Cardinality(Permitted) = Cardinality(Workers)
         /\ permits \in Nat /\ Cardinality(Permitted) \in Nat /\ IsFiniteSet(Permitted)
<1>1. Permitted \in SUBSET Batches
  BY DEF Permitted
<1> QED
  BY <1>1, Counts, PoolSize DEF NInv, TypeOK, PermitsAreConserved

\* A permit is taken or dropped.
LEMMA PermitMoves ==
  ASSUME NInv, phase = "ready", phase' = "ready", NEW b \in Batches,
         \/ /\ permits' = permits - 1 /\ b \notin Permitted /\ Permitted' = Permitted \cup {b}
            /\ permits > 0
         \/ permits' = permits + 1 /\ b \in Permitted /\ Permitted' = Permitted \ {b}
  PROVE  PermitsAreConserved' /\ permits' \in 0 .. Cardinality(Workers)
<1>1. CASE permits' = permits - 1
  <2>1. Cardinality(Permitted') = Cardinality(Permitted) + 1
    BY <1>1, Budget, FS_AddElement
  <2> QED
    BY <1>1, <2>1, Budget, PoolSize DEF PermitsAreConserved
<1>2. CASE permits' = permits + 1
  <2>1. Cardinality(Permitted') = Cardinality(Permitted) - 1 /\ Cardinality(Permitted) # 0
    BY <1>2, Budget, FS_RemoveElement, FS_EmptySet
  <2> QED
    BY <1>2, <2>1, Budget, PoolSize DEF PermitsAreConserved
<1> QED
  BY <1>1, <1>2, Budget

LEMMA ExecuteNInv ==
  ASSUME NInv, NEW b \in Batches, Execute(b)
  PROVE  NInv'
<1>1. /\ phase = "ready" /\ pc[b] = "idle" /\ pc' = [pc EXCEPT ![b] = "queued"]
      /\ queue' = Append(queue, b)
      /\ UNCHANGED <<phase, tab, pool, holds, attempts, results, close>>
  BY DEF Execute
<1>2. TypeOK'
  BY <1>1 DEF NInv, TypeOK
<1>3. pc'[b] = "queued" /\ \A c \in Batches \ {b} : pc'[c] = pc[c]
  BY <1>1 DEF NInv, TypeOK
<1>4. HoldersRun'
  BY <1>1, <1>3 DEF NInv, HoldersRun
<1>5. QueueIsFaithful'
  <2>1. /\ queue' = Append(queue, b) /\ queue \in Seq(Batches)
        /\ b \notin Elements(queue) /\ HasNoDuplicates(queue)
        /\ \A c \in Batches : pc[c] = "queued" <=> c \in Elements(queue)
    BY <1>1, QueueElements
  <2>2. Elements(queue') = Elements(queue) \cup {b} /\ HasNoDuplicates(queue')
    BY <2>1, AppendElements
  <2>3. \A c \in Batches : pc'[c] = "queued" <=> c \in Elements(queue')
    BY <1>3, <2>1, <2>2
  <2> QED
    BY <2>2, <2>3 DEF QueueIsFaithful, Elements, HasNoDuplicates
<1>6. PermitsAreConserved'
  <2>1. Permitted' = Permitted
    BY <1>1, <1>3 DEF Permitted, HasPermit
  <2> QED
    BY <1>1, <2>1 DEF NInv, PermitsAreConserved
<1>7. AttemptsAreInOrder' /\ ResultsAreOfOneAttempt'
  BY <1>1, <1>3 DEF NInv, AttemptsAreInOrder, ResultsAreOfOneAttempt, Failed
<1> QED
  BY <1>1, <1>2, <1>4, <1>5, <1>6, <1>7, Frames DEF NInv

LEMMA AcquireNInv ==
  ASSUME NInv, NEW b \in Batches, Acquire(b)
  PROVE  NInv'
<1>1. /\ queue # << >> /\ b = Head(queue) /\ permits > 0
      /\ queue' = Tail(queue) /\ permits' = permits - 1
      /\ pc' = [pc EXCEPT ![b] = "permitted"]
      /\ UNCHANGED <<phase, tab, vec, locked, holds, attempts, results, close>>
  BY DEF Acquire
<1>2. phase = "ready" /\ phase' = "ready"
  BY <1>1, Busy
<1>3. /\ queue \in Seq(Batches) /\ HasNoDuplicates(queue)
      /\ \A c \in Batches : pc[c] = "queued" <=> c \in Elements(queue)
  BY QueueElements
<1>4. /\ Elements(queue) = Elements(queue') \cup {b} /\ b \notin Elements(queue')
      /\ HasNoDuplicates(queue')
  BY <1>1, <1>3, TailElements
<1>5. /\ pc[b] = "queued" /\ pc'[b] = "permitted"
      /\ \A c \in Batches \ {b} : pc'[c] = pc[c]
  BY <1>1, <1>3, <1>4 DEF NInv, TypeOK
<1>6. HoldersRun'
  BY <1>1, <1>5 DEF NInv, HoldersRun
<1>7. QueueIsFaithful'
  <2>1. \A c \in Batches : pc'[c] = "queued" <=> c \in Elements(queue')
    BY <1>3, <1>4, <1>5
  <2> QED
    BY <1>4, <2>1 DEF QueueIsFaithful, Elements, HasNoDuplicates
<1>8. PermitsAreConserved' /\ permits' \in 0 .. Cardinality(Workers)
  <2>1. b \notin Permitted /\ Permitted' = Permitted \cup {b}
    BY <1>5 DEF Permitted, HasPermit
  <2> QED
    BY <1>1, <1>2, <2>1, PermitMoves
<1>9. TypeOK'
  BY <1>1, <1>3, <1>8 DEF NInv, TypeOK
<1>10. AttemptsAreInOrder' /\ ResultsAreOfOneAttempt'
  BY <1>1, <1>5 DEF NInv, AttemptsAreInOrder, ResultsAreOfOneAttempt, Failed
<1> QED
  BY <1>1, <1>2, <1>6, <1>7, <1>8, <1>9, <1>10, Frames DEF NInv

\* expect("worker missing") holds: a batch with a permit finds a worker, since those
\* that have one are fewer than the permits and no worker leaves the pool.
LEMMA WorkerIsThere ==
  ASSUME NInv, NEW b \in Batches, pc[b] = "permitted"
  PROVE  vec # << >>
<1> SUFFICES ASSUME vec = << >> PROVE FALSE
  OBVIOUS
<1>1. phase = "ready"
  BY Busy
<1>2. Holders \in SUBSET (Permitted \ {b}) /\ b \in Permitted /\ Permitted \in SUBSET Batches
  BY DEF NInv, HoldersRun, Holders, Permitted, HasPermit
<1>3. Cardinality(Holders) < Cardinality(Workers) /\ IsFiniteSet(Holders)
  <2>1. Cardinality(Permitted \ {b}) = Cardinality(Permitted) - 1
    BY <1>1, <1>2, Budget, FS_RemoveElement
  <2>2. Cardinality(Holders) <= Cardinality(Permitted \ {b})
    BY <1>2, Counts, FS_Subset
  <2>3. Cardinality(Holders) \in Nat /\ IsFiniteSet(Holders)
    BY <1>2, Counts
  <2> QED
    BY <1>1, <2>1, <2>2, <2>3, Budget, PoolSize
<1>4. InVec = {} /\ Held = Workers
  <2>1. InVec = {}
    BY DEF InVec
  <2> QED
    BY <1>1, <2>1 DEF NInv, WorkersAreKept
<1> DEFINE worker == [c \in Holders |-> holds[c]]
<1>5. worker \in Surjection(Holders, Workers)
  <2>1. \A c \in Holders : holds[c] \in Workers
    BY DEF NInv, TypeOK, Holders
  <2>2. \A w \in Workers : \E c \in Holders : holds[c] = w
    BY <1>4 DEF Held, Holders
  <2> QED
    BY <2>1, <2>2 DEF Surjection
<1>6. Cardinality(Workers) <= Cardinality(Holders)
  BY <1>3, <1>5, FS_Surjection
<1>7. Cardinality(Holders) \in Nat
  BY <1>3, FS_CardinalityType
<1> QED
  BY <1>3, <1>6, <1>7, PoolSize

\* The worker popped from the Vec.
LEMMA PopWorker ==
  ASSUME NInv, vec # << >>, vec' = SubSeq(vec, 1, Len(vec) - 1)
  PROVE  /\ vec[Len(vec)] \in InVec /\ vec[Len(vec)] \in Workers
         /\ vec' \in Seq(Workers) /\ HasNoDuplicates(vec')
         /\ InVec' = InVec \ {vec[Len(vec)]}
<1>1. vec \in Seq(Workers) /\ HasNoDuplicates(vec) /\ InVec = Elements(vec)
  BY VecElements
<1>2. /\ vec' \in Seq(Workers) /\ HasNoDuplicates(vec')
      /\ Elements(vec) = Elements(vec') \cup {vec[Len(vec)]}
      /\ vec[Len(vec)] \notin Elements(vec')
  BY <1>1, FrontElements
<1>3. InVec' = Elements(vec')
  BY DEF InVec, Elements
<1> QED
  BY <1>1, <1>2, <1>3, VecTypes DEF NInv

LEMMA CheckOutNInv ==
  ASSUME NInv, NEW b \in Batches, CheckOut(b)
  PROVE  NInv'
<1> DEFINE w == vec[Len(vec)]
<1>1. pc[b] = "permitted" /\ locked = {} /\ vec # << >>
  BY WorkerIsThere DEF CheckOut
<1>2. /\ pc' = [pc EXCEPT ![b] = "running"] /\ holds' = [holds EXCEPT ![b] = w]
      /\ vec' = SubSeq(vec, 1, Len(vec) - 1) /\ attempts' = [attempts EXCEPT ![b] = 1]
      /\ UNCHANGED <<phase, tab, locked, permits, queue, results, close>>
  BY <1>1 DEF CheckOut
<1>3. phase = "ready" /\ phase' = "ready"
  BY <1>1, <1>2, Busy
<1>4. /\ w \in InVec /\ w \in Workers /\ w # NoWorker
      /\ vec' \in Seq(Workers) /\ HasNoDuplicates(vec') /\ InVec' = InVec \ {w}
  BY <1>1, <1>2, PopWorker, NodeClusterAssumption
<1> HIDE DEF w
<1>5. /\ pc'[b] = "running" /\ holds'[b] = w /\ holds[b] = NoWorker
      /\ \A c \in Batches \ {b} : pc'[c] = pc[c] /\ holds'[c] = holds[c]
  BY <1>1, <1>2 DEF NInv, TypeOK, HoldersRun
<1>6. TypeOK'
  <2>1. attempts' \in [Batches -> 0 .. Retries + 1]
    BY <1>2, NodeClusterAssumption DEF NInv, TypeOK
  <2> QED
    BY <1>2, <1>4, <2>1 DEF NInv, TypeOK
<1>7. HoldersRun'
  BY <1>4, <1>5 DEF NInv, HoldersRun
<1>8. QueueIsFaithful'
  BY <1>1, <1>2, <1>5 DEF NInv, QueueIsFaithful
<1>9. Held' = Held \cup {w} /\ w \notin Held
  BY <1>4, <1>5 DEF NInv, WorkersAreExclusive, Held
<1>10. WorkersAreExclusive' /\ WorkersAreKept'
  BY <1>3, <1>4, <1>5, <1>9
     DEF NInv, WorkersAreExclusive, WorkersAreKept, HasNoDuplicates, Held, Holders
<1>11. PermitsAreConserved'
  <2>1. Permitted' = Permitted
    BY <1>1, <1>5 DEF Permitted, HasPermit
  <2> QED
    BY <1>2, <2>1 DEF NInv, PermitsAreConserved
<1>12. CloseGuardsTheVec'
  BY <1>1, <1>2 DEF NInv, CloseGuardsTheVec
<1>13. AttemptsAreInOrder' /\ ResultsAreOfOneAttempt'
  BY <1>1, <1>2, <1>5 DEF NInv, TypeOK, AttemptsAreInOrder, ResultsAreOfOneAttempt, Failed
<1> QED
  BY <1>3, <1>6, <1>7, <1>8, <1>10, <1>11, <1>12, <1>13, Frames DEF NInv

LEMMA RunActionNInv ==
  ASSUME NInv, NEW b \in Batches, NEW ok \in BOOLEAN, RunAction(b, ok)
  PROVE  NInv'
<1> DEFINE r == results[b]
<1>1. /\ pc[b] = "running" /\ Len(r) < Length[b] /\ ~Failed(r)
      /\ results' = [results EXCEPT ![b] = Append(r, ok)]
      /\ UNCHANGED <<phase, tab, pool, queue, pc, holds, attempts, close>>
  BY DEF RunAction, InAttempt
<1>2. phase = "ready" /\ phase' = "ready"
  BY <1>1, Busy
<1>3. r \in Seq(BOOLEAN) /\ Length[b] \in Nat /\ Append(r, ok) \in Seq(BOOLEAN)
  BY NodeClusterAssumption DEF NInv, TypeOK
<1>4. TypeOK'
  BY <1>1, <1>3 DEF NInv, TypeOK
<1>5. results'[b] = Append(r, ok) /\ \A c \in Batches \ {b} : results'[c] = results[c]
  BY <1>1 DEF NInv, TypeOK
<1>6. Len(results'[b]) = Len(r) + 1 /\ Len(r) \in Nat
      /\ \A k \in 1 .. Len(r) : results'[b][k] = r[k]
  BY <1>3, <1>5
<1>7. AttemptsAreInOrder'
  BY <1>1, <1>3, <1>5, <1>6 DEF NInv, AttemptsAreInOrder
<1>8. \A k \in 1 .. Len(r) : r[k]
  <2>1. r # << >> => r[Len(r)]
    BY <1>1 DEF Failed
  <2>2. \A k \in 1 .. Len(r) - 1 : r[k]
    BY DEF NInv, ResultsAreOfOneAttempt
  <2>3. ASSUME NEW k \in 1 .. Len(r) PROVE k \in 1 .. Len(r) - 1 \/ (k = Len(r) /\ r # << >>)
    BY <1>3
  <2> QED
    BY <2>1, <2>2, <2>3
<1>9. ResultsAreOfOneAttempt'
  <2>1. \A k \in 1 .. Len(results'[b]) - 1 : results'[b][k]
    BY <1>6, <1>8
  <2>2. pc'[b] = "running" /\ UNCHANGED <<pc, attempts>>
    BY <1>1
  <2> QED
    BY <1>5, <2>1, <2>2 DEF NInv, ResultsAreOfOneAttempt, Failed
<1> QED
  BY <1>1, <1>2, <1>4, <1>7, <1>9, Frames DEF NInv

LEMMA RetryNInv ==
  ASSUME NInv, NEW b \in Batches, Retry(b)
  PROVE  NInv'
<1>1. /\ pc[b] = "running" /\ attempts[b] <= Retries
      /\ attempts' = [attempts EXCEPT ![b] = attempts[b] + 1]
      /\ results' = [results EXCEPT ![b] = << >>]
      /\ UNCHANGED <<phase, tab, pool, queue, pc, holds, close>>
  BY DEF Retry
<1>2. phase = "ready" /\ phase' = "ready"
  BY <1>1, Busy
<1>3. attempts' \in [Batches -> 0 .. Retries + 1]
  BY <1>1, NodeClusterAssumption DEF NInv, TypeOK
<1>4. TypeOK'
  BY <1>1, <1>3 DEF NInv, TypeOK
<1>5. /\ results'[b] = << >> /\ Length[b] \in Nat
      /\ \A c \in Batches \ {b} : results'[c] = results[c] /\ attempts'[c] = attempts[c]
  BY <1>1, NodeClusterAssumption DEF NInv, TypeOK
<1>6. AttemptsAreInOrder' /\ ResultsAreOfOneAttempt'
  BY <1>1, <1>5 DEF NInv, AttemptsAreInOrder, ResultsAreOfOneAttempt, Failed
<1> QED
  BY <1>1, <1>2, <1>4, <1>6, Frames DEF NInv

LEMMA EndAttemptsNInv ==
  ASSUME NInv, NEW b \in Batches, EndAttempts(b)
  PROVE  NInv'
<1>1. /\ pc[b] = "running" /\ pc' = [pc EXCEPT ![b] = "returning"]
      /\ Len(results[b]) >= Length[b] \/ Failed(results[b])
      /\ ~Failed(results[b]) \/ attempts[b] > Retries
      /\ UNCHANGED <<phase, tab, pool, queue, holds, attempts, results, close>>
  <2>1. Len(results[b]) \in Nat /\ Length[b] \in Nat
    BY NodeClusterAssumption DEF NInv, TypeOK
  <2> QED
    BY <2>1 DEF EndAttempts, InAttempt
<1>2. phase = "ready" /\ phase' = "ready"
  BY <1>1, Busy
<1>3. TypeOK'
  BY <1>1 DEF NInv, TypeOK
<1>4. pc'[b] = "returning" /\ \A c \in Batches \ {b} : pc'[c] = pc[c]
  BY <1>1 DEF NInv, TypeOK
<1>5. HoldersRun' /\ QueueIsFaithful'
  BY <1>1, <1>4 DEF NInv, HoldersRun, QueueIsFaithful
<1>6. PermitsAreConserved'
  <2>1. Permitted' = Permitted
    BY <1>1, <1>4 DEF Permitted, HasPermit
  <2> QED
    BY <1>1, <2>1 DEF NInv, PermitsAreConserved
<1>7. AttemptsAreInOrder'
  BY <1>1, <1>4 DEF NInv, AttemptsAreInOrder
<1>8. ResultsAreOfOneAttempt'
  <2>1. IF Failed(results[b]) THEN attempts[b] = Retries + 1 ELSE Len(results[b]) = Length[b]
    <3>1. /\ Len(results[b]) \in Nat /\ Length[b] \in Nat /\ Len(results[b]) <= Length[b]
          /\ attempts[b] \in 0 .. Retries + 1 /\ Retries \in Nat
      BY NodeClusterAssumption DEF NInv, TypeOK, AttemptsAreInOrder
    <3> QED
      BY <1>1, <3>1
  <2> QED
    BY <1>1, <1>4, <2>1 DEF NInv, ResultsAreOfOneAttempt, Failed
<1> QED
  BY <1>1, <1>2, <1>3, <1>5, <1>6, <1>7, <1>8, Frames DEF NInv

LEMMA CheckInNInv ==
  ASSUME NInv, NEW b \in Batches, CheckIn(b)
  PROVE  NInv'
<1> DEFINE w == holds[b]
<1>1. /\ pc[b] = "returning" /\ locked = {} /\ vec' = Append(vec, w)
      /\ holds' = [holds EXCEPT ![b] = NoWorker] /\ pc' = [pc EXCEPT ![b] = "releasing"]
      /\ UNCHANGED <<phase, tab, locked, permits, queue, attempts, results, close>>
  BY DEF CheckIn
<1>2. phase = "ready" /\ phase' = "ready"
  BY <1>1, Busy
<1>3. w \in Workers /\ w # NoWorker /\ w \in Held /\ b \in Holders
  BY <1>1 DEF NInv, TypeOK, HoldersRun, Held, Holders
<1>4. w \notin InVec
  BY <1>3 DEF NInv, WorkersAreExclusive
<1>5. InVec' = InVec \cup {w} /\ HasNoDuplicates(vec')
  <2>1. Elements(vec') = Elements(vec) \cup {w} /\ HasNoDuplicates(vec')
    BY <1>1, <1>3, <1>4, VecElements, AppendElements
  <2> QED
    BY <2>1, VecElements DEF InVec, Elements
<1>6. /\ pc'[b] = "releasing" /\ holds'[b] = NoWorker
      /\ \A c \in Batches \ {b} : pc'[c] = pc[c] /\ holds'[c] = holds[c]
  BY <1>1 DEF NInv, TypeOK
<1> HIDE DEF w
<1>7. TypeOK'
  BY <1>1, <1>3 DEF NInv, TypeOK
<1>8. HoldersRun' /\ QueueIsFaithful'
  BY <1>1, <1>6 DEF NInv, HoldersRun, QueueIsFaithful
<1>9. Held' = Held \ {w}
  <2>1. \A c \in Holders \ {b} : holds[c] # w
    BY <1>3 DEF NInv, WorkersAreExclusive, w
  <2> QED
    BY <1>6, <2>1 DEF Held, Holders, w
<1>10. WorkersAreExclusive' /\ WorkersAreKept'
  <2>1. InVec' \cap Held' = {} /\ InVec' \cup Held' = InVec \cup Held
    BY <1>3, <1>5, <1>9 DEF NInv, WorkersAreExclusive
  <2>2. \A c, d \in Holders' : holds'[c] = holds'[d] => c = d
    BY <1>6 DEF NInv, WorkersAreExclusive, Holders
  <2>3. WorkersAreExclusive'
    BY <1>5, <2>1, <2>2 DEF WorkersAreExclusive, HasNoDuplicates
  <2>4. WorkersAreKept'
    BY <1>2, <2>1 DEF NInv, WorkersAreKept
  <2> QED
    BY <2>3, <2>4
<1>11. PermitsAreConserved'
  <2>1. Permitted' = Permitted
    BY <1>1, <1>6 DEF Permitted, HasPermit
  <2> QED
    BY <1>1, <2>1 DEF NInv, PermitsAreConserved
<1>12. CloseGuardsTheVec'
  BY <1>1 DEF NInv, CloseGuardsTheVec
<1>13. AttemptsAreInOrder' /\ ResultsAreOfOneAttempt'
  BY <1>1, <1>6 DEF NInv, AttemptsAreInOrder, ResultsAreOfOneAttempt, Failed
<1> QED
  BY <1>2, <1>7, <1>8, <1>10, <1>11, <1>12, <1>13, Frames DEF NInv

LEMMA ReleaseNInv ==
  ASSUME NInv, NEW b \in Batches, Release(b)
  PROVE  NInv'
<1>1. /\ pc[b] = "releasing" /\ permits' = permits + 1 /\ pc' = [pc EXCEPT ![b] = "done"]
      /\ UNCHANGED <<phase, tab, vec, locked, queue, holds, attempts, results, close>>
  BY DEF Release
<1>2. phase = "ready" /\ phase' = "ready"
  BY <1>1, Busy
<1>3. pc'[b] = "done" /\ \A c \in Batches \ {b} : pc'[c] = pc[c]
  BY <1>1 DEF NInv, TypeOK
<1>4. PermitsAreConserved' /\ permits' \in 0 .. Cardinality(Workers)
  <2>1. b \in Permitted /\ Permitted' = Permitted \ {b}
    BY <1>1, <1>3 DEF Permitted, HasPermit
  <2> QED
    BY <1>1, <1>2, <2>1, PermitMoves
<1>5. TypeOK'
  BY <1>1, <1>4 DEF NInv, TypeOK
<1>6. HoldersRun' /\ QueueIsFaithful'
  BY <1>1, <1>3 DEF NInv, HoldersRun, QueueIsFaithful
<1>7. AttemptsAreInOrder' /\ ResultsAreOfOneAttempt'
  BY <1>1, <1>3 DEF NInv, AttemptsAreInOrder, ResultsAreOfOneAttempt, Failed
<1> QED
  BY <1>1, <1>2, <1>4, <1>5, <1>6, <1>7, Frames DEF NInv

-----------------------------------------------------------------------------
(* The steps of close.                                                     *)

LEMMA ClosingNInv ==
  ASSUME NInv, NEW x \in Closers, CloseStarts(x) \/ Closing(x)
  PROVE  NInv'
<1>1. /\ phase = "ready" /\ phase' = "ready" /\ UNCHANGED <<vec, permits, calls>>
  BY Busy DEF CloseStarts, Closing, CloseTab, CloseEnds
<1>2. TypeOK' /\ CloseGuardsTheVec'
  <2>1. CASE CloseStarts(x)
    BY <2>1, VecTypes DEF CloseStarts, NInv, TypeOK, CloseGuardsTheVec, InVec
  <2>2. CASE CloseEnds(x)
    BY <2>2 DEF CloseEnds, NInv, TypeOK, CloseGuardsTheVec, InVec
  <2>3. ASSUME NEW w \in Workers, CloseTab(x, w) PROVE TypeOK' /\ CloseGuardsTheVec'
    BY <2>3 DEF CloseTab, NInv, TypeOK, CloseGuardsTheVec, InVec
  <2> QED
    BY <2>1, <2>2, <2>3 DEF Closing
<1> QED
  BY <1>1, <1>2, Frames DEF NInv

-----------------------------------------------------------------------------
LEMMA NextNInv == NInv /\ [Next]_vars => NInv'
<1> SUFFICES ASSUME NInv, [Next]_vars PROVE NInv'
  OBVIOUS
<1>1. CASE \E w \in Workers : CreateTab(w) \/ SpawnWorker(w) \/ RollBack(w)
  BY <1>1, CreateTabNInv, SpawnWorkerNInv, RollingBackNInv
<1>2. CASE SpawnFails \/ CreateFails \/ Created
  BY <1>2, RollingBackNInv, CreateFailsNInv, CreatedNInv
<1>3. CASE \E b \in Batches : Execute(b) \/ Body(b)
  BY <1>3, ExecuteNInv, AcquireNInv, CheckOutNInv, RetryNInv, EndAttemptsNInv, CheckInNInv,
     ReleaseNInv, RunActionNInv DEF Body
<1>4. CASE \E x \in Closers : CloseStarts(x) \/ Closing(x)
  BY <1>4, ClosingNInv
<1>5. CASE UNCHANGED vars
  <2>1. TypeOK' /\ QuietUntilReady' /\ SetUpTabsArePooled'
    BY <1>5 DEF NInv, TypeOK, QuietUntilReady, SetUpTabsArePooled, InVec
  <2> QED
    BY <1>5, <2>1, Frames DEF NInv
<1> QED
  BY <1>1, <1>2, <1>3, <1>4, <1>5 DEF Next

\* NInv is the inductive invariant of the Node pool.
THEOREM InductiveInvariant == Spec => []NInv
<1>1. Init => NInv
  BY InitNInv
<1>2. NInv /\ [Next]_vars => NInv'
  BY NextNInv
<1> QED
  BY <1>1, <1>2, PTL DEF Spec

\* The types of the cluster's state.
THEOREM TypeCorrect == Spec => []TypeOK
<1>1. NInv => TypeOK
  BY DEF NInv
<1> QED
  BY <1>1, InductiveInvariant, PTL

\* What execute reports is its last attempt, up to the first failure.
THEOREM ResultsAreOfOneAttemptHolds == Spec => []ResultsAreOfOneAttempt
<1>1. NInv => ResultsAreOfOneAttempt
  BY DEF NInv
<1> QED
  BY <1>1, InductiveInvariant, PTL

\* A create that fails has closed every worker it had set up.
THEOREM RollBackIsCompleteHolds == Spec => []RollBackIsComplete
<1>1. NInv => RollBackIsComplete
  BY DEF NInv, SetUpTabsArePooled, RollBackIsComplete
<1> QED
  BY <1>1, InductiveInvariant, PTL

\* expect("worker missing") in execute never panics: the actions of JS are neither
\* dropped nor do they panic, so every permit is matched by a worker.
THEOREM WorkersAreNeverMissing ==
  Spec => [](\A b \in Batches : /\ pc[b] = "permitted" => vec # << >>
                                /\ pc[b] # "missing")
<1>1. NInv => \A b \in Batches : /\ pc[b] = "permitted" => vec # << >>
                                 /\ pc[b] # "missing"
  BY WorkerIsThere DEF NInv, HoldersRun
<1> QED
  BY <1>1, InductiveInvariant, PTL

\* The mutex is held by a close that can go on, the waiting batches are all in the
\* queue, and the permits that no batch has are all there: nobody waits for ever on a
\* permit or a mutex that nobody gives back.
THEOREM BatchesNeverWaitForNobody == Spec => []SomeoneCanGoOn
<1>1. NInv => SomeoneCanGoOn
  <2> SUFFICES ASSUME NInv, NEW b \in Batches, pc[b] \notin {"idle", "done"},
                      \A x \in Closers : closer[x] # "closing",
                      locked # {} \/ \A c \in Batches : ~HasPermit(c)
               PROVE  queue # << >> /\ permits > 0
    BY DEF SomeoneCanGoOn
  <2>1. locked = {}
    BY DEF NInv, TypeOK, CloseGuardsTheVec
  <2>2. \A c \in Batches : ~HasPermit(c)
    BY <2>1
  <2>3. pc[b] = "queued"
    BY <2>2 DEF NInv, TypeOK, HoldersRun, HasPermit
  <2>4. queue # << >>
    BY <2>3 DEF NInv, QueueIsFaithful
  <2>5. phase = "ready"
    BY <2>3, Busy
  <2>6. Cardinality(Permitted) = 0
    <3>1. Permitted = {}
      BY <2>2 DEF Permitted
    <3> QED
      BY <3>1, FS_EmptySet
  <2>7. permits = Cardinality(Workers)
    BY <2>5, <2>6 DEF NInv, TypeOK, PermitsAreConserved
  <2>8. Cardinality(Workers) \in Nat \ {0}
    BY PoolSize, NodeClusterAssumption, FS_EmptySet
  <2> QED
    BY <2>4, <2>7, <2>8
<1> QED
  BY <1>1, InductiveInvariant, PTL

\* An attempt more is worth as much as each of the others.
LEMMA AttemptsAreWorth ==
  ASSUME NEW k \in Nat, NEW m \in Nat
  PROVE  k * m \in Nat /\ (k + 1) * m = k * m + m
OBVIOUS

\* What a batch has left, of stages x, attempts v and an attempt of l actions with k done.
LEMMA LessIsLeft ==
  ASSUME NEW x \in Nat, NEW y \in Nat, NEW v \in Nat, NEW w \in Nat, NEW l \in Nat,
         NEW j \in 0 .. l, NEW k \in 0 .. l, x + v + k < y + w + j
  PROVE  0 <= x + v + l - j /\ x + v + l - j < y + w + l - k
OBVIOUS

\* The stage a batch is in, the attempts it has left and the actions its attempt has
\* left, counted together, go down with each of its steps, and no other step changes
\* them: with somebody who can go on, what BatchesEnd needs besides fairness.
THEOREM BatchesEndByThemselves == Spec => BatchesUseThemselvesUp
<1> DEFINE Lowers == \A b \in Batches :
                        \/ UNCHANGED <<pc[b], attempts[b], results[b]>>
                        \/ 0 <= Remaining(b)' /\ Remaining(b)' < Remaining(b)
           Left(c) == Retries + 1 - attempts[c]
           Worth(c) == Left(c) * (Length[c] + 1)
<1>1. NInv /\ [Next]_vars => [Lowers]_vars
  <2> SUFFICES ASSUME NInv, Next, NEW b \in Batches
               PROVE  \/ UNCHANGED <<pc[b], attempts[b], results[b]>>
                      \/ 0 <= Remaining(b)' /\ Remaining(b)' < Remaining(b)
    OBVIOUS
  <2>1. /\ Retries \in Nat /\ attempts[b] \in 0 .. Retries + 1
        /\ Length[b] \in Nat /\ Len(results[b]) \in 0 .. Length[b]
        /\ pc[b] \in {"idle", "queued", "permitted", "running", "returning",
                      "releasing", "done"}
    BY NodeClusterAssumption DEF NInv, TypeOK, AttemptsAreInOrder, HoldersRun
  <2>2. Left(b) \in Nat /\ Worth(b) \in Nat
    BY <2>1, AttemptsAreWorth
  <2>2a. ASSUME NEW x \in Nat, NEW v \in Nat, NEW j \in 0 .. Length[b],
               Stages[pc'[b]] = x, Worth(b)' = v, Len(results'[b]) = j,
               x + v + Len(results[b]) < Stages[pc[b]] + Worth(b) + j
        PROVE  0 <= Remaining(b)' /\ Remaining(b)' < Remaining(b)
    <3>1. Remaining(b)' = x + v + Length[b] - j
      BY <2>2a DEF Remaining
    <3>2. PICK y \in Nat : y = Stages[pc[b]]
      BY <2>1 DEF Stages
    <3>3. PICK w \in Nat : w = Worth(b)
      BY <2>2
    <3>4. PICK k \in 0 .. Length[b] : k = Len(results[b])
      BY <2>1
    <3>5. Remaining(b) = y + w + Length[b] - k
      BY <3>2, <3>3, <3>4 DEF Remaining
    <3>6. x + v + k < y + w + j
      BY <2>2a, <3>2, <3>3, <3>4
    <3>7. 0 <= x + v + Length[b] - j /\ x + v + Length[b] - j < y + w + Length[b] - k
      BY <2>1, <3>6, LessIsLeft
    <3> QED
      BY <3>1, <3>5, <3>7
  <2>3. ASSUME NEW s \in {"queued", "permitted", "returning", "releasing", "done"},
               pc'[b] = s, Stages[s] < Stages[pc[b]], UNCHANGED <<attempts[b], results[b]>>
        PROVE  0 <= Remaining(b)' /\ Remaining(b)' < Remaining(b)
    <3>1. /\ Stages[pc'[b]] \in Nat /\ Stages[pc[b]] \in Nat
          /\ Stages[pc'[b]] < Stages[pc[b]]
      BY <2>1, <2>3 DEF Stages
    <3>2. Worth(b)' = Worth(b) /\ Worth(b)' \in Nat
      BY <2>2, <2>3
    <3>3. Len(results'[b]) = Len(results[b]) /\ Len(results'[b]) \in 0 .. Length[b]
      BY <2>1, <2>3
    <3> HIDE DEF Worth
    <3>4. Stages[pc'[b]] + Worth(b)' + Len(results[b])
             < Stages[pc[b]] + Worth(b) + Len(results'[b])
      BY <3>1, <3>2, <3>3
    <3> QED
      BY <2>2a, <3>1, <3>2, <3>3, <3>4
  <2>4. ASSUME pc'[b] \in {"running"}, pc[b] \in {"permitted", "running"},
               attempts[b] <= Retries, attempts'[b] = attempts[b] + 1,
               results'[b] = << >>
        PROVE  0 <= Remaining(b)' /\ Remaining(b)' < Remaining(b)
    <3>1. Stages[pc'[b]] = 3 /\ Stages[pc[b]] \in {3, 4}
      BY <2>4 DEF Stages
    <3>2. Left(b)' \in Nat /\ Left(b) = Left(b)' + 1
      BY <2>1, <2>4
    <3>3. Worth(b)' \in Nat /\ Worth(b) = Worth(b)' + (Length[b] + 1)
      <4>1. Length[b] + 1 \in Nat
        BY <2>1
      <4> HIDE DEF Left
      <4>2. /\ Left(b)' * (Length[b] + 1) \in Nat
            /\ (Left(b)' + 1) * (Length[b] + 1) = Left(b)' * (Length[b] + 1) + (Length[b] + 1)
        BY <3>2, <4>1, AttemptsAreWorth
      <4> QED
        BY <3>2, <4>2
    <3>4. Len(results'[b]) = 0 /\ 0 \in 0 .. Length[b]
      BY <2>1, <2>4
    <3> HIDE DEF Worth
    <3>5. 3 + Worth(b)' + Len(results[b]) < Stages[pc[b]] + Worth(b) + 0
      <4>1. Length[b] \in Nat /\ Len(results[b]) \in Nat /\ Len(results[b]) <= Length[b]
        BY <2>1
      <4> QED
        BY <3>1, <3>3, <4>1
    <3> QED
      BY <2>2a, <3>1, <3>3, <3>4, <3>5
  <2>5. ASSUME pc'[b] = pc[b], attempts'[b] = attempts[b], Len(results[b]) < Length[b],
               Len(results'[b]) = Len(results[b]) + 1
        PROVE  0 <= Remaining(b)' /\ Remaining(b)' < Remaining(b)
    <3>1. Stages[pc'[b]] = Stages[pc[b]] /\ Stages[pc'[b]] \in Nat
      BY <2>1, <2>5 DEF Stages
    <3>2. Worth(b)' = Worth(b) /\ Worth(b)' \in Nat
      BY <2>2, <2>5
    <3>3. Len(results'[b]) \in 0 .. Length[b] /\ Len(results[b]) \in Nat
      BY <2>1, <2>5
    <3> HIDE DEF Worth
    <3>4. Stages[pc'[b]] + Worth(b)' + Len(results[b])
             < Stages[pc[b]] + Worth(b) + Len(results'[b])
      BY <2>5, <3>1, <3>2, <3>3
    <3> QED
      BY <2>2a, <3>1, <3>2, <3>3, <3>4
  <2> HIDE DEF Left, Worth
  <2>6. ASSUME NEW c \in Batches, Execute(c) \/ Body(c)
        PROVE  \/ UNCHANGED <<pc[b], attempts[b], results[b]>>
               \/ 0 <= Remaining(b)' /\ Remaining(b)' < Remaining(b)
    <3>1. CASE c # b
      BY <2>6, <3>1 DEF Execute, Body, Acquire, CheckOut, RunAction, Retry, EndAttempts,
                        CheckIn, Release, NInv, TypeOK
    <3>2. CASE c = b
      <4>1. CASE Execute(b)
        <5>1. pc[b] = "idle" /\ pc'[b] = "queued" /\ UNCHANGED <<attempts[b], results[b]>>
          BY <4>1 DEF Execute, NInv, TypeOK
        <5>2. Stages["queued"] < Stages["idle"]
          BY DEF Stages
        <5> QED
          BY <2>3, <5>1, <5>2
      <4>2. CASE Acquire(b)
        <5>1. /\ pc[b] = "queued" /\ pc'[b] = "permitted"
              /\ UNCHANGED <<attempts[b], results[b]>>
          BY <4>2, QueueElements, TailElements DEF Acquire, NInv, TypeOK
        <5>2. Stages["permitted"] < Stages["queued"]
          BY DEF Stages
        <5> QED
          BY <2>3, <5>1, <5>2
      <4>3. CASE CheckOut(b)
        <5>1. vec # << >> /\ attempts[b] = 0 /\ results[b] = << >> /\ pc[b] = "permitted"
          BY <4>3, WorkerIsThere DEF CheckOut, NInv, AttemptsAreInOrder
        <5>2. pc'[b] = "running" /\ attempts'[b] = 1 /\ results'[b] = << >>
          BY <4>3, <5>1 DEF CheckOut, NInv, TypeOK
        <5> QED
          BY <2>1, <2>4, <5>1, <5>2
      <4>4. CASE Retry(b)
        BY <2>4, <4>4 DEF Retry, NInv, TypeOK
      <4>5. CASE EndAttempts(b)
        <5>1. /\ pc[b] = "running" /\ pc'[b] = "returning"
              /\ UNCHANGED <<attempts[b], results[b]>>
          BY <4>5 DEF EndAttempts, NInv, TypeOK
        <5>2. Stages["returning"] < Stages["running"]
          BY DEF Stages
        <5> QED
          BY <2>3, <5>1, <5>2
      <4>6. CASE CheckIn(b) \/ Release(b)
        <5>1. /\ \/ pc[b] = "returning" /\ pc'[b] = "releasing"
                 \/ pc[b] = "releasing" /\ pc'[b] = "done"
              /\ UNCHANGED <<attempts[b], results[b]>>
          BY <4>6 DEF CheckIn, Release, NInv, TypeOK
        <5>2. /\ Stages["releasing"] < Stages["returning"]
              /\ Stages["done"] < Stages["releasing"]
          BY DEF Stages
        <5> QED
          BY <2>3, <5>1, <5>2
      <4>7. ASSUME NEW ok \in BOOLEAN, RunAction(b, ok)
            PROVE  0 <= Remaining(b)' /\ Remaining(b)' < Remaining(b)
        <5>1. results[b] \in Seq(BOOLEAN) /\ results'[b] = Append(results[b], ok)
              /\ pc'[b] = pc[b] /\ attempts'[b] = attempts[b]
              /\ Len(results[b]) < Length[b]
          BY <4>7 DEF RunAction, InAttempt, NInv, TypeOK
        <5>2. Len(results'[b]) = Len(results[b]) + 1
          BY <5>1
        <5> QED
          BY <2>5, <5>1, <5>2
      <4> QED
        BY <2>6, <3>2, <4>1, <4>2, <4>3, <4>4, <4>5, <4>6, <4>7 DEF Body
    <3> QED
      BY <3>1, <3>2
  <2>7. CASE UNCHANGED calls
    BY <2>7
  <2> QED
    BY <2>6, <2>7
       DEF Next, CreateTab, SpawnWorker, RollBack, SpawnFails, CreateFails, Created,
           CloseStarts, Closing, CloseTab, CloseEnds
<1> QED
  BY <1>1, InductiveInvariant, PTL DEF Spec, BatchesUseThemselvesUp

\* As a call of close ends, each worker in the Vec is closed and every other is with a
\* batch: none is on its way between the two.
THEOREM CloseMissesOnlyLeasedTabsHolds == Spec => CloseMissesOnlyLeasedTabs
<1> DEFINE Thorough ==
        \A x \in Closers : closer[x] = "closing" /\ closer'[x] = "done" =>
            \A w \in Workers : tab[w] = "closed" \/ \E b \in Batches : holds[b] = w
<1>1. NInv /\ [Next]_vars => [Thorough]_vars
  <2> SUFFICES ASSUME NInv, Next, NEW x \in Closers,
                      closer[x] = "closing", closer'[x] = "done",
                      NEW w \in Workers, \A b \in Batches : holds[b] # w
               PROVE  tab[w] = "closed"
    OBVIOUS
  <2>1. w \in InVec
    BY Busy DEF NInv, WorkersAreKept, Held
  <2>2. left[x] = {}
    <3>1. ASSUME NEW b \in Batches, Execute(b) \/ Body(b) PROVE UNCHANGED closer
      BY <3>1 DEF Execute, Body, Acquire, CheckOut, RunAction, Retry, EndAttempts,
                  CheckIn, Release, close
    <3>2. ASSUME NEW y \in Closers, CloseStarts(y) \/ Closing(y) PROVE left[x] = {}
      BY <3>2 DEF CloseStarts, Closing, CloseTab, CloseEnds, NInv, TypeOK
    <3> QED
      BY <3>1, <3>2 DEF Next, CreateTab, SpawnWorker, RollBack, SpawnFails, CreateFails,
                        Created, close
  <2>3. x \in locked
    BY DEF NInv, CloseGuardsTheVec
  <2> QED
    BY <2>1, <2>2, <2>3 DEF NInv, CloseGuardsTheVec
<1> QED
  BY <1>1, InductiveInvariant, PTL DEF Spec, CloseMissesOnlyLeasedTabs

\* close and the rollback of create close only tabs of workers in the Vec, where no
\* worker is that a batch has.
THEOREM CloseSparesBatchesHolds == Spec => CloseSparesBatches
<1> DEFINE Spares == \A b \in Batches, w \in Workers :
                         holds[b] = w /\ tab'[w] = "closed" => tab[w] = "closed"
<1>1. NInv /\ [Next]_vars => [Spares]_vars
  <2> SUFFICES ASSUME NInv, [Next]_vars, NEW b \in Batches, NEW w \in Workers,
                      holds[b] = w, tab'[w] = "closed"
               PROVE  tab[w] = "closed"
    OBVIOUS
  <2>1. w \notin InVec
    BY NodeClusterAssumption DEF NInv, WorkersAreExclusive, Holders, Held
  <2>2. ASSUME NEW v \in Workers, CreateTab(v) \/ SpawnWorker(v) \/ RollBack(v)
        PROVE  tab[w] = "closed"
    BY <2>1, <2>2 DEF CreateTab, SpawnWorker, RollBack, NInv, TypeOK
  <2>3. ASSUME NEW x \in Closers, NEW v \in Workers, CloseTab(x, v)
        PROVE  tab[w] = "closed"
    BY <2>1, <2>3 DEF CloseTab, NInv, TypeOK, CloseGuardsTheVec
  <2>4. CASE UNCHANGED tab
    BY <2>4
  <2>5. ASSUME NEW c \in Batches, Execute(c) \/ Body(c) PROVE UNCHANGED tab
    BY <2>5 DEF Execute, Body, Acquire, CheckOut, RunAction, Retry, EndAttempts,
                CheckIn, Release
  <2> QED
    BY <2>2, <2>3, <2>4, <2>5
       DEF Next, vars, SpawnFails, CreateFails, Created, CloseStarts, Closing, CloseEnds
<1> QED
  BY <1>1, InductiveInvariant, PTL DEF Spec, CloseSparesBatches

-----------------------------------------------------------------------------
(* The image of a state in the lease of workers.                           *)

closedBar == {w \in Workers : tab[w] = "closed"}
clientBar == [b \in Batches |-> ClientState(b)]

LEMMA InitRefines == Init => Pool!Init
<1> SUFFICES ASSUME Init PROVE Pool!Init
  OBVIOUS
<1>1. Stage = "opening" /\ InVec = {} /\ closedBar = {}
  BY DEF Init, Stage, InVec, closedBar
<1>2. clientBar = [b \in Batches |-> "idle"]
  BY DEF Init, clientBar, ClientState
<1> QED
  BY <1>1, <1>2 DEF Init, Pool!Init, closedBar, clientBar

\* A step of one batch changes the image of that batch only.
LEMMA Moves ==
  ASSUME TypeOK, NEW b \in Batches, NEW s, pc' = [pc EXCEPT ![b] = s]
  PROVE  /\ pc'[b] = s
         /\ clientBar[b] = ClientState(b)
         /\ clientBar' = [clientBar EXCEPT ![b] = ClientState(b)']
<1>1. pc'[b] = s /\ \A c \in Batches : c # b => pc'[c] = pc[c]
  BY DEF TypeOK
<1>2. \A c \in Batches : c # b => ClientState(c)' = ClientState(c)
  BY <1>1 DEF ClientState
<1> QED
  BY <1>1, <1>2 DEF clientBar

\* What the image is made of.
LEMMA ImageStays ==
  ASSUME NInv
  PROVE  /\ UNCHANGED phase => Stage' = Stage
         /\ UNCHANGED tab => closedBar' = closedBar
         /\ UNCHANGED vec => InVec' = InVec
         /\ UNCHANGED pc => clientBar' = clientBar
<1>1. UNCHANGED pc => \A b \in Batches : ClientState(b)' = ClientState(b)
  BY DEF ClientState
<1>2. UNCHANGED pc => clientBar' = clientBar
  BY <1>1 DEF clientBar
<1>3. /\ UNCHANGED phase => Stage' = Stage
      /\ UNCHANGED tab => closedBar' = closedBar
      /\ UNCHANGED vec => InVec' = InVec
  BY DEF Stage, closedBar, InVec
<1> QED
  BY <1>2, <1>3

-----------------------------------------------------------------------------
(* create and close.                                                       *)

LEMMA SpawnWorkerRefines ==
  ASSUME NInv, NEW w \in Workers, SpawnWorker(w)
  PROVE  Pool!Open(w)
<1>1. /\ phase = "creating" /\ tab[w] = "created" /\ tab' = [tab EXCEPT ![w] = "setup"]
      /\ vec' = Append(vec, w)
      /\ UNCHANGED <<phase, locked, permits, calls, close>>
  BY DEF SpawnWorker
<1>2. w \notin InVec
  BY <1>1 DEF NInv, SetUpTabsArePooled
<1>3. InVec' = InVec \cup {w}
  <2>1. Elements(vec') = Elements(vec) \cup {w}
    BY <1>1, VecElements, AppendElements
  <2> QED
    BY <2>1, VecElements DEF InVec, Elements
<1>4. closedBar' = closedBar
  BY <1>1 DEF closedBar, NInv, TypeOK
<1>5. Stage = "opening" /\ Stage' = Stage /\ clientBar' = clientBar
  BY <1>1, ImageStays DEF Stage
<1> QED
  BY <1>1, <1>2, <1>3, <1>4, <1>5 DEF Pool!Open, closedBar, clientBar

LEMMA CreateEndsRefine ==
  ASSUME NInv
  PROVE  /\ Created => Pool!Ready
         /\ CreateFails => Pool!Fail
<1>1. ASSUME Created PROVE Pool!Ready
  <2>1. /\ phase = "creating" /\ phase' = "ready" /\ \A w \in Workers : tab[w] = "setup"
        /\ UNCHANGED <<tab, vec, pc, holds>>
    BY <1>1 DEF Created
  <2>2. InVec = Workers
    BY <2>1 DEF NInv, SetUpTabsArePooled
  <2>3. Stage = "opening" /\ Stage' = "open"
    BY <2>1 DEF Stage
  <2> QED
    BY <2>1, <2>2, <2>3, ImageStays DEF Pool!Ready, closedBar, clientBar
<1>2. ASSUME CreateFails PROVE Pool!Fail
  <2>1. /\ phase = "rollback" /\ phase' = "failed" /\ vec' = << >>
        /\ UNCHANGED <<tab, pc, holds>>
    BY <1>2 DEF CreateFails
  <2>2. Stage = "opening" /\ Stage' = "failed" /\ InVec' = {}
    BY <2>1 DEF Stage, InVec
  <2> QED
    BY <2>1, <2>2, ImageStays DEF Pool!Fail, closedBar, clientBar
<1> QED
  BY <1>1, <1>2

\* A tab the rollback closes is in the Vec, and so is one close closes, since it holds
\* the mutex: nobody has it.
LEMMA ClosingATabRefines ==
  ASSUME NInv, NEW w \in Workers, RollBack(w) \/ \E x \in Closers : CloseTab(x, w)
  PROVE  Pool!Close(w)
<1>1. tab' = [tab EXCEPT ![w] = "closed"] /\ UNCHANGED <<phase, vec, pc, holds>>
  BY DEF RollBack, CloseTab
<1>2. w \in InVec
  BY DEF RollBack, CloseTab, NInv, CloseGuardsTheVec
<1>3. closedBar' = closedBar \cup {w}
  BY <1>1 DEF closedBar, NInv, TypeOK
<1> QED
  BY <1>1, <1>2, <1>3, ImageStays DEF Pool!Close, closedBar, clientBar

-----------------------------------------------------------------------------
(* The steps of a batch.                                                   *)

LEMMA ExecuteRefines ==
  ASSUME NInv, NEW b \in Batches, Execute(b)
  PROVE  Pool!Ask(b)
<1>1. /\ phase = "ready" /\ pc[b] = "idle" /\ pc' = [pc EXCEPT ![b] = "queued"]
      /\ UNCHANGED <<phase, tab, vec, holds>>
  BY DEF Execute
<1>2. /\ pc'[b] = "queued" /\ clientBar[b] = ClientState(b)
      /\ clientBar' = [clientBar EXCEPT ![b] = ClientState(b)']
  BY <1>1, Moves DEF NInv
<1>3. ClientState(b) = "idle" /\ ClientState(b)' = "asking" /\ Stage = "open"
  BY <1>1, <1>2 DEF ClientState, Stage
<1> QED
  BY <1>1, <1>2, <1>3, ImageStays DEF Pool!Ask, closedBar, clientBar

LEMMA CheckOutRefines ==
  ASSUME NInv, NEW b \in Batches, CheckOut(b)
  PROVE  \E w \in Workers : Pool!Lease(b, w)
<1> DEFINE w == vec[Len(vec)]
<1>1. pc[b] = "permitted" /\ vec # << >>
  BY WorkerIsThere DEF CheckOut
<1>2. /\ pc' = [pc EXCEPT ![b] = "running"] /\ holds' = [holds EXCEPT ![b] = w]
      /\ vec' = SubSeq(vec, 1, Len(vec) - 1) /\ UNCHANGED <<phase, tab>>
  BY <1>1 DEF CheckOut
<1>3. w \in InVec /\ w \in Workers /\ InVec' = InVec \ {w}
  BY <1>1, <1>2, PopWorker
<1> HIDE DEF w
<1>4. /\ pc'[b] = "running" /\ clientBar[b] = ClientState(b)
      /\ clientBar' = [clientBar EXCEPT ![b] = ClientState(b)']
  BY <1>2, Moves DEF NInv
<1>5. ClientState(b) = "asking" /\ ClientState(b)' = "leased"
  BY <1>1, <1>4 DEF ClientState
<1>6. Pool!Lease(b, w)
  BY <1>2, <1>3, <1>4, <1>5, ImageStays DEF Pool!Lease, closedBar, clientBar
<1> QED
  BY <1>3, <1>6

LEMMA CheckInRefines ==
  ASSUME NInv, NEW b \in Batches, CheckIn(b)
  PROVE  Pool!Return(b)
<1>1. /\ pc[b] = "returning" /\ pc' = [pc EXCEPT ![b] = "releasing"]
      /\ holds' = [holds EXCEPT ![b] = NoWorker] /\ vec' = Append(vec, holds[b])
      /\ UNCHANGED <<phase, tab>>
  BY DEF CheckIn
<1>2. holds[b] \in Workers
  BY <1>1 DEF NInv, TypeOK, HoldersRun
<1>3. InVec' = InVec \cup {holds[b]}
  <2>1. Elements(vec') = Elements(vec) \cup {holds[b]}
    BY <1>1, <1>2, VecElements, AppendElements
  <2> QED
    BY <2>1, VecElements DEF InVec, Elements
<1>4. /\ pc'[b] = "releasing" /\ clientBar[b] = ClientState(b)
      /\ clientBar' = [clientBar EXCEPT ![b] = ClientState(b)']
  BY <1>1, Moves DEF NInv
<1>5. ClientState(b) = "leased" /\ ClientState(b)' = "served"
  BY <1>1, <1>4 DEF ClientState
<1> QED
  BY <1>1, <1>3, <1>4, <1>5, ImageStays DEF Pool!Return, closedBar, clientBar

\* The permit, the attempts and the results are not seen by the lease.
LEMMA InnerStepsStutter ==
  ASSUME NInv, NEW b \in Batches, NEW ok \in BOOLEAN,
         Acquire(b) \/ RunAction(b, ok) \/ Retry(b) \/ EndAttempts(b) \/ Release(b)
  PROVE  UNCHANGED Pool!vars
<1>1. /\ UNCHANGED <<phase, tab, vec, holds>>
      /\ pc' \in {pc, [pc EXCEPT ![b] = "permitted"], [pc EXCEPT ![b] = "returning"],
                  [pc EXCEPT ![b] = "done"]}
  BY DEF Acquire, RunAction, Retry, EndAttempts, Release
<1>2. ClientState(b)' = ClientState(b)
  <2>1. CASE Acquire(b)
    <3>1. pc[b] = "queued"
      BY <2>1, QueueElements, TailElements DEF Acquire
    <3>2. pc'[b] = "permitted"
      BY <2>1 DEF Acquire, NInv, TypeOK
    <3> QED
      BY <3>1, <3>2 DEF ClientState
  <2>2. CASE RunAction(b, ok) \/ Retry(b)
    BY <2>2 DEF RunAction, Retry, ClientState
  <2>3. CASE EndAttempts(b)
    <3>1. pc[b] = "running" /\ pc'[b] = "returning"
      BY <2>3 DEF EndAttempts, NInv, TypeOK
    <3> QED
      BY <3>1 DEF ClientState
  <2>4. CASE Release(b)
    <3>1. pc[b] = "releasing" /\ pc'[b] = "done"
      BY <2>4 DEF Release, NInv, TypeOK
    <3> QED
      BY <3>1 DEF ClientState
  <2> QED
    BY <2>1, <2>2, <2>3, <2>4
<1>3. clientBar' = clientBar
  <2>1. \A c \in Batches : c # b => pc'[c] = pc[c]
    BY <1>1 DEF NInv, TypeOK
  <2>2. \A c \in Batches : ClientState(c)' = ClientState(c)
    BY <1>2, <2>1 DEF ClientState
  <2> QED
    BY <2>2 DEF clientBar
<1> QED
  BY <1>1, <1>3, ImageStays DEF Pool!vars, closedBar, clientBar

\* Nor does it see a tab come up, or the mutex.
LEMMA OuterStepsStutter ==
  ASSUME NInv,
         \/ UNCHANGED vars \/ SpawnFails \/ \E w \in Workers : CreateTab(w)
         \/ \E x \in Closers : CloseStarts(x) \/ CloseEnds(x)
  PROVE  UNCHANGED Pool!vars
<1>1. UNCHANGED <<vec, pc, holds>>
  BY DEF SpawnFails, CreateTab, CloseStarts, CloseEnds
<1>2. Stage' = Stage
  BY DEF SpawnFails, CreateTab, CloseStarts, CloseEnds, Stage
<1>3. closedBar' = closedBar
  BY DEF SpawnFails, CreateTab, CloseStarts, CloseEnds, closedBar, NInv, TypeOK
<1> QED
  BY <1>1, <1>2, <1>3, ImageStays DEF Pool!vars, closedBar, clientBar

-----------------------------------------------------------------------------
LEMMA NextRefines == NInv /\ [Next]_vars => [Pool!Next]_(Pool!vars)
<1> SUFFICES ASSUME NInv, [Next]_vars PROVE [Pool!Next]_(Pool!vars)
  OBVIOUS
<1>1. CASE UNCHANGED vars
  BY <1>1, OuterStepsStutter
<1>2. ASSUME NEW w \in Workers, CreateTab(w) \/ SpawnWorker(w) \/ RollBack(w)
      PROVE  [Pool!Next]_(Pool!vars)
  <2>1. CASE CreateTab(w)
    BY <2>1, OuterStepsStutter
  <2>2. CASE SpawnWorker(w)
    BY <2>2, SpawnWorkerRefines DEF Pool!Next
  <2>3. CASE RollBack(w)
    BY <2>3, ClosingATabRefines DEF Pool!Next
  <2> QED
    BY <1>2, <2>1, <2>2, <2>3
<1>3. CASE SpawnFails \/ CreateFails \/ Created
  BY <1>3, OuterStepsStutter, CreateEndsRefine DEF Pool!Next
<1>4. ASSUME NEW b \in Batches, Execute(b) \/ Body(b)
      PROVE  [Pool!Next]_(Pool!vars)
  <2>1. CASE Execute(b)
    BY <2>1, ExecuteRefines DEF Pool!Next
  <2>2. CASE CheckOut(b)
    BY <2>2, CheckOutRefines DEF Pool!Next
  <2>3. CASE CheckIn(b)
    BY <2>3, CheckInRefines DEF Pool!Next
  <2>4. CASE \/ Acquire(b) \/ Retry(b) \/ EndAttempts(b) \/ Release(b)
             \/ \E ok \in BOOLEAN : RunAction(b, ok)
    BY <2>4, InnerStepsStutter
  <2> QED
    BY <1>4, <2>1, <2>2, <2>3, <2>4 DEF Body
<1>5. ASSUME NEW x \in Closers, CloseStarts(x) \/ Closing(x)
      PROVE  [Pool!Next]_(Pool!vars)
  <2>1. CASE CloseStarts(x) \/ CloseEnds(x)
    BY <2>1, OuterStepsStutter
  <2>2. ASSUME NEW w \in Workers, CloseTab(x, w) PROVE Pool!Close(w)
    BY <2>2, ClosingATabRefines
  <2> QED
    BY <1>5, <2>1, <2>2 DEF Closing, Pool!Next
<1> QED
  BY <1>1, <1>2, <1>3, <1>4, <1>5 DEF Next

\* The permits, the queue, the mutex and the retries of the Node pool add up to the
\* lease of workers the Rust pool implements too; this one never turns a batch away.
THEOREM NodeClusterImplementsWorkerPool == Spec => ImplementsWorkerPool
BY InitRefines, NextRefines, InductiveInvariant, PTL
   DEF Spec, ImplementsWorkerPool, Pool!Spec
===============================================================================
