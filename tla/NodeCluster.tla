----------------------------- MODULE NodeCluster -----------------------------
(***************************************************************************)
(* The worker pool of the Node binding: create opens the tabs and rolls    *)
(* back when one fails, execute runs a batch of actions on a free worker   *)
(* with retries, and close closes the workers that are in the Vec.         *)
(*                                                                         *)
(* Unlike the Rust pool its close borrows the cluster, so it may run while *)
(* batches do, and may run again.  It holds the mutex of the Vec from its  *)
(* first to its last await.  The promises of JS are never dropped and the  *)
(* agent turns every failure of an action into a result, so a batch always *)
(* comes to its end.                                                       *)
(***************************************************************************)
EXTENDS Integers, Sequences, FiniteSets

CONSTANTS Workers,  \* the tabs, opts.concurrency of them
          Batches,  \* calls of execute
          Length,   \* how many actions each of them has
          Closers,  \* calls of close
          Retries,  \* opts.retries
          NoWorker  \* stands for no worker

ASSUME NodeClusterAssumption ==
    /\ IsFiniteSet(Workers) /\ IsFiniteSet(Batches) /\ IsFiniteSet(Closers)
    /\ Workers # {}
    /\ Length \in [Batches -> Nat]
    /\ Retries \in Nat
    /\ NoWorker \notin Workers
    /\ Batches \cap Closers = {}

VARIABLES
    phase,    \* "creating", "rollback", "failed" or "ready"
    tab,      \* each tab: "none", "created", "setup", or "closed": sent Page.close
    vec,      \* the Vec of workers, the last one pushed on top
    locked,   \* the call of close that holds the mutex, or {}
    permits,  \* permits nobody has
    queue,    \* batches waiting for a permit, served in order
    pc,       \* where each call of execute is
    holds,    \* the worker it took
    attempts, \* how often it ran its batch
    results,  \* the results of its current attempt, TRUE for a success
    closer,   \* each call of close: "idle", "closing" or "done"
    left      \* workers it has yet to close

pool  == <<vec, locked, permits>>
calls == <<queue, pc, holds, attempts, results>>
close == <<closer, left>>
vars  == <<phase, tab, pool, calls, close>>

TypeOK ==
    /\ phase \in {"creating", "rollback", "failed", "ready"}
    /\ tab \in [Workers -> {"none", "created", "setup", "closed"}]
    /\ vec \in Seq(Workers)
    /\ locked \in SUBSET Closers
    /\ permits \in 0 .. Cardinality(Workers)
    /\ queue \in Seq(Batches)
    /\ pc \in [Batches -> {"idle", "queued", "permitted", "running", "returning",
                           "releasing", "done", "missing"}]
    /\ holds \in [Batches -> Workers \cup {NoWorker}]
    /\ attempts \in [Batches -> 0 .. Retries + 1]
    /\ results \in [Batches -> Seq(BOOLEAN)]
    /\ closer \in [Closers -> {"idle", "closing", "done"}]
    /\ left \in [Closers -> SUBSET Workers]

Init ==
    /\ phase = "creating"
    /\ tab = [w \in Workers |-> "none"]
    /\ vec = << >>
    /\ locked = {}
    /\ permits = 0
    /\ queue = << >>
    /\ pc = [b \in Batches |-> "idle"]
    /\ holds = [b \in Batches |-> NoWorker]
    /\ attempts = [b \in Batches |-> 0]
    /\ results = [b \in Batches |-> << >>]
    /\ closer = [x \in Closers |-> "idle"]
    /\ left = [x \in Closers |-> {}]

InVec == {vec[k] : k \in 1 .. Len(vec)}

-----------------------------------------------------------------------------
(* create and spawn_worker.                                                *)

\* create_tab.
CreateTab(w) ==
    /\ phase = "creating" /\ tab[w] = "none"
    /\ \A v \in Workers : tab[v] # "created"
    /\ tab' = [tab EXCEPT ![w] = "created"]
    /\ UNCHANGED <<phase, pool, calls, close>>

\* connect, four domains and the viewport; create pushes the worker.
SpawnWorker(w) ==
    /\ phase = "creating" /\ tab[w] = "created"
    /\ tab' = [tab EXCEPT ![w] = "setup"]
    /\ vec' = Append(vec, w)
    /\ UNCHANGED <<phase, locked, permits, calls, close>>

\* spawn_worker fails, before it has a tab or with one.
SpawnFails ==
    /\ phase = "creating"
    /\ \E w \in Workers : tab[w] # "setup"
    /\ phase' = "rollback"
    /\ UNCHANGED <<tab, pool, calls, close>>

\* Page.close, sent to the workers one after the other; its errors are ignored.
RollBack(w) ==
    /\ phase = "rollback"
    /\ w \in InVec /\ tab[w] # "closed"
    /\ tab' = [tab EXCEPT ![w] = "closed"]
    /\ UNCHANGED <<phase, pool, calls, close>>

\* Mutation: the error is returned at once, as Cluster::new of the Rust crate does.
FailAtOnce ==
    /\ phase = "rollback"
    /\ phase' = "failed"
    /\ vec' = << >>
    /\ UNCHANGED <<tab, locked, permits, calls, close>>

CreateFails ==
    /\ phase = "rollback"
    /\ \A w \in InVec : tab[w] = "closed"
    /\ phase' = "failed"
    /\ vec' = << >>
    /\ UNCHANGED <<tab, locked, permits, calls, close>>

Created ==
    /\ phase = "creating"
    /\ \A w \in Workers : tab[w] = "setup"
    /\ phase' = "ready"
    /\ permits' = Cardinality(Workers)
    /\ UNCHANGED <<tab, vec, locked, calls, close>>

-----------------------------------------------------------------------------
(* execute.                                                                *)

HasPermit(b) == pc[b] \in {"permitted", "running", "returning", "releasing"}

\* The actions are serialised and the semaphore asked for a permit.
Execute(b) ==
    /\ phase = "ready" /\ pc[b] = "idle"
    /\ pc' = [pc EXCEPT ![b] = "queued"]
    /\ queue' = Append(queue, b)
    /\ UNCHANGED <<phase, tab, pool, holds, attempts, results, close>>

Acquire(b) ==
    /\ queue # << >> /\ b = Head(queue) /\ permits > 0
    /\ queue' = Tail(queue)
    /\ permits' = permits - 1
    /\ pc' = [pc EXCEPT ![b] = "permitted"]
    /\ UNCHANGED <<phase, tab, vec, locked, holds, attempts, results, close>>

\* Mutation: the Vec is guarded by the semaphore alone.
CheckOutUnlocked(b) ==
    /\ pc[b] = "permitted"
    /\ vec # << >>
    /\ pc' = [pc EXCEPT ![b] = "running"]
    /\ holds' = [holds EXCEPT ![b] = vec[Len(vec)]]
    /\ vec' = SubSeq(vec, 1, Len(vec) - 1)
    /\ attempts' = [attempts EXCEPT ![b] = 1]
    /\ UNCHANGED <<phase, tab, locked, permits, queue, results, close>>

\* workers.lock().pop(), and the first attempt begins.  With none left
\* expect("worker missing") panics and the permit is dropped.
CheckOut(b) ==
    /\ pc[b] = "permitted" /\ locked = {}
    /\ IF vec # << >>
       THEN /\ pc' = [pc EXCEPT ![b] = "running"]
            /\ holds' = [holds EXCEPT ![b] = vec[Len(vec)]]
            /\ vec' = SubSeq(vec, 1, Len(vec) - 1)
            /\ attempts' = [attempts EXCEPT ![b] = 1]
            /\ UNCHANGED permits
       ELSE /\ pc' = [pc EXCEPT ![b] = "missing"]
            /\ permits' = permits + 1
            /\ UNCHANGED <<holds, vec, attempts>>
    /\ UNCHANGED <<phase, tab, locked, queue, results, close>>

Failed(r) == r # << >> /\ ~r[Len(r)]

\* Mutation: the batch goes on after an action that failed.
AttemptContinues(b) == Len(results[b]) < Length[b]

\* The batch has an action left and none has failed.
InAttempt(b) == Len(results[b]) < Length[b] /\ ~Failed(results[b])

\* execute_json of the next action.  It may succeed on a tab that is "closed" too: the
\* errors of Page.close are ignored, and a wait of some milliseconds needs no tab.
RunAction(b, ok) ==
    /\ pc[b] = "running" /\ InAttempt(b)
    /\ results' = [results EXCEPT ![b] = Append(@, ok)]
    /\ UNCHANGED <<phase, tab, pool, queue, pc, holds, attempts, close>>

\* The batch failed with retries left: it starts again with no results.
Retry(b) ==
    /\ pc[b] = "running" /\ ~InAttempt(b)
    /\ Failed(results[b]) /\ attempts[b] <= Retries
    /\ attempts' = [attempts EXCEPT ![b] = @ + 1]
    /\ results' = [results EXCEPT ![b] = << >>]
    /\ UNCHANGED <<phase, tab, pool, queue, pc, holds, close>>

\* It succeeded, or used its retries up.
EndAttempts(b) ==
    /\ pc[b] = "running" /\ ~InAttempt(b)
    /\ ~Failed(results[b]) \/ attempts[b] > Retries
    /\ pc' = [pc EXCEPT ![b] = "returning"]
    /\ UNCHANGED <<phase, tab, pool, queue, holds, attempts, results, close>>

\* Mutation: the worker goes back without the mutex.
CheckInUnlocked(b) ==
    /\ pc[b] = "returning"
    /\ vec' = Append(vec, holds[b])
    /\ holds' = [holds EXCEPT ![b] = NoWorker]
    /\ pc' = [pc EXCEPT ![b] = "releasing"]
    /\ UNCHANGED <<phase, tab, locked, permits, queue, attempts, results, close>>

\* Mutation: the permit is dropped as the worker is about to go back.
CheckInLate(b) ==
    /\ pc[b] = "returning"
    /\ permits' = permits + 1
    /\ pc' = [pc EXCEPT ![b] = "releasing"]
    /\ UNCHANGED <<phase, tab, vec, locked, queue, holds, attempts, results, close>>

\* workers.lock().push(worker).
CheckIn(b) ==
    /\ pc[b] = "returning" /\ locked = {}
    /\ vec' = Append(vec, holds[b])
    /\ holds' = [holds EXCEPT ![b] = NoWorker]
    /\ pc' = [pc EXCEPT ![b] = "releasing"]
    /\ UNCHANGED <<phase, tab, locked, permits, queue, attempts, results, close>>

\* The TaskResult is returned and the permit dropped.
Release(b) ==
    /\ pc[b] = "releasing"
    /\ permits' = permits + 1
    /\ pc' = [pc EXCEPT ![b] = "done"]
    /\ UNCHANGED <<phase, tab, vec, locked, queue, holds, attempts, results, close>>

-----------------------------------------------------------------------------
(* close.                                                                  *)

\* The mutex is taken and the Vec walked, not emptied.
CloseStarts(x) ==
    /\ phase = "ready" /\ closer[x] = "idle" /\ locked = {}
    /\ locked' = {x}
    /\ closer' = [closer EXCEPT ![x] = "closing"]
    /\ left' = [left EXCEPT ![x] = InVec]
    /\ UNCHANGED <<phase, tab, vec, permits, calls>>

\* Page.close; its errors are ignored.
CloseTab(x, w) ==
    /\ closer[x] = "closing" /\ w \in left[x]
    /\ tab' = [tab EXCEPT ![w] = "closed"]
    /\ left' = [left EXCEPT ![x] = @ \ {w}]
    /\ UNCHANGED <<phase, pool, calls, closer>>

\* Mutation: the mutex is never released.
CloseHoldsOn(x) ==
    /\ closer[x] = "closing" /\ left[x] = {}
    /\ closer' = [closer EXCEPT ![x] = "done"]
    /\ UNCHANGED <<phase, tab, pool, calls, left>>

CloseEnds(x) ==
    /\ closer[x] = "closing" /\ left[x] = {}
    /\ closer' = [closer EXCEPT ![x] = "done"]
    /\ locked' = {}
    /\ UNCHANGED <<phase, tab, vec, permits, calls, left>>

-----------------------------------------------------------------------------
Body(b) == \/ Acquire(b) \/ CheckOut(b) \/ Retry(b) \/ EndAttempts(b)
           \/ CheckIn(b) \/ Release(b) \/ \E ok \in BOOLEAN : RunAction(b, ok)
Closing(x) == CloseEnds(x) \/ \E w \in Workers : CloseTab(x, w)

Next ==
    \/ \E w \in Workers : CreateTab(w) \/ SpawnWorker(w) \/ RollBack(w)
    \/ SpawnFails \/ CreateFails \/ Created
    \/ \E b \in Batches : Execute(b) \/ Body(b)
    \/ \E x \in Closers : CloseStarts(x) \/ Closing(x)

Spec == Init /\ [][Next]_vars

\* The runtime polls every ready task; each action and each Page.close is bounded
\* by the command timeout.
FairSpec == Spec /\ \A b \in Batches : WF_vars(Body(b))
                 /\ \A x \in Closers : WF_vars(Closing(x))

-----------------------------------------------------------------------------
(* What the pool promises.                                                 *)

\* What execute reports is one attempt, its last: the batch in order up to the first
\* failure and no further, whole if it succeeded, and a failure only once the
\* retries are used up.
ResultsAreOfOneAttempt ==
    \A b \in Batches :
        /\ \A k \in 1 .. Len(results[b]) - 1 : results[b][k]
        /\ pc[b] \in {"returning", "releasing", "done"} =>
              IF Failed(results[b]) THEN attempts[b] = Retries + 1
                                    ELSE Len(results[b]) = Length[b]

\* When create fails no worker it had set up stays open.
RollBackIsComplete == phase = "failed" => \A w \in Workers : tab[w] # "setup"

\* create: "every tab already opened is closed before returning the error, so a
\* partial init never leaks tabs".
NoTabIsLeaked == phase = "failed" => \A w \in Workers : tab[w] \in {"none", "closed"}

\* close never closes the tab of a worker that a batch has: it spares those it does
\* not find in the Vec, whichever check-outs and check-ins surround it.
CloseSparesBatches ==
    [][\A b \in Batches, w \in Workers :
           holds[b] = w /\ tab'[w] = "closed" => tab[w] = "closed"]_vars

\* A batch that asks for a worker ends, however close contends for the mutex and
\* whichever tabs it closed.
BatchesEnd == \A b \in Batches : pc[b] = "queued" ~> pc[b] = "done"

\* Its safety core: no batch waits for nobody. While one is under way, a close walks
\* the Vec, or the mutex is free and some batch has a permit, or the first of the queue
\* can have one.
SomeoneCanGoOn ==
    (\E b \in Batches : pc[b] \notin {"idle", "done"}) =>
        \/ \E x \in Closers : closer[x] = "closing"
        \/ locked = {} /\ \E b \in Batches : HasPermit(b)
        \/ queue # << >> /\ permits > 0

\* The other half: no batch goes on for ever, as each of its steps leaves it fewer
\* stages, attempts or actions, whatever fails and whoever else moves.
Stages == [idle |-> 6, queued |-> 5, permitted |-> 4, running |-> 3, returning |-> 2,
           releasing |-> 1, done |-> 0, missing |-> 0]
Remaining(b) == Stages[pc[b]] + (Retries + 1 - attempts[b]) * (Length[b] + 1)
                + Length[b] - Len(results[b])
BatchesUseThemselvesUp ==
    [][\A b \in Batches :
           \/ UNCHANGED <<pc[b], attempts[b], results[b]>>
           \/ 0 <= Remaining(b)' /\ Remaining(b)' < Remaining(b)]_vars

\* A call of close leaves no tab open but one that a batch has at the moment the call
\* ends: no worker slips past it on its way out of the Vec or back into it.
CloseMissesOnlyLeasedTabs ==
    [][\A x \in Closers : closer[x] = "closing" /\ closer'[x] = "done" =>
           \A w \in Workers : tab[w] = "closed" \/ \E b \in Batches : holds[b] = w]_vars

\* close: "Close every worker tab".
EveryWorkerTabIsClosed ==
    \A x \in Closers : closer[x] = "done" => \A w \in Workers : tab[w] = "closed"

-----------------------------------------------------------------------------
(* The lease of workers that the cluster implements.                       *)

Stage == IF phase \in {"creating", "rollback"} THEN "opening"
         ELSE IF phase = "failed" THEN "failed" ELSE "open"

ClientState(b) == CASE pc[b] = "idle"                     -> "idle"
                    [] pc[b] \in {"queued", "permitted"}  -> "asking"
                    [] pc[b] \in {"running", "returning"} -> "leased"
                    [] pc[b] \in {"releasing", "done"}    -> "served"
                    [] pc[b] = "missing"                  -> "refused"

Pool == INSTANCE WorkerPool WITH
            Clients <- Batches,
            stage   <- Stage,
            free    <- InVec,
            closed  <- {w \in Workers : tab[w] = "closed"},
            client  <- [b \in Batches |-> ClientState(b)],
            lease   <- holds

\* A worker is handed to one batch and comes back, no batch is refused since none is
\* lost, and a tab is closed while no batch has it, close running or not.
ImplementsWorkerPool == Pool!Spec

-----------------------------------------------------------------------------
(* The inductive invariant behind them, proved in NodeCluster_proofs.      *)

Held      == {holds[b] : b \in Batches} \ {NoWorker}
Holders   == {b \in Batches : holds[b] # NoWorker}
Permitted == {b \in Batches : HasPermit(b)}

\* JS has no cluster to call before create resolves.
QuietUntilReady ==
    phase # "ready" => /\ queue = << >> /\ locked = {} /\ permits = 0
                       /\ \A b \in Batches : pc[b] = "idle"
                       /\ \A x \in Closers : closer[x] = "idle"

\* A batch has a worker from its check-out to its check-in, and always finds one.
HoldersRun ==
    \A b \in Batches : /\ holds[b] # NoWorker <=> pc[b] \in {"running", "returning"}
                       /\ pc[b] # "missing"

\* A batch is in the queue once, as long as it waits.
QueueIsFaithful ==
    /\ \A b \in Batches : pc[b] = "queued" <=> \E k \in 1 .. Len(queue) : queue[k] = b
    /\ \A j, k \in 1 .. Len(queue) : queue[j] = queue[k] => j = k

\* A worker is in the Vec once or with one batch, and of a ready pool none is lost.
WorkersAreExclusive ==
    /\ \A j, k \in 1 .. Len(vec) : vec[j] = vec[k] => j = k
    /\ \A b, c \in Holders : holds[b] = holds[c] => b = c
    /\ InVec \cap Held = {}

WorkersAreKept == phase = "ready" => InVec \cup Held = Workers

PermitsAreConserved ==
    phase = "ready" => permits + Cardinality(Permitted) = Cardinality(Workers)

\* One close at a time walks the Vec, which nobody changes meanwhile; what it passed is
\* closed.
CloseGuardsTheVec ==
    /\ \A x \in Closers : x \in locked <=> closer[x] = "closing"
    /\ \A x, y \in locked : x = y
    /\ \A x \in Closers : left[x] \subseteq IF x \in locked THEN InVec ELSE {}
    /\ \A x \in locked : \A w \in InVec \ left[x] : tab[w] = "closed"

\* The Vec holds what a failing create has to close.
SetUpTabsArePooled ==
    /\ phase = "creating" => InVec = {w \in Workers : tab[w] = "setup"}
    /\ phase = "rollback" => {w \in Workers : tab[w] = "setup"} \subseteq InVec
    /\ phase = "failed"   => \A w \in Workers : tab[w] # "setup"

\* An attempt is the batch up to the first action that failed; none precedes the
\* check-out.
AttemptsAreInOrder ==
    \A b \in Batches :
        /\ pc[b] \notin {"running", "returning", "releasing", "done"} =>
              attempts[b] = 0 /\ results[b] = << >>
        /\ Len(results[b]) <= Length[b]

\* The inductive invariant.
NInv ==
    /\ TypeOK
    /\ QuietUntilReady
    /\ HoldersRun
    /\ QueueIsFaithful
    /\ WorkersAreExclusive
    /\ WorkersAreKept
    /\ PermitsAreConserved
    /\ CloseGuardsTheVec
    /\ SetUpTabsArePooled
    /\ AttemptsAreInOrder
    /\ ResultsAreOfOneAttempt
=============================================================================
