# A TLA+ development for cdp-protocol

`cdp-protocol` is a Rust client for the Chrome DevTools Protocol (crate
`cdp_driver`, `crates/cdp-protocol`), its binding for Node
(`crates/cdp-protocol-node`) and the generator of its protocol types (`xtask`).
These modules model the parts of it in which several tasks, the browser and the
callers meet, the operations built on them, and the generator with the code it
generated; model-check them with TLC, and prove their safety
properties for every size with TLAPS. Paths below are relative to the
repository; `client.rs` and the like are in `crates/cdp-protocol/src`.

## 1. Inventory

| Component | State | Operations | Interacts with |
|---|---|---|---|
| Command path, `client.rs` | pending map (id -> oneshot sender, behind a mutex), `next_id`, command timeout, queue to the writer, the two tasks | `connect`, `send_command_on`, `set_command_timeout`, drop; `write_outgoing`, `read_incoming`, `deliver`, `abandon_pending` | the browser over one WebSocket; every other component sends its commands here |
| Event path, `client.rs`, `session.rs`, `page.rs`, `agent.rs` | two broadcast channels of 256 events and one of 64 console calls, each receiver's position | `publish`, `subscribe_*`, `wait_for_event` (client, session), `navigate_and_wait`, `capture_console` | fed by the reader task of the command path |
| Sessions, `session.rs` | a session id | `attach_to_target`, `call`, `wait_for_event`, `detach` | commands and events, tagged with the id |
| Page, DOM, runtime, network, screenshots | none | single commands; `navigate`, `set_content`, full-page screenshots send several | command path |
| Rust pool, `cluster.rs` | Vec of clients behind a mutex, semaphore, JoinSet of `run` | `new`, `execute`, `run`, `close` | one client per tab; user closures |
| Node pool, `cdp-protocol-node/src/cluster.rs` | Vec of workers behind a mutex, semaphore | `create`, `execute`, `close` | one agent per tab |
| BrowserAgent, `agent.rs`, `action*.rs`, `keys.rs` | a client; the mouse, keys, focus and viewport of the tab | `connect`, `dispatch` of about twenty actions, batches, JSON actions, `capture_console` | command and event path |
| Discovery, `discovery.rs` | none | HTTP `/json`, `/json/new` | the browser's HTTP endpoint |
| Blocking client, `blocking.rs` | a multi-threaded runtime of its own | every operation, `block_on` | the async client |
| Node bindings | handles | conversions around one call; `query_selector` sends two commands | the Rust crate |
| Generator, `xtask` | the type registry with its memo, the two output directories | resolve, box, derive, check references, render, index | the protocol's JSON files |
| Generated code, `methods/`, `protocol/` | none | the types, commands and events of 58 domains, a name per command | typed wrappers over the command path |

What is hard in it, and what makes each part correct:

* **Command path.** A call, the writer, the reader, the browser and the timer of
  every call run concurrently. A reply may precede the wait, follow the timeout,
  or never come; the link may break with frames in either direction, or stay open with a
  browser that no longer reads; a caller may drop its future at any await. Correct means: the reply of a command goes to its
  caller and to nobody else; every call that can return does; the map does not
  collect garbage; an error about the connection is told only if it is true.
* **Event path.** Publishing must never wait for a subscriber, so slow ones lose
  events. Correct means: a waiter is woken only by its target's event, misses only
  what was overwritten, and is subscribed before what it waits for can happen.
* **Pools.** Two resources, permits and clients, are taken and returned
  separately, with an arbitrary closure in between, and tasks of a `run` that was dropped
  may outlast even `close`. Correct means: a tab serves
  one task at a time, permits and clients are conserved on every way out,
  retries are counted right, `close` reaches every tab.
* **Agent, page and session operations.** Several commands make one operation; any
  of them may fail, or time out and be carried out later, and the tab may change in
  between, by itself or by another caller. Its future may also be dropped at
  an await, and a session's handle without a `detach`. Correct means: a success is one,
  what is left behind is of an action that said it failed or was dropped by its caller,
  and nobody waits for ever.
* **Generator.** The graph of types is cyclic, within domains and across them; boxing
  must break every cycle and no more, `Default` be derived exactly where it can be
  whatever the order in which the memo is filled, and a run that panics or is killed,
  in the middle of a removal or a write too, must not leave an index of its own over
  modules that are not there, nor anything of an earlier run.

`PROJECT.json` lists the hazards one by one, each at its line, with the properties
that cover it or the reason none does.

## 2. Modules

| Module | Models |
|---|---|
| `CommandService` | abstract: what a caller of the command path may rely on |
| `CdpClient` | the command path, in full |
| `CdpClient_proofs` | proofs about `CdpClient`, refinement of `CommandService` included |
| `CdpEvents` | the event path |
| `CdpEvents_proofs` | proofs about the safety of `CdpEvents` |
| `Operations` | the actions of the agent and the methods of client, page and session that take several commands |
| `Operations_proofs` | proofs about the safety of `Operations` |
| `WorkerPool` | abstract: workers, each free or leased to one client |
| `WorkerPool_proofs` | proofs of what `WorkerPool` promises |
| `Cluster` | the Rust pool |
| `Cluster_proofs` | proofs about the safety of `Cluster`, and that it implements `WorkerPool` |
| `NodeCluster` | the Node pool |
| `NodeCluster_proofs` | proofs about the safety of `NodeCluster`, and that it implements `WorkerPool` |
| `QueueLemmas` | lemmas on sequences used by the proof modules |
| `Generator` | a run of `xtask` |
| `Generator_proofs` | proofs about what a run leaves, and about the searches of the registry |
| `ProtocolSyntax` | the form in which a generated module is written down here |
| `ProtocolTypes`, `ProtocolCommands`, `ProtocolEvents`, `MethodNames` | the committed code, domain by domain |
| `Protocol` | the committed directories `protocol/` and `methods/` as a whole |
| `GeneratedProtocol` | the committed code against the generator |
| `MC*` | constants for TLC |

### CdpClient

One element of `Calls` is one call of `send_command_on` (every command, of a
session or not, goes through it). `pc` follows its future from await to await:

| `pc` | In the code |
|---|---|
| `idle` -> `allocated` | `next_id.fetch_add` (`Allocate`) |
| `allocated` -> `registered` | `pending.lock().await.insert` (`Register`) |
| `registered` -> `waiting` / `refused` | `tx.send`, then the load of the timeout (`Enqueue`) |
| `refused` -> `done` | the entry is removed again (`Retract`) |
| `waiting` -> `done` | the oneshot yields (`Resume`) |
| `waiting` -> `expired` -> `done` | the timer wins (`Expire`), the entry is removed (`GiveUp`) |
| -> `cancelled` | the caller drops the future at an await (`Cancel`) |

The runtime has several threads, so there is a step per access to shared state.
`outgoing` is the mpsc queue, `WriteFrame`, `WriteFails` and `WriterDone` are
`write_outgoing`; `frames` is what the browser sent and the reader has not read;
`ReadReply`, `ReadEnd`, `ReadFails` and `AbandonPending` are `read_incoming`, the
last one separate because the drain of the map happens after the loop has ended.
A frame is its id. The browser (`Answer`, `StopReading`) and the link (`LoseLink`) are
external: commands are answered in any order, at most once each; a broken link loses any
suffix of the replies on their way, and swallows frames before it refuses them. A browser
that stops reading leaves the link open: frames still fit on the way to it (`BufferFrame`)
until they do not, and then `sink.send` waits, for ever or until the link breaks.

### CdpEvents

A broadcast channel is the log of what it was sent; a receiver is a position. The
ring of `Backlog` slots shows in what is still `Available` and what is `Lagged`
(`tokio::sync::broadcast` is modelled from how the code uses it). `Publish` sends
on the session-aware channel, `PublishToTarget` on the other one if the event has
no session: two steps, since receivers run in between. `wait_for_event` is
`Subscribe`, then turns of the loop: `SkipLag`, `Receive`, or `GiveUp`.
`navigate_and_wait` subscribes, sends `Page.navigate` (an open command that
settles with a reply or fails), judges the reply and joins the same loop.
`capture_console` is the task `capture`, whose loop ends at any error of `recv`, and which
sends the console calls into a channel of its own, of `ConsoleBacklog` slots: `captured` is
the log of that one. Its receiver is the caller's: `ConsumeCall`, `ConsumeLag` and
`ConsumeEnd` are the outcomes of `recv` there.
The field `of` of an event says which navigation caused it; no code sees it.

### Operations

A caller runs a batch, `execute_many` or a sequence of calls, action by action;
`Scripts` gives the commands each action sends in order. `Begin` is `dispatch`,
`Send` a `send_command` up to its await, `Resume` what follows the answer (`Proceed`,
or a turn of the loop of `wait_for_selector`, `Look`), `GiveUp` the timeout or the
end of the connection, `Drop` the caller dropping the future at an await (its result is
`dropped`, which nobody is told, and what was sent stays sent), `DeadlinePasses` and `WakeUp` the clocks of `waitFor` and
`wait`. Of the command path it takes only what `CommandService` promises: `wire`
holds the commands sent and not executed, which the browser executes in any order, if
ever, also after their caller gave them up. Of the tab there is what actions leave
behind or rely on: mouse button, key, focus, viewport, the document and its size,
whether the awaited element is there, what `Fetch` pauses, the sessions. `Droppable` are
the callers whose futures may be dropped; `dropHandle` is a `CdpSession` that goes out of
scope without `detach`, which has no `Drop`. `Execute`,
`Refuse` and `Change` are the browser's and the page's, modelled from what the code
expects of them. `ran` and `view` record what was executed and what an action saw;
no code reads them. Actions that send the same command in the same way share a
script: one `eval`, one `evaluate`, one `send_command`.

### WorkerPool, Cluster, NodeCluster

`WorkerPool` knows no permits, queues or retries: a worker is free, leased or lost, a
client is served, gone or refused. Both pools implement it (`ImplementsWorkerPool` of
each, `INSTANCE ... WITH` at its end); a worker is lost only in `Cluster`.

A task (or batch) goes `queued` (the semaphore, first come first served),
`permitted`, `running`, `returning`, `releasing`, `done`. `CheckOut` and `CheckIn`
are the pop and the push under the mutex. In `Cluster` the closure may panic
(`Panic`) and the future be dropped (`Cancel`), which drops the client with the
stack and gives the permit back. The tasks in `Spawned` are those of `run`. Dropping
`run`'s future drops its `JoinSet`, which only asks the runtime to abort them (`Abort`): an
aborted task is in the middle of a poll, it owns an `Arc` of the pool, and it goes on
through every await that is not pending, or is dropped at one. `close` consumes the
cluster, so it starts when no future borrows it, aborted tasks or not (`CloseStarts`); it
holds the mutex throughout, and its own future may be dropped (`CloseDropped`). In `NodeCluster` neither happens, since promises are not
dropped and the agent turns errors into results, but `close` may run at any time
and more than once, holding the mutex throughout. A tab is `closed` when it was
sent `Page.close`: the code ignores whether that worked, so an action may still succeed on
it (`RunAction`).

### Generator, and the committed code

`Generator` is one run of `xtask`, step by step: the methods directory, then the registry,
whose loop asks of every declared type whether it derives `Default` (`Ask`, one question of
the loop with the memo it leaves), then the protocol directory. `fresh` clears a directory
entry by entry, in no order (`RemoveMethods`, `RemoveProtocol`), and `fs::write` opens a
file, which cuts it short, before it has written it (`OpenMethods` and `WriteMethods`,
`OpenProtocol` and `WriteProtocol`, the index last); a file in between is in `torn`. A run
may be killed between any two of these steps: it stops there, and what it left is what a
later run finds. It may also panic: at any call of the file system, each of which is
followed by an `expect` (`DiskFails`), or at a domain that cannot be rendered (`Panic`), for
a dangling reference (`checked`) or for one of the asserts on text, which are the mark
`faulty` of a domain: a primitive without a Rust type, a field without a type, an enum whose
values collide, an item declared twice. `Inputs` pairs families of schemas with what the
two directories may hold before, which may be anything.
`reaches`, `defaultable`, `field_type` and the renderers are operators with the names
they have in `xtask`; a field is the type it refers to, optional or an array. The loop
of `reaches`, which widens a set of types until nothing is new, is the fixed point
`Grown`; the recursion of `defaultable` is a recursive function of a question, which is
the memo, the types being asked, the type and how many of its fields are left
(`Questions`). The properties do not use them: they compute, over what was written,
which types have a finite size and where `Default` is derivable, as least fixed points.

The tables hold what is committed: each struct, enum, alias, command and event of each
domain, each field that refers to a declared type with its `Option`, `Vec` and `Box`,
and each derive of `Default`. Fields of primitive types, documentation and the names on
the wire are left out; enums declared in a field are types like the others.
`CommittedSchema` erases the boxes and the derives, and
`RegenerationChangesNothing` has the generator put them back.

## 3. Runs

| Run | Instance | States | Shows |
|---|---|---|---|
| `client` | 2 calls, each timed or not and cancellable, 1 reply value | 148,618 | the safety properties, the refinement and the four liveness properties |
| `events` | 1 waiter, 1 navigation, 1 capture and its consumer, 2 sessions, rings of 1, 2 spontaneous events | 3.4 million up to symmetry | who is woken, what may be missed, and what a capture's consumer gets |
| `operations` | one caller with each of 9 actions and then any of the 20; 2 callers at once with the same of the 9, or with `navigate` or `setViewport` beside another; one caller's futures dropped anywhere; 1 change of the page | 2,278,321 | what a success and a failure say of the tab, where what is left comes from, and that every batch ends |
| `cluster` | 2 workers, 4 tasks (2 spawned by `run`; 1 may panic, 2 be dropped, one of them aborted), 1 retry | 257,479 | the pool's safety, that it is a lease of workers, and that every task ends |
| `node_cluster` | 2 workers, 3 batches (lengths 2, 2, 0), 2 calls of `close`, 1 retry | 163,129 | the same with rollback and concurrent close |
| `generator` | every graph of three structs in two domains, with and without options; of two through arrays; commands and events with dangling references, domains that cannot be rendered, 5 leftovers; the committed schema of 58 domains | 485,181 | that the types written are sound, that what a run leaves is its own, and that the committed code is what the generator writes |

The runs that TLC must find violated are in section 6.

Bounds. Nothing in `CdpClient` is bounded but the set of calls: each takes one id
and sends one frame. Two calls are the least for a reply to go astray, and none of its hazards
takes more: they are between one call and the reader, the writer or its timer, or between
two ids. The safety properties and the refinement are proved for any number. The durations
are 0, 500 microseconds, which becomes 0, and 30 s. `MaxEvents` bounds the
events pages raise on their own; with the navigation's load there are three, and a
ring of one overflows from the second on, so lags of one and of two occur; two console
calls overflow the capture's ring likewise. Two
sessions are there to be confused. Four tasks on two workers give a queue behind
full workers, a panic, a dropped `execute` and a dropped `run` together, a task that finds
the Vec empty, and one that goes on beside `close`. One retry separates the first attempt, the last, and none left. Symmetry
(of sessions) is used only in the run `events`, which has no liveness property.
`Operations` has no bound but `MaxChanges`: the loop of `wait_for_selector` repeats
states, and a change of the page between two commands of one caller needs one, since
the other caller makes as many as it has commands. Two actions in a row let a command
that timed out in the first, or was sent by one that was dropped, be executed during or
after the second; the first is one that leaves something behind or depends on the tab,
since the others leave nothing for a second to meet. Two callers at once disturb each
other with the commands that change what others see: loading a document, setting the
viewport, or the other's own. Three types make every shape
of cycle a search can meet: of one, of two, of three, through another domain, a cycle
reached from outside it, and two cycles that share a type. The leftovers are a run that
ended, of a schema with other domains; one killed in the middle of a module; one killed
while it cleared a directory, with a `mod.rs` that names what is gone; and one killed while
it wrote `mod.rs`.
Deadlock is not checked: every system here stops when its calls are over.

Fairness. Weak fairness of each task's own steps: the runtime polls every task
that is ready, the timers fire, and mutexes and semaphores are first come first
served. Nothing is assumed of the browser, the link or the callers: the browser
may never answer or stop reading, and the link may never break. So the writer is fair only
in steps `sink.send` can take: while the browser reads, and once the link is down, whose
socket takes or refuses a frame; with a stalled browser it may stay in `sink.send` for ever,
and `WriterEndsWithClient` says that this, a frame stalled for good (`[]Stalled`), is the
only thing that keeps it. In `Cluster` the runtime drops a task that was aborted, unless it
ends first. In `Operations` a command that is not
answered is given up (`GiveUp`, the command timeout), which is why `BatchesEnd` needs
no fairness of the browser; with the timeout disabled it would not hold. In the pools
a closure that runs does return, or its attempt would not be bounded: each command in
it is bounded by its timeout.

## 4. Properties

`CdpClient`: `RepliesReachTheirCallers` (what a call returns is the answer to the
id it took), `RegisteredBeforeSent` (no reply can precede its registration),
`WaitersAreRegistered` (a waiter is in the map or has its reply, so the "response
channel closed" branches are unreachable), `NoDanglingEntry`,
`ImplementsCommandService` (each call settles once, with its own answer, a timeout,
or an error true of the connection), and under fairness `TimedCallsReturn`,
`InFlightFailAtTheEnd`, `AnsweredCallsReturn`, `WriterEndsWithClient` (unless a browser
that reads no more holds a frame up for good).

`CdpEvents`: `WaitersWakeForTheirTarget`, `NothingReadableIsSkipped` (a waiter
passes over a match only if it had been overwritten), `LoadIsNeverMissed`,
`CaptureHasNoGaps` (the consumer of a capture gets its calls in order and once, misses
none without being told of a lag, and what it got and what it was told it missed are
together every call its task came past; what the task itself misses when its own lag ends
it is the run `events_capture`).

`Operations`: `SuccessMeansItWasDone` (the commands of an action are executed in order,
each at most once, and all of them if it succeeds), `RemainsHaveACause` (once the batches
are over, a button or key left down and a `Fetch` that pauses everything are each the
remains of an action stopped after the first of its two commands, and a session without a
handle of an attach, a detach or a handle cut short; each reported a failure, unless its
caller dropped it and so nobody was told), `UndisturbedActionsAreRight` (a full-page screenshot is of the
whole page and text goes to the element, if nothing changes the tab meanwhile),
`WaitTellsTheTruth` (`wait_for_selector`), `BatchesEnd`.

`Cluster`: `TabsAreExclusive`, `PermitsAreConserved`,
`WorkersGoMissingOnlyWithTheirTask`, `FailuresAreFinal`, `CloseReachesEveryTab` (as many
tabs stay open at most as tasks panicked, were dropped or aborted, whatever the aborted
ones do beside `close`),
`StartedTasksEnd`, `ImplementsWorkerPool`.

`NodeCluster`: `ImplementsWorkerPool` (which says that workers are exclusive, that none
is missing and that `close` spares those with a batch), `ResultsAreOfOneAttempt`,
`RollBackIsComplete`, `BatchesEnd`, `CloseMissesOnlyLeasedTabs` (a `close` that returns
leaves open only the tabs batches have at that moment: no worker slips past it on its way
out of the Vec or back).

`Generator`: `SizesAreFinite` (every cycle is cut, and nothing is boxed that is not on
one), `DefaultsAreExact` (`Default` is derived exactly where it compiles and ends,
whatever the order of the questions), `DanglingReferencesStopTheRun` (a domain with such a
reference gets no file, and an index is begun only when every reference is to a type that
was written; other panics stop a run too), `OutputIsOfThisRun` (from its first module on a
directory has nothing but this run's whole modules and at most one file cut short, and an
index of this run names exactly what is there, wherever the run stops and whatever was
there before; both directories of a finished run have the same commands),
`RegenerationChangesNothing` (of
the 58 committed domains).

Each has a mutation next to the action it mutates (comments `Mutation:`), a bug
that code could have, under which TLC finds the property violated.

## 5. Proofs

The proof modules prove, for any sets of calls, replies, waiters, workers, tasks and
callers, any size of the ring, any number of retries and batches of any length, every
safety invariant of the runs of `CdpClient`, `CdpEvents`, `Operations`, `Cluster` and
`NodeCluster`, for any schema every one of `Generator`, and
the refinements `ImplementsCommandService`
and `ImplementsWorkerPool` (of both pools). `MaxEvents` and `MaxChanges`, which bound
TLC's instances, are any numbers in the proofs. Assumptions: those named in the modules,
which TLC evaluates. `CallsAssumption`: the error values are not replies.
`EventsAssumption`: the target itself is none of its sessions, waiters and navigators
are different callers, each ring has a slot. `OperationsAssumption`: batches are made of
the actions there are. `ClusterAssumption`, `NodeClusterAssumption`: the sets are
finite and there is a worker. `SchemasAssumption`: a schema has finitely many domains
and types, and a type's fields are a finite list of references, each optional or not and
an array or not, which is what parses. `LeftoversAssumption`: a directory has modules,
perhaps an index and perhaps files cut short, any of each.

Each proof has one lemma per action or group of like actions, under it one step
per conjunct of the inductive invariant that the action can disturb, and a theorem for
each property.

*The client.* `RepliesReachTheirCallers` is not inductive: that a reply in a
call's channel is its own follows from the map's entry being its own, which
follows from ids being unique. `IInv` adds to it: `IdsAreUnique` (ids in use are
below `next_id`), `EntriesAreOwned` (an entry is keyed by its call's id and its
sender unused), `EarlyCallsAreBlank`, `RepliesAreAuthentic` (frames and channels
carry what the browser answered), `OnceOnTheWire` (a command is in one place
between the queue and its answer, and its call has queued it: from this
`RegisteredBeforeSent` follows) and `ErrorsAreHonest` (a call told that the
connection is gone is told the truth). `ClientImplementsService` maps each action to a
step of `CommandService` or a stutter under `IInv`.

*The pool.* `CInv` adds to the pool's invariants that a client is with a task
exactly while it runs (`HoldersRun`), that the queue holds the waiting tasks once each
(`QueueIsFaithful`), that a running task has an attempt left (`AttemptsLeft`), that
`new` pushes each tab it set up once (`PoolIsOpen`) and that nothing runs before the pool
is built, and nothing but aborted tasks once `close` has begun (`QuietOutside`). The core is counting: permits plus permitted tasks make the
number of workers; clients in the Vec, clients with tasks and tasks that took one
away make at least that number; holders are among the permitted; so a permitted
task that finds the Vec empty proves that some task took a client away.
`NoWorkerGoesMissing` concludes that with no panic and no cancellation
`expect("worker missing")` cannot fail. `CloseReachesEveryTab` is counted too: when `close`
ends every client in the Vec is closed, so a tab that is open is with an aborted task, or
was that of one that is gone; and a client that an aborted task pushes afterwards is paid
for by that task. `CloseKeepsItsWord` concludes that with no panic and no cancellation
every tab is closed, as the doc of `close` says.

Of `StartedTasksEnd` everything but the fairness is proved. `TasksNeverWaitForNobody`: a
task that waits is in the queue, and if no task has a permit the semaphore has them all,
so the first of the queue can go on. `TasksEndByThemselves`: each step of a task lowers
the stages and attempts it has left (`Remaining`), and no other step changes them.

*The lease.* `ClusterImplementsWorkerPool` maps each step of the pool to a step of
`WorkerPool` or to none, under `CInv`: `CheckOut` is a lease or a refusal, `CheckIn` a
return, a panic or a dropped future a departure; permits, the queue, attempts and the
beginning and end of `close` are not seen. Two of the steps need counting. The pool
opens with all its workers free because distinct clients as many as the workers are
all of them. A task is refused only once a worker is lost because the tasks that have a
client are fewer than the permits, so that with an empty Vec some worker is nowhere.

*The abstract pool.* What `WorkerPool` promises is proved of it once, for both pools:
leases are exclusive, no client is refused and no worker of an open pool lost before a
client went away with one, and no worker is closed under a client that has it. The
invariant `LeaseInv` says which clients have a worker at all.

*The Node pool.* `NInv` is `CInv` without its losses and with a `close` that interleaves
with everything. As no worker is ever lost, the workers in the Vec and those with batches
are all of them (`WorkersAreKept`), and counting gives `WorkersAreNeverMissing`: a batch
with a permit finds a worker, so the `expect` in `execute` cannot panic. `close` needs
`CloseGuardsTheVec`: one call at a time holds the mutex, and the tabs it has left to
close are still in the Vec, since check-outs and check-ins wait for the mutex. From it
follow `CloseSparesBatches` (no tab is closed under a batch), that a `CloseTab` is a
`Close` of `WorkerPool`, and `CloseMissesOnlyLeasedTabs`: what was in the Vec when a
`close` took the mutex still is when it releases it, and the other workers are with
batches. `RollBackIsComplete` needs that the Vec of a failing `create` has
every tab set up (`SetUpTabsArePooled`). `ResultsAreOfOneAttempt` needs that a batch
which does not run has no attempts and no results yet (`AttemptsAreInOrder`). As for the
Rust pool, `BatchesNeverWaitForNobody` and `BatchesEndByThemselves` prove of `BatchesEnd`
all but the fairness: whoever holds the mutex is a close that can go on, and a retry is
paid for with an attempt worth more than the actions it begins again.

*Events.* The properties relate positions in a log to what was received on the way.
`EInv` adds that positions lie between the subscription and the end of the log
(`ReceiversMoveForward`), that the event a waiter returned is just behind its position
(`EventsAreReceived`), that the channel `publish` feeds last has the target's events only
(`TargetEventsAreMain`), and, for `LoadIsNeverMissed`, that a load event in a frame, in a
log or between two channels is of a navigation that has begun, which it has only after
its caller subscribed (`LoadsHaveCauses`, `NavigationsAreAwaited`). `CaptureHasNoGaps` takes
two: the log of the capture's own channel is the console calls its task came past, in order
and as many (`CallsArePassedOn`), and what its consumer got and what it was told it missed
are as many as it has behind it there (`ConsumerFollows`).

*Operations.* `OInv` is proved in layers. `CoreInv` says how far each action is and what
of it was carried out: a command on the wire is the next of its action, which has no
other there, and if its action is over, that action has failed or was dropped
(`CommandsAreNext`). So a command that was given up on and is executed later extends the row
of such an action only, which is what `SuccessMeansItWasDone` needs. On it rest: a button,
key or filter that is left belongs to an action with one of its two commands carried out
(`PressedByAnAction`), and a session to a handle, to an attach or detach under way, or to
one that was cut short (`SessionsAreOwned`); once the batches are over such an action cannot
have succeeded, which is `RemainsHaveACause`; what the last
poll saw (`PollsAreRight`), for `WaitTellsTheTruth`; and how far an action is that nothing
has disturbed (`UndisturbedActionsAdvance`), for `UndisturbedActionsAreRight`.

*The generator.* `GInv` says how far a run is with each directory: `methods/` holds the
names of each domain its loop has done, `protocol/` what `render_domain` makes of each
it has checked, at most one file is cut short, the one whose turn it is, and an index is
there only after the loop (`MethodsAreOfThisRun`, `ProtocolIsOfThisRun`). Of a directory
not yet cleared it says only that it is one (`EarlierDirectories`): the run goes on when
nothing is left of it (`fresh`), so what an earlier run left does not matter, killed
wherever it may have been. `CheckedSoFar` and `AnswersAreRight` speak of the registry: a domain
in the output has no reference to an undeclared type, and whatever the memo answers is
right: yes only of types in `Derivable`, no only of others.

`SizesAreFinite` needs of the boxes that they break every cycle of types held by value.
Suppose some type written has no finite size; take one from which the fewest types are
reached. It holds another such type by value, unboxed, which then does not reach back,
and so reaches fewer. That a box is only where it is needed is that `reaches` computes
what `Grown` does over the types written (`ReachesIsLeast`).

`DefaultsAreExact` needs that `defaultable` is well defined, sound and complete. A
question asks only questions with fewer types not yet being asked, or with fewer fields
left of the same type, so the recursion ends (`QuestionsEnd`) and the recursive
function satisfies its equation (`FixedPoint`). A type answered yes is derivable: a
smallest wrong question would ask a smaller one. A type answered no is not: where the
search gives up because the type is being asked already, that type requires itself,
and no derivable type does (`CyclesDoNotEnd`). So a memo of right answers leads to right
answers (`AskedIsRight`), though it holds those to inner questions as well.

The induction theorems of the library take an operator, which the prover cannot
instantiate; these arguments are therefore made by a least counterexample, over the
well-founded orders of natural numbers and of the subsets of a finite set.

Only model-checked: every liveness property as such, since the prover has no
fairness; and that the committed code is what the generator
writes (`RegenerationChangesNothing`), which is about one schema and which TLC evaluates
completely. TLC checked `GInv` on the small schemas before it was proved; over the
committed one it is left out, where `Derivable` of every state takes too long.

## 6. Where the code differs from what it says

| Run | What TLC finds |
|---|---|
| `client_late_command` | A command registered after `abandon_pending` drained the map is failed by nobody, against `client.rs:158-159`: it waits out its timeout, or for ever without one. |
| `client_reader_leak` | The reader task outlives a dropped client, against `client.rs:195-196`. |
| `events_capture` | A console capture that lags once stops while the agent lives, against `agent.rs:108-109`. |
| `cluster_missing` | After a panic or a dropped future `execute` panics instead of blocking "until a worker is free" (`cluster.rs:145`). |
| `node_cluster_leak` | A worker that fails after `create_tab` leaves its tab, against `cdp-protocol-node/src/cluster.rs:59-60`. |
| `node_cluster_close` | A `close` that runs while a batch has a worker leaves that worker's tab open, against "Close every worker tab" (`cdp-protocol-node/src/cluster.rs:161`). |

The Rust pool's `close` promises the same (`cluster.rs:248`) and fails it in another way: a
client that went down with a task that panicked or was dropped is in no Vec, and one that a
task of a dropped `run` has when `close` walks the Vec, or pushes after it, stays open. This
has no run of its own: `CloseReachesEveryTab` (run `cluster`) says how many tabs may be
missed and why, `CloseKeepsItsWord` that with no panic and no dropped future none is, and
`EveryWorkerTabIsClosed` of `Cluster` is what fails otherwise.

## 7. Not modelled

*Of the client.* The content of frames and of errors; the WebSocket handshake; pings;
the id counter's 2^64 wrap and the timeout's saturation at `u64::MAX`.

*Of the pools.* A `retries` of `u32::MAX`; a pool of no worker; how `run` collects its
results. Discovery over HTTP is pure I/O: its failure is an outcome of `create_tab`.

*Of the operations.* What a command says and what its answer holds beyond the value the
next command takes; the table of keys; which JSON parses to which action (one that does
not sends nothing, as `clickNothing`). Methods that are one command around a conversion
(cookies, headers, PDF, attributes and the like) are one script, `getMetrics`.

*Conversions.* The typed wrappers, the errors and the Node binding's arguments have no
state. The blocking client runs each method of the async one with `block_on` on a
multi-threaded runtime of its own, on which the tasks of the client go on between
calls: it is the system above with one caller.

*Of the generator.* Names (snake and Pascal case, keywords, collisions of them), docs
and layout are text, and so are the asserts on them, which only mark a domain as one that
cannot be rendered. Whether the committed code is of the schema vendored beside it is
checked as far as the committed code states that schema: the tables are of the Rust, not
of the JSON, so a type left out of both goes unseen. The committed code has no alias that
holds itself, and no small schema has one.

## 8. Plan

1. Done: all modules of section 2 with their runs; proofs of every safety invariant of
   `CdpClient`, `CdpEvents`, `Operations`, `Cluster`, `NodeCluster` and `Generator` within
   the prover's reach; the refinements of `CommandService` and, by both pools, of
   `WorkerPool`; the liveness of the tasks of both pools but
   for its fairness.
2. Left: the liveness of the calls of `CdpClient` but for its fairness; a
   generator whose renderers' names can collide, which needs names as data.
