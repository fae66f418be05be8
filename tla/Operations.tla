------------------------------ MODULE Operations ------------------------------
(***************************************************************************)
(* The operations that take more than one command: the actions of          *)
(* BrowserAgent and the methods of CdpClient and CdpSession built on       *)
(* send_command.  Several callers may share one client, each running its   *)
(* batch in order (execute_many) and going on after a failure.             *)
(*                                                                         *)
(* Of the command path this takes what CommandService promises: a command  *)
(* is executed at most once, its caller gets the answer or an error, and   *)
(* one given up on may still be executed later, in any order with those    *)
(* after it.  The page also changes by itself, MaxChanges times.           *)
(***************************************************************************)
EXTENDS Naturals, Sequences, FiniteSetsExt

CONSTANTS Callers,    \* tasks that share the client
          Batches,    \* what they may run: each a function from callers to sequences
          Droppable,  \* those of them whose futures may be dropped
          MaxChanges  \* bounds what the page does by itself

VARIABLES
    batch,    \* the actions each caller runs
    call,     \* where each caller is, and what it remembers of its action
    results,  \* how each action ended: "ok", or why ActionResult is a failure, or
              \* "dropped", which nobody is told
    handles,  \* the sessions each caller has a CdpSession of
    wire,     \* commands sent and not executed; one that stays was lost
    reply,    \* the answer that travels to each caller
    page,     \* the state of the tab
    changes,  \* how often the page changed by itself
    ran,      \* ghost: the steps executed of each action begun
    view      \* ghost: what held of the tab while each caller's action ran

client == <<call, results, handles>>
browser == <<page, changes, ran, view>>
vars == <<batch, client, wire, reply, browser>>

\* The commands of each action, in order; the later ones are sent only once the
\* earlier ones are answered.  "script" stands for the actions that are one eval,
\* "evaluate" for those that take an exception as the value, "command" for those
\* that are one send_command, which "leave" has load a document.  clickNothing has
\* neither selector nor coordinates, or is JSON that does not parse.  dropHandle lets a
\* CdpSession go without a detach.
Scripts == [
    connect    |-> <<"enable", "enable", "enable", "enable">>,
    navigate   |-> <<"navigate">>,
    reload     |-> <<"leave">>,
    clickAt    |-> <<"mousePressed", "mouseReleased">>,
    clickNothing |-> << >>,
    enter      |-> <<"focus", "insertText">>,
    pressKey   |-> <<"keyDown", "keyUp">>,
    eval       |-> <<"script">>,
    evaluate   |-> <<"evaluate">>,
    getMetrics |-> <<"command">>,
    screenshot |-> <<"measure", "setViewport", "capture">>,
    setViewport |-> <<"setViewport">>,
    wait       |-> << >>,
    waitFor    |-> <<"look">>,
    setContent |-> <<"getFrameTree", "setDocumentContent">>,
    query      |-> <<"getDocument", "querySelector">>,
    intercept  |-> <<"enableFetch", "enableFetchPatterns">>,
    attach     |-> <<"attachToTarget">>,
    detach     |-> <<"detachFromTarget">>,
    dropHandle |-> << >>]

Actions == DOMAIN Scripts

ASSUME OperationsAssumption ==
    /\ Batches \subseteq [Callers -> Seq(Actions)]
    /\ MaxChanges \in Nat

NoReply == [what |-> "none", value |-> 0]

\* Documents are numbered as they load, and are small or large; a full-page
\* screenshot makes the viewport no smaller than the fallback, and the action
\* setViewport smaller than any document (0).
Small == 1
Large == 2
FallbackViewport == Small
Size(document) == IF document % 2 = 0 THEN Small ELSE Large

Idle == [pc |-> "ready", at |-> 1, step |-> 1, carry |-> 0, due |-> FALSE]
FreshView == [alone |-> TRUE, right |-> FALSE, present |-> FALSE, looked |-> {},
              threw |-> FALSE]

Init ==
    /\ batch \in Batches
    /\ call = [c \in Callers |-> Idle]
    /\ results = [c \in Callers |-> << >>]
    /\ handles = [c \in Callers |-> {}]
    /\ wire = {}
    /\ reply = [c \in Callers |-> NoReply]
    /\ page \in [button : {"up"}, key : {"up"}, viewport : {0}, document : {0, 1},
                 element : BOOLEAN, focused : {FALSE}, fetch : {"off"}, sessions : {{}},
                 attached : {0}]
    /\ changes = 0
    /\ ran = [c \in Callers |-> << >>]
    /\ view = [c \in Callers |-> FreshView]

Action(c) == batch[c][call[c].at]
Step(c) == Scripts[Action(c)][call[c].step]
IsLastStep(c) == call[c].step = Len(Scripts[Action(c)])
Running(c) == call[c].pc # "ready"
Done(c) == call[c].at > Len(batch[c])

-----------------------------------------------------------------------------
(* The caller.                                                             *)

GoTo(c, pc) == call' = [call EXCEPT ![c].pc = pc]

\* An action ends, its result is pushed and the next one's turn comes.
Finish(c, result) ==
    /\ results' = [results EXCEPT ![c] = Append(@, result)]
    /\ call' = [call EXCEPT ![c] = [Idle EXCEPT !.at = call[c].at + 1]]

\* dispatch.
Dispatch(c) ==
    \/ Action(c) = "clickNothing" /\ Finish(c, "error") /\ UNCHANGED handles
    \/ Action(c) = "wait" /\ GoTo(c, "sleeping") /\ UNCHANGED <<results, handles>>
    \/ /\ Scripts[Action(c)] # << >> /\ Action(c) # "detach"
       /\ GoTo(c, "sending")
       /\ UNCHANGED <<results, handles>>
    \/ \E s \in handles[c] :  \* detach consumes the CdpSession, which has no Drop
           /\ handles' = [handles EXCEPT ![c] = @ \ {s}]
           /\ \/ /\ Action(c) = "detach"
                 /\ call' = [call EXCEPT ![c].pc = "sending", ![c].carry = s]
                 /\ UNCHANGED results
              \/ Action(c) = "dropHandle" /\ Finish(c, "dropped")

Begin(c) ==
    /\ ~Running(c) /\ ~Done(c)
    /\ Dispatch(c)
    /\ ran' = [ran EXCEPT ![c] = Append(@, << >>)]
    /\ view' = [view EXCEPT ![c] = [FreshView EXCEPT !.looked = {page.element}]]
    /\ UNCHANGED <<batch, wire, reply, page, changes>>

\* A caller that got no session has no CdpSession to detach or drop.
Skip(c) ==
    /\ ~Running(c) /\ ~Done(c) /\ Action(c) \in {"detach", "dropHandle"} /\ handles[c] = {}
    /\ Finish(c, "error")
    /\ ran' = [ran EXCEPT ![c] = Append(@, << >>)]
    /\ view' = [view EXCEPT ![c] = FreshView]
    /\ UNCHANGED <<batch, handles, wire, reply, page, changes>>

\* Mutation: the viewport of a full-page screenshot is capped at the fallback.
ArgumentCapped(c) ==
    IF Action(c) = "screenshot" /\ Step(c) = "setViewport"
    THEN Min({call[c].carry, FallbackViewport}) ELSE call[c].carry

\* What a command takes of the answer before it.
Argument(c) ==
    IF Action(c) = "screenshot" /\ Step(c) = "setViewport"
    THEN Max({call[c].carry, FallbackViewport}) ELSE call[c].carry

Send(c) ==
    /\ call[c].pc = "sending"
    /\ wire' = wire \cup {[by |-> c, action |-> call[c].at, step |-> call[c].step,
                           kind |-> Step(c), argument |-> Argument(c)]}
    /\ GoTo(c, "awaiting")
    /\ UNCHANGED <<batch, results, handles, reply, browser>>

\* Mutation: the error of a command is passed over.
AnswersAnything(c) == reply[c] # NoReply

\* Whether the caller reads its answer as a success.  That an expression threw is
\* an error for eval; those who call evaluate see no value in it.
Answers(c) ==
    \/ reply[c].what = "done"
    \/ reply[c].what = "threw" /\ Step(c) \in {"measure", "look", "evaluate"}

\* Mutation: the answer of wait_for_selector is compared with another type.
FoundNever(c) == FALSE

Found(c) == reply[c].what = "done" /\ reply[c].value = 1

\* Mutation: wait_for_selector does not look at its deadline.
ExpiredNever(c) == FALSE

Expired(c) == call[c].due

\* One turn of the loop of wait_for_selector.
Look(c) ==
    /\ Step(c) = "look"
    /\ \/ Found(c) /\ Finish(c, "ok")
       \/ ~Found(c) /\ Expired(c) /\ Finish(c, "deadline")
       \/ ~Found(c) /\ ~Expired(c) /\ GoTo(c, "sleeping") /\ UNCHANGED results
    /\ UNCHANGED handles

\* The `?` after a command, and what follows its last one.
Proceed(c) ==
    /\ Step(c) # "look"
    /\ IF IsLastStep(c)
       THEN /\ Finish(c, "ok")
            /\ handles' = IF Step(c) = "attachToTarget"
                          THEN [handles EXCEPT ![c] = @ \cup {reply[c].value}]
                          ELSE handles
       ELSE /\ call' = [call EXCEPT ![c].pc = "sending", ![c].step = @ + 1,
                                    ![c].carry = reply[c].value]
            /\ UNCHANGED <<results, handles>>

Resume(c) ==
    /\ call[c].pc = "awaiting" /\ reply[c] # NoReply
    /\ reply' = [reply EXCEPT ![c] = NoReply]
    /\ \/ Answers(c) /\ (Look(c) \/ Proceed(c))
       \/ ~Answers(c) /\ Finish(c, "error") /\ UNCHANGED handles
    /\ UNCHANGED <<batch, wire, browser>>

\* Mutation: a command that timed out is sent again.
GiveUpAndRetry(c) ==
    /\ call[c].pc = "awaiting"
    /\ GoTo(c, "sending")
    /\ reply' = [reply EXCEPT ![c] = NoReply]
    /\ UNCHANGED <<batch, results, handles, wire, browser>>

\* The command times out, or the connection ends; an answer under way is dropped.
GiveUp(c) ==
    /\ call[c].pc = "awaiting"
    /\ Finish(c, "error")
    /\ reply' = [reply EXCEPT ![c] = NoReply]
    /\ UNCHANGED <<batch, handles, wire, browser>>

\* The future of the action is dropped at an await, by a timeout or a select of its
\* caller, who may go on with the next; one whose execute_many is dropped has a batch
\* that ends here.  What is sent stays sent, and an answer is dropped too.
Drop(c) ==
    /\ c \in Droppable /\ Running(c)
    /\ Finish(c, "dropped")
    /\ reply' = [reply EXCEPT ![c] = NoReply]
    /\ UNCHANGED <<batch, handles, wire, browser>>

\* The time given to wait_for_selector is over; it sees that at its next look.
DeadlinePasses(c) ==
    /\ Running(c) /\ Action(c) = "waitFor" /\ ~call[c].due
    /\ call' = [call EXCEPT ![c].due = TRUE]
    /\ UNCHANGED <<batch, results, handles, wire, reply, browser>>

WakeUp(c) ==
    /\ call[c].pc = "sleeping"
    /\ \/ Action(c) = "wait" /\ Finish(c, "ok")
       \/ Action(c) = "waitFor" /\ GoTo(c, "sending") /\ UNCHANGED results
    /\ UNCHANGED <<batch, handles, wire, reply, browser>>

Caller(c) == Begin(c) \/ Skip(c) \/ Send(c) \/ Resume(c) \/ GiveUp(c) \/ Drop(c)
                \/ DeadlinePasses(c) \/ WakeUp(c)

-----------------------------------------------------------------------------
(* The browser.                                                            *)

Load(p) ==
    UNION {{[p EXCEPT !.document = @ + n, !.element = e, !.focused = FALSE] :
                e \in BOOLEAN} : n \in {1, 2}}

\* The states of the tab a command may leave behind when it is carried out.
Effects(m, p) ==
    CASE m.kind \in {"navigate", "leave", "setDocumentContent"} -> Load(p)
      [] m.kind = "mousePressed"  -> {[p EXCEPT !.button = "down"]}
      [] m.kind = "mouseReleased" -> {[p EXCEPT !.button = "up"]}
      [] m.kind = "keyDown"       -> {[p EXCEPT !.key = "down"]}
      [] m.kind = "keyUp"         -> {[p EXCEPT !.key = "up"]}
      [] m.kind = "focus"         -> {[p EXCEPT !.focused = @ \/ p.element]}
      [] m.kind = "setViewport"   -> {[p EXCEPT !.viewport = m.argument]}
      [] m.kind = "enableFetch"  -> {[p EXCEPT !.fetch = "all"]}
      [] m.kind = "enableFetchPatterns" -> {[p EXCEPT !.fetch = "patterns"]}
      [] m.kind = "attachToTarget" ->
             {[p EXCEPT !.attached = @ + 1, !.sessions = @ \cup {p.attached + 1}]}
      [] m.kind = "detachFromTarget" -> {[p EXCEPT !.sessions = @ \ {m.argument}]}
      [] OTHER -> {p}

\* What the answer carries that the caller will use.
Values(m, p) ==
    CASE m.kind \in {"look", "querySelector"} -> {IF p.element THEN 1 ELSE 0}
      [] m.kind = "measure"        -> {Size(p.document)}
      [] m.kind = "getDocument"    -> {p.document}
      [] m.kind = "getFrameTree"   -> {0, 1}  \* "" when the answer has no id
      [] m.kind = "attachToTarget" -> {p.attached + 1}
      [] OTHER -> {0}

\* A command whose argument no longer names anything is refused.
Stale(m, p) ==
    \/ m.kind = "setDocumentContent" /\ m.argument = 0
    \/ m.kind = "querySelector" /\ m.argument # p.document
    \/ m.kind = "detachFromTarget" /\ m.argument \notin p.sessions

\* How a command that has no effect is answered: with an error, with an exception,
\* or with a result the caller does not accept.
Failures(m) ==
    {"refused"}
    \cup (IF m.kind \in {"focus", "script", "evaluate", "measure", "look"} THEN {"threw"} ELSE {})
    \cup (IF m.kind \in {"navigate", "capture", "getDocument"} THEN {"bad"} ELSE {})

IsCurrent(m) == Running(m.by) /\ call[m.by].at = m.action
Awaited(m) == IsCurrent(m) /\ call[m.by].pc = "awaiting" /\ call[m.by].step = m.step

Answer(m, what, value) ==
    reply' = IF Awaited(m) THEN [reply EXCEPT ![m.by] = [what |-> what, value |-> value]]
             ELSE reply

\* What a caller's action saw of the tab when m turned it from p into q.
Seen(v, c, m, p, q) ==
    LET own == IsCurrent(m) /\ m.by = c
    IN  [v EXCEPT
            !.alone = @ /\ (own \/ p = q),
            !.looked = IF Running(c) THEN @ \cup {q.element} ELSE @,
            !.present = IF own /\ m.kind = "focus" THEN p.element ELSE @,
            !.right = CASE own /\ m.kind = "insertText" -> p.focused
                        [] own /\ m.kind = "capture" -> p.viewport >= Size(p.document)
                        [] OTHER -> @]

\* m is carried out.  The polls of wait_for_selector count as one step.
Execute(m) ==
    /\ ~Stale(m, page)
    /\ page' \in Effects(m, page)
    /\ wire' = wire \ {m}
    /\ \E value \in Values(m, page) : Answer(m, "done", value)
    /\ ran' = [ran EXCEPT ![m.by][m.action] =
                   IF m.kind = "look" THEN <<m.step>> ELSE Append(@, m.step)]
    /\ view' = [c \in Callers |-> Seen(view[c], c, m, page, page')]
    /\ UNCHANGED <<batch, client, changes>>

Refuse(m) ==
    /\ wire' = wire \ {m}
    /\ \E what \in Failures(m) :
           /\ Answer(m, what, 0)
           /\ view' = IF what = "threw" /\ IsCurrent(m)
                      THEN [view EXCEPT ![m.by].threw = TRUE] ELSE view
           /\ ran' = IF what = "threw" THEN
                         [ran EXCEPT ![m.by][m.action] =
                             IF m.kind = "look" THEN <<m.step>> ELSE Append(@, m.step)]
                     ELSE ran
    /\ UNCHANGED <<batch, client, page, changes>>

\* The page's scripts add or remove the element, or move the focus; its user or a
\* link may take it to another document.
Change ==
    /\ changes < MaxChanges
    /\ changes' = changes + 1
    /\ page' \in Load(page) \cup {[page EXCEPT !.element = ~@, !.focused = FALSE],
                                  [page EXCEPT !.focused = FALSE]}
    /\ view' = [c \in Callers |->
                   [view[c] EXCEPT !.alone = FALSE,
                                   !.looked = IF Running(c) THEN @ \cup {page'.element} ELSE @]]
    /\ UNCHANGED <<batch, client, wire, reply, ran>>

-----------------------------------------------------------------------------
Next ==
    \/ \E c \in Callers : Caller(c)
    \/ \E m \in wire : Execute(m) \/ Refuse(m)
    \/ Change

\* The runtime polls every task that is ready and its timers fire.  Nothing is
\* assumed of the browser, which may never answer.
Fairness ==
    \A c \in Callers :
        /\ WF_vars(Begin(c) \/ Skip(c) \/ Send(c) \/ Resume(c) \/ GiveUp(c) \/ WakeUp(c))
        /\ WF_vars(DeadlinePasses(c))

Spec == Init /\ [][Next]_vars /\ Fairness

-----------------------------------------------------------------------------
(* Properties.                                                             *)

Ended(c) == ~Running(c) /\ results[c] # << >>
Last(c) == results[c][Len(results[c])]
LastAction(c) == batch[c][Len(results[c])]

\* The commands of an action are carried out in the order of the code, each at most
\* once, whatever times out, and all of them if the action is reported a success.
SuccessMeansItWasDone ==
    \A c \in Callers : \A i \in 1..Len(ran[c]) :
        /\ ran[c][i] = [s \in 1..Len(ran[c][i]) |-> s]
        /\ i <= Len(results[c]) /\ results[c][i] = "ok" =>
               Len(ran[c][i]) = Len(Scripts[batch[c][i]])

\* Some action of this kind was reported a failure, or dropped by its caller.
CutShort(actions) ==
    \E c \in Callers : \E i \in 1..Len(results[c]) :
        batch[c][i] \in actions /\ results[c][i] # "ok"

\* The same, of one that had the first of its commands carried out and no other.
CutInTheMiddle(action) ==
    \E c \in Callers : \E i \in 1..Len(results[c]) :
        batch[c][i] = action /\ results[c][i] # "ok" /\ Len(ran[c][i]) = 1

\* Once the batches are over, a button or key left pressed and an interception of every
\* request are each the remains of an action that stopped between its two commands,
\* and a session nobody has a handle of is one of an attach or a detach that failed;
\* and these said so, unless it was the caller who dropped the future, or the handle.
RemainsHaveACause ==
    (\A c \in Callers : Done(c)) =>
        /\ page.button = "down" => CutInTheMiddle("clickAt")
        /\ page.key = "down" => CutInTheMiddle("pressKey")
        /\ page.fetch = "all" => CutInTheMiddle("intercept")
        /\ page.sessions \subseteq UNION {handles[c] : c \in Callers}
           \/ CutShort({"attach", "detach", "dropHandle"})

\* An action that nothing disturbed, the page or another caller, did what it says: a
\* full-page screenshot shows the whole page, unless measuring it threw, and the
\* text went to the element if there was one to focus.
UndisturbedActionsAreRight ==
    \A c \in Callers :
        Ended(c) /\ Last(c) = "ok" /\ view[c].alone =>
            /\ LastAction(c) = "screenshot" => view[c].right \/ view[c].threw
            /\ LastAction(c) = "enter" => view[c].right \/ ~view[c].present

\* wait_for_selector reports an element that was there at some time during the
\* call, and a missed deadline only if at some time it was not there, or an
\* evaluation threw.
WaitTellsTheTruth ==
    \A c \in Callers :
        Ended(c) /\ LastAction(c) = "waitFor" =>
            /\ Last(c) = "ok" => TRUE \in view[c].looked
            /\ Last(c) = "deadline" => FALSE \in view[c].looked \/ view[c].threw

\* Every batch comes to its end, each action with a result unless it was dropped, though
\* the browser never answers and the element never appears.
BatchesEnd ==
    \A c \in Callers : <>[](Done(c) /\ Len(results[c]) = Len(batch[c]))

-----------------------------------------------------------------------------
(* The inductive invariants behind them, proved in Operations_proofs.      *)

Kinds == UNION {{Scripts[a][s] : s \in 1 .. Len(Scripts[a])} : a \in Actions}
Message == [by : Callers, action : Nat, step : Nat, kind : Kinds, argument : Nat]
CallState == [pc : {"ready", "sending", "awaiting", "sleeping"},
              at : Nat, step : Nat, carry : Nat, due : BOOLEAN]
ReplyState == {NoReply} \cup [what : {"done", "threw", "refused", "bad"}, value : Nat]
PageState == [button : {"up", "down"}, key : {"up", "down"}, viewport : Nat,
              document : Nat, element : BOOLEAN, focused : BOOLEAN,
              fetch : {"off", "all", "patterns"}, sessions : SUBSET Nat, attached : Nat]
ViewState == [alone : BOOLEAN, right : BOOLEAN, present : BOOLEAN,
              looked : SUBSET BOOLEAN, threw : BOOLEAN]

TypeOK ==
    /\ batch \in [Callers -> Seq(Actions)]
    /\ call \in [Callers -> CallState]
    /\ results \in [Callers -> Seq({"ok", "error", "deadline", "dropped"})]
    /\ handles \in [Callers -> SUBSET Nat]
    /\ wire \subseteq Message
    /\ reply \in [Callers -> ReplyState]
    /\ page \in PageState
    /\ changes \in 0 .. MaxChanges
    /\ ran \in [Callers -> Seq(Seq(Nat))]
    /\ view \in [Callers -> ViewState]

\* Each action begun has a row, each one ended a result.
RowsAndResults ==
    \A c \in Callers :
        /\ Len(results[c]) + 1 = call[c].at
        /\ Len(ran[c]) = IF Running(c) THEN call[c].at ELSE call[c].at - 1
        /\ call[c].at <= IF Running(c) THEN Len(batch[c]) ELSE Len(batch[c]) + 1

\* Where an action under way is, and how much of it has been carried out.
ActionsAdvance ==
    \A c \in Callers :
        /\ reply[c] # NoReply => call[c].pc = "awaiting"
        /\ ~Running(c) => call[c].step = 1
        /\ Running(c) =>
              /\ call[c].pc = "sleeping" => Action(c) \in {"wait", "waitFor"}
              /\ Action(c) = "wait" => call[c].pc = "sleeping" /\ ran[c][call[c].at] = << >>
              /\ Action(c) # "wait" => call[c].step \in 1 .. Len(Scripts[Action(c)])
              /\ reply[c].what \in {"done", "threw"} => Len(ran[c][call[c].at]) = call[c].step
              /\ call[c].pc = "sending" /\ Action(c) # "waitFor" =>
                    Len(ran[c][call[c].at]) + 1 = call[c].step

\* A command on the wire is the next of its action, which has no other there.  If that
\* action is under way it waits for this answer; if it is over it has failed.
CommandsAreNext ==
    /\ \A m \in wire :
          /\ m.action \in 1 .. Len(ran[m.by])
          /\ LET script == Scripts[batch[m.by][m.action]] IN
                m.step \in 1 .. Len(script) /\ m.kind = script[m.step]
          /\ m.kind # "look" => Len(ran[m.by][m.action]) + 1 = m.step
          /\ IsCurrent(m) => /\ Awaited(m) /\ reply[m.by] = NoReply
                             /\ m.argument = Argument(m.by)
          /\ ~IsCurrent(m) => m.action <= Len(results[m.by]) /\ results[m.by][m.action] # "ok"
    /\ \A m, n \in wire : m.by = n.by /\ m.action = n.action => m = n

\* A poll is not counted twice.
PollsCountOnce ==
    \A c \in Callers : \A i \in 1 .. Len(ran[c]) :
        batch[c][i] = "waitFor" => Len(ran[c][i]) <= 1

CoreInv ==
    /\ TypeOK
    /\ RowsAndResults
    /\ ActionsAdvance
    /\ CommandsAreNext
    /\ PollsCountOnce
    /\ SuccessMeansItWasDone

\* Some action of this kind has had the first of its commands carried out alone.
HalfDone(action) ==
    \E c \in Callers : \E i \in 1 .. Len(ran[c]) :
        batch[c][i] = action /\ Len(ran[c][i]) = 1

PressedByAnAction ==
    /\ page.button = "down" => HalfDone("clickAt")
    /\ page.key = "down" => HalfDone("pressKey")
    /\ page.fetch = "all" => HalfDone("intercept")

\* Whose a session is: a handle's, a detach's that has taken the handle, an attach's
\* that is about to make one, or that of one cut short.
Owned(s) ==
    \/ CutShort({"attach", "detach", "dropHandle"})
    \/ \E c \in Callers :
          \/ s \in handles[c]
          \/ /\ Running(c) /\ Action(c) = "detach" /\ call[c].carry = s
             /\ reply[c].what # "done"
          \/ Running(c) /\ Action(c) = "attach" /\ reply[c].what = "done" /\ reply[c].value = s

SessionsAreOwned ==
    /\ \A s \in page.sessions : Owned(s) /\ s <= page.attached
    /\ \A c \in Callers :
          /\ \A s \in handles[c] : s <= page.attached
          /\ Running(c) /\ Action(c) = "detach" =>
                /\ call[c].carry <= page.attached
                /\ reply[c].what = "done" => call[c].carry \notin page.sessions
          /\ Running(c) /\ Action(c) = "attach" /\ reply[c].what = "done" =>
                reply[c].value <= page.attached

\* What a poll under way has seen.
PollsAreRight ==
    \A c \in Callers : Running(c) /\ Action(c) = "waitFor" =>
        /\ reply[c].what = "done" => IF reply[c].value = 1 THEN TRUE \in view[c].looked
                                                           ELSE FALSE \in view[c].looked
        /\ reply[c].what = "threw" => view[c].threw

\* How far an action that nothing has disturbed is.
UndisturbedActionsAdvance ==
    \A c \in Callers : Running(c) /\ view[c].alone =>
        /\ Action(c) = "enter" /\ view[c].present =>
              /\ call[c].step = 2 \/ reply[c].what = "done" => page.focused
              /\ call[c].step = 2 /\ reply[c].what = "done" => view[c].right
        /\ Action(c) = "screenshot" /\ ~view[c].threw =>
              /\ reply[c].what # "threw"
              /\ call[c].step = 1 /\ reply[c].what = "done" =>
                    reply[c].value = Size(page.document)
              /\ call[c].step = 2 => call[c].carry = Size(page.document)
              /\ (call[c].step = 2 /\ reply[c].what = "done") \/ call[c].step = 3 =>
                    page.viewport >= Size(page.document)
              /\ call[c].step = 3 /\ reply[c].what = "done" => view[c].right

\* The inductive invariant.
OInv ==
    /\ CoreInv
    /\ PressedByAnAction
    /\ SessionsAreOwned
    /\ PollsAreRight
    /\ UndisturbedActionsAdvance
    /\ UndisturbedActionsAreRight
    /\ WaitTellsTheTruth
=============================================================================
