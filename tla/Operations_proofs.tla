--------------------------- MODULE Operations_proofs ---------------------------
(***************************************************************************)
(* Proofs about Operations, for any callers, any batches of actions and    *)
(* any number of changes of the page.                                      *)
(***************************************************************************)
EXTENDS Operations, TLAPS

USE DEF client, browser, vars

-----------------------------------------------------------------------------
(* The scripts.                                                            *)

One(s, k)    == Len(s) = 1 /\ s[1] = k
Two(s, k, l) == Len(s) = 2 /\ s[1] = k /\ s[2] = l

LEMMA ScriptCases ==
  ASSUME NEW a \in Actions
  PROVE  \/ a = "connect" /\ Len(Scripts[a]) = 4 /\ \A s \in 1 .. 4 : Scripts[a][s] = "enable"
         \/ a = "navigate" /\ One(Scripts[a], "navigate")
         \/ a = "reload" /\ One(Scripts[a], "leave")
         \/ a = "clickAt" /\ Two(Scripts[a], "mousePressed", "mouseReleased")
         \/ a \in {"clickNothing", "wait", "dropHandle"} /\ Scripts[a] = << >>
         \/ a = "enter" /\ Two(Scripts[a], "focus", "insertText")
         \/ a = "pressKey" /\ Two(Scripts[a], "keyDown", "keyUp")
         \/ a = "eval" /\ One(Scripts[a], "script")
         \/ a = "evaluate" /\ One(Scripts[a], "evaluate")
         \/ a = "getMetrics" /\ One(Scripts[a], "command")
         \/ /\ a = "screenshot" /\ Len(Scripts[a]) = 3
            /\ Scripts[a][1] = "measure" /\ Scripts[a][2] = "setViewport"
            /\ Scripts[a][3] = "capture"
         \/ a = "setViewport" /\ One(Scripts[a], "setViewport")
         \/ a = "waitFor" /\ One(Scripts[a], "look")
         \/ a = "setContent" /\ Two(Scripts[a], "getFrameTree", "setDocumentContent")
         \/ a = "query" /\ Two(Scripts[a], "getDocument", "querySelector")
         \/ a = "intercept" /\ Two(Scripts[a], "enableFetch", "enableFetchPatterns")
         \/ a = "attach" /\ One(Scripts[a], "attachToTarget")
         \/ a = "detach" /\ One(Scripts[a], "detachFromTarget")
BY DEF Actions, Scripts, One, Two

LEMMA ScriptTypes ==
  ASSUME NEW a \in Actions
  PROVE  Len(Scripts[a]) \in Nat /\ \A s \in 1 .. Len(Scripts[a]) : Scripts[a][s] \in Kinds
<1>1. Len(Scripts[a]) \in Nat
  BY ScriptCases DEF One, Two
<1> QED
  BY <1>1 DEF Kinds

\* Where each command occurs.
LEMMA Places ==
  ASSUME NEW a \in Actions, NEW s \in 1 .. Len(Scripts[a])
  PROVE  /\ Scripts[a][s] = "look" => a = "waitFor" /\ s = 1
         /\ Scripts[a][s] = "mousePressed" => a = "clickAt" /\ s = 1
         /\ Scripts[a][s] = "mouseReleased" => a = "clickAt" /\ s = 2
         /\ Scripts[a][s] = "keyDown" => a = "pressKey" /\ s = 1
         /\ Scripts[a][s] = "keyUp" => a = "pressKey" /\ s = 2
         /\ Scripts[a][s] = "enableFetch" => a = "intercept" /\ s = 1
         /\ Scripts[a][s] = "enableFetchPatterns" => a = "intercept" /\ s = 2
         /\ Scripts[a][s] = "attachToTarget" => a = "attach" /\ s = 1
         /\ Scripts[a][s] = "detachFromTarget" => a = "detach" /\ s = 1
BY ScriptCases, SMTT(60) DEF One, Two

LEMMA ScreenshotPlaces ==
  ASSUME NEW a \in Actions, NEW s \in 1 .. Len(Scripts[a])
  PROVE  /\ Scripts[a][s] = "measure" => a = "screenshot" /\ s = 1
         /\ Scripts[a][s] = "capture" => a = "screenshot" /\ s = 3
         /\ Scripts[a][s] = "focus" => a = "enter" /\ s = 1
         /\ Scripts[a][s] = "insertText" => a = "enter" /\ s = 2
BY ScriptCases, SMTT(60) DEF One, Two

\* The scripts the properties are about.
LEMMA ScriptsAre ==
  /\ One(Scripts["waitFor"], "look")
  /\ Two(Scripts["clickAt"], "mousePressed", "mouseReleased")
  /\ Two(Scripts["pressKey"], "keyDown", "keyUp")
  /\ Two(Scripts["intercept"], "enableFetch", "enableFetchPatterns")
  /\ Two(Scripts["enter"], "focus", "insertText")
  /\ One(Scripts["attach"], "attachToTarget")
  /\ One(Scripts["detach"], "detachFromTarget")
  /\ Scripts["wait"] = << >> /\ Scripts["clickNothing"] = << >> /\ Scripts["dropHandle"] = << >>
BY DEF Scripts, One, Two

LEMMA ScreenshotScript ==
  /\ Len(Scripts["screenshot"]) = 3 /\ Scripts["screenshot"][1] = "measure"
  /\ Scripts["screenshot"][2] = "setViewport" /\ Scripts["screenshot"][3] = "capture"
BY DEF Scripts

-----------------------------------------------------------------------------
(* The invariant of the commands, caller by caller and message by message. *)

Rows(c) ==
    /\ Len(results[c]) + 1 = call[c].at
    /\ Len(ran[c]) = IF Running(c) THEN call[c].at ELSE call[c].at - 1
    /\ call[c].at <= IF Running(c) THEN Len(batch[c]) ELSE Len(batch[c]) + 1

Advance(c) ==
    /\ reply[c] # NoReply => call[c].pc = "awaiting"
    /\ ~Running(c) => call[c].step = 1
    /\ Running(c) =>
          /\ call[c].pc = "sleeping" => Action(c) \in {"wait", "waitFor"}
          /\ Action(c) = "wait" => call[c].pc = "sleeping" /\ ran[c][call[c].at] = << >>
          /\ Action(c) # "wait" => call[c].step \in 1 .. Len(Scripts[Action(c)])
          /\ reply[c].what \in {"done", "threw"} => Len(ran[c][call[c].at]) = call[c].step
          /\ call[c].pc = "sending" /\ Action(c) # "waitFor" =>
                Len(ran[c][call[c].at]) + 1 = call[c].step

RowOK(c, i) ==
    /\ batch[c][i] = "waitFor" => Len(ran[c][i]) <= 1
    /\ ran[c][i] = [s \in 1 .. Len(ran[c][i]) |-> s]
    /\ i <= Len(results[c]) /\ results[c][i] = "ok" =>
           Len(ran[c][i]) = Len(Scripts[batch[c][i]])

CallerOK(c) == Rows(c) /\ Advance(c) /\ \A i \in 1 .. Len(ran[c]) : RowOK(c, i)

MessageOK(m) ==
    /\ m.action \in 1 .. Len(ran[m.by])
    /\ m.step \in 1 .. Len(Scripts[batch[m.by][m.action]])
    /\ m.kind = Scripts[batch[m.by][m.action]][m.step]
    /\ m.kind # "look" => Len(ran[m.by][m.action]) + 1 = m.step
    /\ IsCurrent(m) => /\ Awaited(m) /\ reply[m.by] = NoReply
                       /\ m.argument = Argument(m.by)
    /\ ~IsCurrent(m) => m.action <= Len(results[m.by]) /\ results[m.by][m.action] # "ok"

OneEach == \A m, n \in wire : m.by = n.by /\ m.action = n.action => m = n

LEMMA Parts ==
  ASSUME CoreInv
  PROVE  TypeOK /\ OneEach /\ (\A c \in Callers : CallerOK(c)) /\ (\A m \in wire : MessageOK(m))
<1>1. \A c \in Callers : Rows(c) /\ Advance(c)
  BY DEF CoreInv, RowsAndResults, ActionsAdvance, Rows, Advance
<1>2. \A c \in Callers : \A i \in 1 .. Len(ran[c]) : RowOK(c, i)
  BY DEF CoreInv, PollsCountOnce, SuccessMeansItWasDone, RowOK
<1>3. OneEach /\ \A m \in wire : MessageOK(m)
  BY DEF CoreInv, CommandsAreNext, OneEach, MessageOK
<1> QED
  BY <1>1, <1>2, <1>3 DEF CoreInv, CallerOK

LEMMA Whole ==
  ASSUME TypeOK', OneEach', \A c \in Callers : CallerOK(c)', \A m \in wire' : MessageOK(m)'
  PROVE  CoreInv'
<1>1. RowsAndResults' /\ ActionsAdvance'
  BY DEF CallerOK, RowsAndResults, ActionsAdvance, Rows, Advance
<1>2. PollsCountOnce' /\ SuccessMeansItWasDone'
  BY DEF CallerOK, PollsCountOnce, SuccessMeansItWasDone, RowOK
<1>3. CommandsAreNext'
  BY DEF CommandsAreNext, OneEach, MessageOK
<1> QED
  BY <1>1, <1>2, <1>3 DEF CoreInv

\* What a caller has is not touched by the steps of another.
Stays(d) == /\ call'[d] = call[d] /\ results'[d] = results[d]
            /\ reply'[d] = reply[d] /\ ran'[d] = ran[d]

LEMMA CallerStays ==
  ASSUME NEW d \in Callers, CallerOK(d), batch' = batch, Stays(d)
  PROVE  CallerOK(d)'
<1>1. Rows(d)' /\ Advance(d)'
  BY DEF CallerOK, Stays, Rows, Advance, Running, Action
<1>2. \A i \in 1 .. Len(ran[d]) : RowOK(d, i)'
  BY DEF CallerOK, Stays, RowOK
<1> QED
  BY <1>1, <1>2 DEF CallerOK, Stays

LEMMA MessageStays ==
  ASSUME NEW m, MessageOK(m), batch' = batch, Stays(m.by)
  PROVE  MessageOK(m)'
BY DEF MessageOK, Stays, IsCurrent, Awaited, Argument, Running, Action, Step

\* The commands of an action that is over, or that has no command on the wire.
LEMMA CurrentMessages ==
  ASSUME CoreInv, NEW m \in wire
  PROVE  /\ m.by \in Callers /\ m.action \in Nat /\ m.step \in Nat /\ m.argument \in Nat
         /\ IsCurrent(m) => /\ call[m.by].pc = "awaiting" /\ reply[m.by] = NoReply
                            /\ call[m.by].step = m.step /\ call[m.by].at = m.action
BY Parts DEF TypeOK, Message, MessageOK, Awaited, IsCurrent

\* The action a caller is at.
LEMMA CurrentAction ==
  ASSUME CoreInv, NEW c \in Callers, Running(c) \/ ~Done(c)
  PROVE  /\ call[c].at \in 1 .. Len(batch[c]) /\ call[c].at \in Nat /\ call[c].step \in Nat
         /\ Action(c) \in Actions
         /\ Len(results[c]) \in Nat /\ Len(results[c]) + 1 = call[c].at
         /\ Len(ran[c]) \in Nat /\ Len(batch[c]) \in Nat
         /\ Running(c) => Len(ran[c]) = call[c].at
         /\ ~Running(c) => Len(ran[c]) + 1 = call[c].at
<1>1. /\ batch[c] \in Seq(Actions) /\ call[c] \in CallState /\ ran[c] \in Seq(Seq(Nat))
      /\ results[c] \in Seq({"ok", "error", "deadline", "dropped"}) /\ Rows(c)
  BY Parts DEF TypeOK, CallerOK
<1>2. call[c].at \in Nat /\ call[c].step \in Nat
  BY <1>1 DEF CallState
<1>3. Len(results[c]) \in Nat /\ Len(ran[c]) \in Nat /\ Len(batch[c]) \in Nat
  BY <1>1
<1>4. call[c].at \in 1 .. Len(batch[c])
  BY <1>1, <1>2, <1>3 DEF Rows, Done
<1> QED
  BY <1>1, <1>2, <1>3, <1>4 DEF Rows, Action

LEMMA Types ==
  ASSUME CoreInv, NEW c \in Callers
  PROVE  /\ batch[c] \in Seq(Actions) /\ call[c] \in CallState /\ handles[c] \in SUBSET Nat
         /\ results[c] \in Seq({"ok", "error", "deadline", "dropped"}) /\ reply[c] \in ReplyState
         /\ ran[c] \in Seq(Seq(Nat)) /\ view[c] \in ViewState /\ page \in PageState
BY Parts DEF TypeOK

-----------------------------------------------------------------------------
(* A caller ends an action.                                                *)

LEMMA FinishEffect ==
  ASSUME CoreInv, NEW c \in Callers, Running(c) \/ ~Done(c),
         NEW r \in {"ok", "error", "deadline", "dropped"}, Finish(c, r)
  PROVE  /\ call' \in [Callers -> CallState]
         /\ call'[c].pc = "ready" /\ call'[c].at = call[c].at + 1 /\ call'[c].step = 1
         /\ results' \in [Callers -> Seq({"ok", "error", "deadline", "dropped"})]
         /\ results'[c] = Append(results[c], r)
         /\ \A d \in Callers \ {c} : call'[d] = call[d] /\ results'[d] = results[d]
<1>1. call \in [Callers -> CallState] /\ results \in [Callers -> Seq({"ok", "error", "deadline", "dropped"})]
  BY Parts DEF TypeOK
<1>2. call[c].at + 1 \in Nat
  BY CurrentAction
<1>3. [Idle EXCEPT !.at = call[c].at + 1] \in CallState
  BY <1>2 DEF Idle, CallState
<1>4. Append(results[c], r) \in Seq({"ok", "error", "deadline", "dropped"})
  BY <1>1
<1>5. call' = [call EXCEPT ![c] = [Idle EXCEPT !.at = call[c].at + 1]]
      /\ results' = [results EXCEPT ![c] = Append(results[c], r)]
  BY DEF Finish
<1>6. call'[c] = [Idle EXCEPT !.at = call[c].at + 1]
  BY <1>1, <1>5
<1>7. call'[c].pc = "ready" /\ call'[c].at = call[c].at + 1 /\ call'[c].step = 1
  BY <1>6 DEF Idle
<1> QED
  BY <1>1, <1>3, <1>4, <1>5, <1>7

\* Its messages remain, those of the action that failed among them.
LEMMA FinishedMessages ==
  ASSUME CoreInv, NEW c \in Callers, NEW r \in {"ok", "error", "deadline", "dropped"},
         Running(c), Finish(c, r), batch' = batch, ran' = ran,
         NEW m \in wire, m.by = c, r = "ok" => ~IsCurrent(m)
  PROVE  MessageOK(m)'
<1>1. MessageOK(m) /\ m.action \in Nat
  BY Parts, CurrentMessages
<1>2. /\ call[c].at \in Nat /\ Len(results[c]) \in Nat /\ Len(results[c]) + 1 = call[c].at
      /\ results[c] \in Seq({"ok", "error", "deadline", "dropped"})
      /\ results'[c] = Append(results[c], r) /\ call'[c].pc = "ready"
  BY CurrentAction, FinishEffect, Types
<1>3. ~IsCurrent(m)'
  BY <1>2 DEF IsCurrent, Running
<1>4. m.action <= Len(results'[c]) /\ results'[c][m.action] # "ok"
  <2>1. CASE IsCurrent(m)
    BY <1>1, <1>2, <2>1 DEF IsCurrent
  <2>2. CASE ~IsCurrent(m)
    BY <1>1, <1>2, <2>2 DEF MessageOK
  <2> QED
    BY <2>1, <2>2
<1> QED
  BY <1>1, <1>3, <1>4 DEF MessageOK

LEMMA FinishedCaller ==
  ASSUME CoreInv, NEW c \in Callers, NEW r \in {"ok", "error", "deadline", "dropped"},
         Running(c), Finish(c, r), batch' = batch, ran' = ran, reply'[c] = NoReply,
         r = "ok" => Len(ran[c][call[c].at]) = Len(Scripts[Action(c)])
  PROVE  CallerOK(c)'
<1>1. /\ call[c].at \in 1 .. Len(batch[c]) /\ call[c].at \in Nat /\ Len(results[c]) \in Nat
      /\ Len(results[c]) + 1 = call[c].at /\ Len(ran[c]) = call[c].at /\ Len(batch[c]) \in Nat
      /\ results[c] \in Seq({"ok", "error", "deadline", "dropped"})
      /\ results'[c] = Append(results[c], r)
      /\ call'[c].pc = "ready" /\ call'[c].at = call[c].at + 1 /\ call'[c].step = 1
  BY CurrentAction, FinishEffect, Types
<1>2. Rows(c)'
  BY <1>1 DEF Rows, Running
<1>3. Advance(c)'
  BY <1>1 DEF Advance, Running
<1>4. ASSUME NEW i \in 1 .. Len(ran[c])
      PROVE  RowOK(c, i)'
  <2>1. RowOK(c, i)
    BY Parts DEF CallerOK
  <2>2. CASE i <= Len(results[c])
    BY <1>1, <2>1, <2>2 DEF RowOK
  <2>3. CASE i = call[c].at
    BY <1>1, <2>1, <2>3 DEF RowOK, Action
  <2> QED
    BY <1>1, <2>2, <2>3
<1> QED
  BY <1>2, <1>3, <1>4 DEF CallerOK

LEMMA FinishCore ==
  ASSUME CoreInv, NEW c \in Callers, NEW r \in {"ok", "error", "deadline", "dropped"},
         Running(c), Finish(c, r), UNCHANGED <<batch, wire, browser>>,
         handles' \in [Callers -> SUBSET Nat], reply' = [reply EXCEPT ![c] = NoReply],
         r = "ok" => /\ Len(ran[c][call[c].at]) = Len(Scripts[Action(c)])
                     /\ \A m \in wire : m.by = c => ~IsCurrent(m)
  PROVE  CoreInv'
<1>1. TypeOK /\ OneEach
  BY Parts
<1>2. /\ reply' \in [Callers -> ReplyState] /\ reply'[c] = NoReply
      /\ \A d \in Callers \ {c} : reply'[d] = reply[d]
  BY <1>1 DEF TypeOK, ReplyState
<1>3. TypeOK'
  BY <1>1, <1>2, FinishEffect DEF TypeOK
<1>4. \A d \in Callers \ {c} : Stays(d)
  BY <1>2, FinishEffect DEF Stays
<1>5. \A d \in Callers : CallerOK(d)'
  BY <1>2, <1>4, Parts, FinishedCaller, CallerStays
<1>6. \A m \in wire : MessageOK(m)'
  <2> TAKE m \in wire
  <2>1. CASE m.by = c
    BY <2>1, FinishedMessages
  <2>2. CASE m.by # c
    BY <2>2, <1>4, Parts, CurrentMessages, MessageStays
  <2> QED
    BY <2>1, <2>2
<1>7. OneEach'
  BY <1>1 DEF OneEach
<1> QED
  BY <1>3, <1>5, <1>6, <1>7, Whole

-----------------------------------------------------------------------------
(* A caller begins an action, or skips one it has no session for.          *)

LEMMA BegunMessages ==
  ASSUME CoreInv, NEW c \in Callers, ~Running(c), ~Done(c), batch' = batch,
         ran' = [ran EXCEPT ![c] = Append(@, << >>)],
         results'[c] \in {results[c], Append(results[c], "error"), Append(results[c], "dropped")},
         call'[c].pc = "ready" \/ call'[c].at = call[c].at,
         NEW m \in wire, m.by = c
  PROVE  MessageOK(m)'
<1>1. MessageOK(m) /\ m.action \in Nat /\ ~IsCurrent(m)
  BY Parts, CurrentMessages DEF IsCurrent
<1>2. /\ call[c].at \in Nat /\ Len(results[c]) \in Nat /\ Len(results[c]) + 1 = call[c].at
      /\ Len(ran[c]) + 1 = call[c].at /\ results[c] \in Seq({"ok", "error", "deadline", "dropped"})
      /\ ran[c] \in Seq(Seq(Nat)) /\ ran'[c] = Append(ran[c], << >>)
  BY CurrentAction, Types, Parts DEF TypeOK
<1>3. m.action \in 1 .. Len(ran'[c]) /\ ran'[c][m.action] = ran[c][m.action]
  BY <1>1, <1>2 DEF MessageOK
<1>4. m.action <= Len(results[c]) /\ results[c][m.action] # "ok"
  BY <1>1 DEF MessageOK
<1>5. ~IsCurrent(m)'
  BY <1>2, <1>4 DEF IsCurrent, Running
<1>6. m.action <= Len(results'[c]) /\ results'[c][m.action] # "ok"
  <2>1. m.action \in 1 .. Len(results[c])
    BY <1>1, <1>2, <1>3, <1>4
  <2>2. CASE results'[c] = results[c]
    BY <1>4, <2>2
  <2>3. CASE results'[c] \in {Append(results[c], "error"), Append(results[c], "dropped")}
    <3>1. /\ Len(results'[c]) = Len(results[c]) + 1
          /\ results'[c][m.action] = results[c][m.action]
      BY <1>2, <2>1, <2>3
    <3> QED
      BY <1>2, <1>4, <2>1, <3>1
  <2> QED
    BY <2>2, <2>3
<1> QED
  BY <1>1, <1>3, <1>5, <1>6 DEF MessageOK

LEMMA BegunRows ==
  ASSUME CoreInv, NEW c \in Callers, ~Running(c), ~Done(c), batch' = batch,
         ran' = [ran EXCEPT ![c] = Append(@, << >>)],
         results'[c] \in {results[c], Append(results[c], "error"), Append(results[c], "dropped")}
  PROVE  /\ ran' \in [Callers -> Seq(Seq(Nat))]
         /\ Len(ran'[c]) = call[c].at /\ ran'[c][call[c].at] = << >>
         /\ \A i \in 1 .. Len(ran'[c]) : RowOK(c, i)'
<1>1. /\ call[c].at \in Nat /\ Len(results[c]) \in Nat /\ Len(results[c]) + 1 = call[c].at
      /\ Len(ran[c]) + 1 = call[c].at /\ results[c] \in Seq({"ok", "error", "deadline", "dropped"})
      /\ Len(ran[c]) \in Nat /\ ran \in [Callers -> Seq(Seq(Nat))] /\ ran[c] \in Seq(Seq(Nat))
  BY CurrentAction, Types, Parts DEF TypeOK
<1>2. << >> \in Seq(Nat)
  OBVIOUS
<1>3. Append(ran[c], << >>) \in Seq(Seq(Nat))
  BY <1>1, <1>2
<1>4. ran' \in [Callers -> Seq(Seq(Nat))] /\ ran'[c] = Append(ran[c], << >>)
  BY <1>1, <1>3
<1>5. Len(ran'[c]) = call[c].at /\ ran'[c][call[c].at] = << >>
  BY <1>1, <1>2, <1>4
<1>6. ASSUME NEW i \in 1 .. Len(ran'[c])
      PROVE  RowOK(c, i)'
  <2>1. CASE i \in 1 .. Len(ran[c])
    <3>1. RowOK(c, i)
      BY <2>1, Parts DEF CallerOK
    <3>2. ran'[c][i] = ran[c][i]
      BY <1>1, <1>2, <1>4, <2>1
    <3>3. i \in Nat /\ 1 <= i /\ i <= Len(results[c])
      BY <1>1, <2>1
    <3>4. CASE results'[c] = results[c]
      BY <3>1, <3>2, <3>4 DEF RowOK
    <3>5. CASE results'[c] \in {Append(results[c], "error"), Append(results[c], "dropped")}
      <4>1. PICK r \in {"ok", "error", "deadline", "dropped"} : results'[c] = Append(results[c], r)
        BY <3>5
      <4>2. results'[c][i] = results[c][i]
        BY <1>1, <3>3, <4>1
      <4> QED
        BY <3>1, <3>2, <3>3, <4>2 DEF RowOK
    <3> QED
      BY <3>4, <3>5
  <2>2. CASE i = call[c].at
    <3>1. ran'[c][i] = << >> /\ Len(ran'[c][i]) = 0
      BY <1>5, <2>2
    <3>2. ~(i <= Len(results'[c]) /\ results'[c][i] = "ok")
      BY <1>1, <2>2
    <3>3. << >> = [s \in 1 .. 0 |-> s]
      OBVIOUS
    <3> QED
      BY <3>1, <3>2, <3>3 DEF RowOK
  <2> QED
    BY <1>1, <1>5, <2>1, <2>2
<1> QED
  BY <1>4, <1>5, <1>6

LEMMA NoReplyAwaited ==
  ASSUME CoreInv, NEW c \in Callers, call[c].pc # "awaiting"
  PROVE  reply[c] = NoReply
BY Parts DEF CallerOK, Advance

LEMMA NoReplyIsNone == NoReply.what = "none"
BY DEF NoReply

\* An action that is over at once.
LEMMA RejectCore ==
  ASSUME CoreInv, NEW c \in Callers, ~Running(c), ~Done(c),
         NEW r \in {"error", "dropped"}, Finish(c, r),
         ran' = [ran EXCEPT ![c] = Append(@, << >>)], view' \in [Callers -> ViewState],
         handles' \in [Callers -> SUBSET Nat],
         UNCHANGED <<batch, wire, reply, page, changes>>
  PROVE  CoreInv'
<1>1. TypeOK /\ OneEach
  BY Parts
<1>2. results'[c] = Append(results[c], r)
  BY FinishEffect
<1>3. ran' \in [Callers -> Seq(Seq(Nat))] /\ \A d \in Callers \ {c} : ran'[d] = ran[d]
  BY <1>1, <1>2, BegunRows DEF TypeOK
<1>4. TypeOK'
  BY <1>1, <1>3, FinishEffect DEF TypeOK
<1>5. \A d \in Callers \ {c} : Stays(d)
  BY <1>3, FinishEffect DEF Stays
<1>6. CallerOK(c)'
  <2>1. /\ Len(ran'[c]) = call[c].at /\ \A i \in 1 .. Len(ran'[c]) : RowOK(c, i)'
        /\ call'[c].pc = "ready" /\ call'[c].at = call[c].at + 1 /\ call'[c].step = 1
        /\ Len(results[c]) + 1 = call[c].at /\ Len(results[c]) \in Nat
        /\ call[c].at \in 1 .. Len(batch[c]) /\ Len(batch[c]) \in Nat
        /\ results[c] \in Seq({"ok", "error", "deadline", "dropped"})
    BY <1>2, BegunRows, FinishEffect, CurrentAction, Types
  <2>2. Len(results'[c]) = Len(results[c]) + 1
    <3>1. r \in {"ok", "error", "deadline", "dropped"}
      OBVIOUS
    <3> QED
      BY <1>2, <2>1, <3>1
  <2>3. Rows(c)'
    BY <2>1, <2>2 DEF Rows, Running
  <2>4. Advance(c)'
    BY <2>1, NoReplyAwaited DEF Advance, Running
  <2> QED
    BY <2>1, <2>3, <2>4 DEF CallerOK
<1>7. \A m \in wire : MessageOK(m)'
  <2> TAKE m \in wire
  <2>1. CASE m.by = c
    BY <1>2, <2>1, BegunMessages, FinishEffect
  <2>2. CASE m.by # c
    BY <2>2, <1>5, Parts, CurrentMessages, MessageStays
  <2> QED
    BY <2>1, <2>2
<1> QED
  BY <1>1, <1>4, <1>5, <1>6, <1>7, Parts, CallerStays, Whole DEF OneEach

\* An action whose first command is next, or which only sleeps.
LEMMA StartCore ==
  ASSUME CoreInv, NEW c \in Callers, ~Running(c), ~Done(c),
         NEW pc \in {"sending", "sleeping"}, NEW carry \in Nat,
         call' = [call EXCEPT ![c] = [call[c] EXCEPT !.pc = pc, !.carry = carry]],
         pc = "sleeping" => Action(c) = "wait",
         pc = "sending" => Scripts[Action(c)] # << >>,
         handles' \in [Callers -> SUBSET Nat],
         ran' = [ran EXCEPT ![c] = Append(@, << >>)], view' \in [Callers -> ViewState],
         UNCHANGED <<batch, results, wire, reply, page, changes>>
  PROVE  CoreInv'
<1>1. TypeOK /\ OneEach /\ call[c] \in CallState /\ Advance(c)
  BY Parts, Types DEF CallerOK
<1>2. [call[c] EXCEPT !.pc = pc, !.carry = carry] \in CallState
  BY <1>1 DEF CallState
<1>3. /\ call' \in [Callers -> CallState] /\ \A d \in Callers \ {c} : call'[d] = call[d]
      /\ call'[c] = [call[c] EXCEPT !.pc = pc, !.carry = carry]
  BY <1>1, <1>2 DEF TypeOK
<1>4. call'[c].pc = pc /\ call'[c].at = call[c].at /\ call'[c].step = 1
  BY <1>1, <1>3 DEF CallState, Advance
<1>5. ran' \in [Callers -> Seq(Seq(Nat))] /\ \A d \in Callers \ {c} : ran'[d] = ran[d]
  BY <1>1, BegunRows DEF TypeOK
<1>6. TypeOK'
  BY <1>1, <1>3, <1>5 DEF TypeOK
<1>7. \A d \in Callers \ {c} : Stays(d)
  BY <1>3, <1>5 DEF Stays
<1>8. CallerOK(c)'
  <2>1. /\ Len(ran'[c]) = call[c].at /\ ran'[c][call[c].at] = << >>
        /\ \A i \in 1 .. Len(ran'[c]) : RowOK(c, i)'
        /\ Len(results[c]) + 1 = call[c].at /\ Len(results[c]) \in Nat
        /\ call[c].at \in 1 .. Len(batch[c]) /\ Len(batch[c]) \in Nat /\ Action(c) \in Actions
        /\ reply[c] = NoReply
    BY BegunRows, CurrentAction, NoReplyAwaited DEF Running
  <2>2. Rows(c)'
    BY <1>4, <2>1 DEF Rows, Running
  <2>3. Action(c)' = Action(c) /\ Running(c)'
    BY <1>4 DEF Action, Running
  <2>4. Action(c) # "wait" => 1 \in 1 .. Len(Scripts[Action(c)])
    BY <2>1, ScriptCases DEF One, Two
  <2>5. Advance(c)'
    BY <1>4, <2>1, <2>3, <2>4, NoReplyIsNone, ScriptsAre DEF Advance
  <2> QED
    BY <2>1, <2>2, <2>5 DEF CallerOK
<1>9. \A m \in wire : MessageOK(m)'
  <2> TAKE m \in wire
  <2>1. CASE m.by = c
    BY <1>4, <2>1, BegunMessages
  <2>2. CASE m.by # c
    BY <2>2, <1>7, Parts, CurrentMessages, MessageStays
  <2> QED
    BY <2>1, <2>2
<1> QED
  BY <1>1, <1>6, <1>7, <1>8, <1>9, Parts, CallerStays, Whole DEF OneEach

LEMMA BeginCore ==
  ASSUME CoreInv, NEW c \in Callers, Begin(c)
  PROVE  CoreInv'
<1>1. TypeOK /\ call[c] \in CallState /\ call \in [Callers -> CallState] /\ page \in PageState
  BY Parts, Types DEF TypeOK
<1>2. view' \in [Callers -> ViewState]
  <2>1. [FreshView EXCEPT !.looked = {page.element}] \in ViewState
    BY <1>1 DEF FreshView, ViewState, PageState
  <2> QED
    BY <1>1, <2>1 DEF Begin, TypeOK
<1>3. ~Running(c) /\ ~Done(c) /\ Dispatch(c) /\ ran' = [ran EXCEPT ![c] = Append(@, << >>)]
      /\ UNCHANGED <<batch, wire, reply, page, changes>>
  BY DEF Begin
<1>4. CASE Action(c) = "clickNothing" /\ Finish(c, "error") /\ UNCHANGED handles
  <2>1. handles' \in [Callers -> SUBSET Nat]
    BY <1>1, <1>4 DEF TypeOK
  <2> QED
    BY <1>2, <1>3, <1>4, <2>1, RejectCore
<1>5. ASSUME NEW pc \in {"sending", "sleeping"}, GoTo(c, pc), UNCHANGED <<results, handles>>,
             pc = "sleeping" => Action(c) = "wait",
             pc = "sending" => Scripts[Action(c)] # << >>
      PROVE  CoreInv'
  <2>1. [call[c] EXCEPT !.pc = pc] = [call[c] EXCEPT !.pc = pc, !.carry = call[c].carry]
    BY <1>1 DEF CallState
  <2>2. call' = [call EXCEPT ![c] = [call[c] EXCEPT !.pc = pc, !.carry = call[c].carry]]
    BY <1>5, <2>1 DEF GoTo
  <2>3. call[c].carry \in Nat /\ handles' \in [Callers -> SUBSET Nat]
    BY <1>1, <1>5 DEF CallState, TypeOK
  <2> QED
    BY <1>2, <1>3, <1>5, <2>2, <2>3, StartCore
<1>6. ASSUME NEW s \in handles[c], Action(c) = "detach", UNCHANGED results,
             handles' = [handles EXCEPT ![c] = @ \ {s}],
             call' = [call EXCEPT ![c].pc = "sending", ![c].carry = s]
      PROVE  CoreInv'
  <2>1. s \in Nat /\ handles' \in [Callers -> SUBSET Nat]
    BY <1>1, <1>6 DEF TypeOK
  <2>2. call' = [call EXCEPT ![c] = [call[c] EXCEPT !.pc = "sending", !.carry = s]]
    BY <1>1, <1>6
  <2>3. Scripts[Action(c)] # << >>
    BY <1>6, ScriptsAre DEF One
  <2> QED
    BY <1>2, <1>3, <1>6, <2>1, <2>2, <2>3, StartCore
<1>7. ASSUME NEW s \in handles[c], handles' = [handles EXCEPT ![c] = @ \ {s}],
             Finish(c, "dropped")
      PROVE  CoreInv'
  <2>1. handles' \in [Callers -> SUBSET Nat]
    BY <1>1, <1>7 DEF TypeOK
  <2> QED
    BY <1>2, <1>3, <1>7, <2>1, RejectCore
<1> QED
  BY <1>3, <1>4, <1>5, <1>6, <1>7 DEF Dispatch

LEMMA SkipCore ==
  ASSUME CoreInv, NEW c \in Callers, Skip(c)
  PROVE  CoreInv'
<1>1. FreshView \in ViewState
  BY DEF FreshView, ViewState
<1>2. view' \in [Callers -> ViewState]
  BY <1>1, Parts DEF Skip, TypeOK
<1>3. handles' \in [Callers -> SUBSET Nat]
  BY Parts DEF Skip, TypeOK
<1> QED
  BY <1>2, <1>3, RejectCore DEF Skip

-----------------------------------------------------------------------------
(* A caller sends.                                                         *)

LEMMA MaxType ==
  ASSUME NEW a \in Nat, NEW b \in Nat
  PROVE  Max({a, b}) \in Nat /\ Max({a, b}) >= a /\ Max({a, b}) >= b
<1>1. \E x \in {a, b} : \A y \in {a, b} : x >= y
  BY a >= b \/ b >= a
<1>2. Max({a, b}) \in {a, b} /\ \A y \in {a, b} : Max({a, b}) >= y
  BY <1>1 DEF Max
<1> QED
  BY <1>2

LEMMA ArgumentType ==
  ASSUME CoreInv, NEW c \in Callers
  PROVE  Argument(c) \in Nat
<1>1. call[c].carry \in Nat /\ FallbackViewport \in Nat
  BY Types DEF CallState, FallbackViewport, Small
<1> QED
  BY <1>1, MaxType DEF Argument

\* The command an action under way is at.
LEMMA CurrentStep ==
  ASSUME CoreInv, NEW c \in Callers, Running(c), call[c].pc # "sleeping"
  PROVE  /\ Action(c) \in Actions /\ call[c].step \in 1 .. Len(Scripts[Action(c)])
         /\ Step(c) = Scripts[Action(c)][call[c].step] /\ Step(c) \in Kinds
         /\ Step(c) = "look" <=> Action(c) = "waitFor"
<1>1. Action(c) \in Actions /\ Action(c) # "wait" /\ call[c].step \in 1 .. Len(Scripts[Action(c)])
  BY CurrentAction, Parts DEF CallerOK, Advance
<1>2. Step(c) = Scripts[Action(c)][call[c].step]
  BY DEF Step
<1>3. Action(c) = "waitFor" => Step(c) = "look"
  BY <1>1, <1>2, ScriptsAre DEF One
<1>4. Step(c) = "look" => Action(c) = "waitFor"
  BY <1>1, <1>2, Places
<1> QED
  BY <1>1, <1>2, <1>3, <1>4, ScriptTypes

LEMMA SendCore ==
  ASSUME CoreInv, NEW c \in Callers, Send(c)
  PROVE  CoreInv'
<1>0. PICK new : new = [by |-> c, action |-> call[c].at, step |-> call[c].step,
                        kind |-> Step(c), argument |-> Argument(c)]
  OBVIOUS
<1>1. /\ call[c].pc = "sending" /\ wire' = wire \cup {new} /\ GoTo(c, "awaiting")
      /\ UNCHANGED <<batch, results, handles, reply, browser>>
  BY <1>0 DEF Send
<1>2. TypeOK /\ OneEach /\ call[c] \in CallState /\ Running(c) /\ CallerOK(c)
  BY <1>1, Parts, Types DEF Running
<1>3. /\ call' \in [Callers -> CallState] /\ \A d \in Callers \ {c} : call'[d] = call[d]
      /\ call'[c] = [call[c] EXCEPT !.pc = "awaiting"]
  BY <1>1, <1>2 DEF GoTo, TypeOK, CallState
<1>4. /\ call'[c].pc = "awaiting" /\ call'[c].at = call[c].at /\ call'[c].step = call[c].step
      /\ call'[c].carry = call[c].carry
  BY <1>2, <1>3 DEF CallState
<1>5. /\ call[c].at \in Nat /\ call[c].at \in 1 .. Len(ran[c]) /\ call[c].step \in Nat
      /\ Len(ran[c]) \in Nat /\ Len(results[c]) + 1 = call[c].at /\ Len(results[c]) \in Nat
      /\ reply[c] = NoReply
  BY <1>1, <1>2, CurrentAction, NoReplyAwaited
<1>6. /\ Action(c) \in Actions /\ call[c].step \in 1 .. Len(Scripts[Action(c)])
      /\ Step(c) \in Kinds /\ (Step(c) = "look" <=> Action(c) = "waitFor")
      /\ Step(c) = Scripts[Action(c)][call[c].step]
  BY <1>1, <1>2, CurrentStep
<1>7. Action(c)' = Action(c) /\ Running(c)' /\ Step(c)' = Step(c) /\ Argument(c)' = Argument(c)
  BY <1>1, <1>4 DEF Action, Running, Step, Argument
<1>8. TypeOK'
  <2>1. new \in Message
    BY <1>0, <1>5, <1>6, ArgumentType DEF Message
  <2> QED
    BY <1>1, <1>2, <1>3, <2>1 DEF TypeOK
<1>9. CallerOK(c)'
  <2>1. Rows(c)'
    BY <1>1, <1>2, <1>4, <1>7 DEF CallerOK, Rows
  <2>2. Advance(c)'
    BY <1>1, <1>2, <1>4, <1>5, <1>7, NoReplyIsNone DEF CallerOK, Advance
  <2>3. \A i \in 1 .. Len(ran'[c]) : RowOK(c, i)'
    BY <1>1, <1>2 DEF CallerOK, RowOK
  <2> QED
    BY <2>1, <2>2, <2>3 DEF CallerOK
<1>10. \A d \in Callers \ {c} : Stays(d)
  BY <1>1, <1>3 DEF Stays
<1>11. \A m \in wire : MessageOK(m)' /\ (m.by = c => m.action # call[c].at)
  <2> TAKE m \in wire
  <2>1. CASE m.by = c
    <3>1. MessageOK(m) /\ ~IsCurrent(m) /\ m.action \in Nat
      BY <1>1, Parts, CurrentMessages, <2>1
    <3>2. ~IsCurrent(m)'
      BY <1>2, <1>4, <2>1, <3>1 DEF IsCurrent
    <3>3. m.action <= Len(results[c])
      BY <2>1, <3>1 DEF MessageOK
    <3> QED
      BY <1>1, <1>5, <2>1, <3>1, <3>2, <3>3 DEF MessageOK
  <2>2. CASE m.by # c
    BY <1>1, <2>2, <1>10, Parts, CurrentMessages, MessageStays
  <2> QED
    BY <2>1, <2>2
<1>12. MessageOK(new)'
  <2>1. /\ new.by = c /\ new.action = call[c].at /\ new.step = call[c].step
        /\ new.kind = Step(c) /\ new.argument = Argument(c)
    BY <1>0
  <2>2. IsCurrent(new)' /\ Awaited(new)'
    BY <1>4, <1>7, <2>1 DEF IsCurrent, Awaited
  <2>3. new.kind # "look" => Len(ran[c][call[c].at]) + 1 = call[c].step
    BY <1>1, <1>2, <1>6, <2>1 DEF CallerOK, Advance
  <2>4. new.argument = Argument(new.by)'
    BY <1>7, <2>1
  <2> QED
    BY <1>1, <1>5, <1>6, <2>1, <2>2, <2>3, <2>4 DEF MessageOK, Action
<1>13. OneEach'
  <2>1. new.by = c /\ new.action = call[c].at
    BY <1>0
  <2> QED
    BY <1>1, <1>2, <1>11, <2>1 DEF OneEach
<1> QED
  BY <1>1, <1>8, <1>9, <1>10, <1>11, <1>12, <1>13, Parts, CallerStays, Whole

-----------------------------------------------------------------------------
(* A caller hears, goes on, sleeps and gives up.                           *)

\* Where an action goes on, with no command of its own on the wire.
LEMMA MoveCore ==
  ASSUME CoreInv, NEW c \in Callers, Running(c), NEW new \in CallState,
         call' = [call EXCEPT ![c] = new],
         new.at = call[c].at, new.pc \in {"sending", "sleeping"}, Action(c) # "wait",
         new.pc = "sleeping" => Action(c) = "waitFor",
         new.step \in 1 .. Len(Scripts[Action(c)]),
         Action(c) # "waitFor" => Len(ran[c][call[c].at]) + 1 = new.step,
         \A m \in wire : m.by = c => ~IsCurrent(m),
         reply' = [reply EXCEPT ![c] = NoReply],
         UNCHANGED <<batch, results, handles, wire, browser>>
  PROVE  CoreInv'
<1>1. TypeOK /\ OneEach /\ CallerOK(c)
  BY Parts
<1>2. /\ call' \in [Callers -> CallState] /\ call'[c] = new
      /\ reply' \in [Callers -> ReplyState] /\ reply'[c] = NoReply
      /\ \A d \in Callers \ {c} : call'[d] = call[d] /\ reply'[d] = reply[d]
  BY <1>1 DEF TypeOK, ReplyState
<1>3. TypeOK'
  BY <1>1, <1>2 DEF TypeOK
<1>4. \A d \in Callers \ {c} : Stays(d)
  BY <1>2 DEF Stays
<1>5. Action(c)' = Action(c) /\ Running(c)'
  BY <1>2 DEF Action, Running
<1>6. CallerOK(c)'
  <2>1. Rows(c)'
    BY <1>1, <1>2, <1>5 DEF CallerOK, Rows
  <2>2. Advance(c)'
    BY <1>1, <1>2, <1>5, NoReplyIsNone DEF CallerOK, Advance
  <2>3. \A i \in 1 .. Len(ran'[c]) : RowOK(c, i)'
    BY <1>1 DEF CallerOK, RowOK
  <2> QED
    BY <2>1, <2>2, <2>3 DEF CallerOK
<1>7. \A m \in wire : MessageOK(m)'
  <2> TAKE m \in wire
  <2>1. CASE m.by = c
    <3>1. MessageOK(m) /\ ~IsCurrent(m)
      BY <2>1, Parts
    <3>2. ~IsCurrent(m)'
      BY <1>2, <2>1, <3>1 DEF IsCurrent, Running
    <3> QED
      BY <2>1, <3>1, <3>2 DEF MessageOK
  <2>2. CASE m.by # c
    BY <2>2, <1>4, Parts, CurrentMessages, MessageStays
  <2> QED
    BY <2>1, <2>2
<1> QED
  BY <1>1, <1>3, <1>4, <1>6, <1>7, Parts, CallerStays, Whole DEF OneEach

\* The answer a caller has, and what has been carried out by then.
LEMMA Answered ==
  ASSUME CoreInv, NEW c \in Callers, call[c].pc = "awaiting", reply[c] # NoReply
  PROVE  /\ Running(c) /\ reply[c].value \in Nat
         /\ \A m \in wire : m.by = c => ~IsCurrent(m)
         /\ Answers(c) => Len(ran[c][call[c].at]) = call[c].step
<1>1. reply[c].value \in Nat /\ Advance(c) /\ Running(c)
  BY Types, Parts DEF ReplyState, CallerOK, Running
<1>2. \A m \in wire : m.by = c => ~IsCurrent(m)
  BY CurrentMessages
<1>3. Answers(c) => Len(ran[c][call[c].at]) = call[c].step
  BY <1>1 DEF Answers, Advance
<1> QED
  BY <1>1, <1>2, <1>3

LEMMA LookCore ==
  ASSUME CoreInv, NEW c \in Callers, Resume(c), Answers(c), Look(c)
  PROVE  CoreInv'
<1>1. /\ call[c].pc = "awaiting" /\ reply[c] # NoReply /\ UNCHANGED <<batch, wire, browser>>
      /\ reply' = [reply EXCEPT ![c] = NoReply] /\ Step(c) = "look" /\ UNCHANGED handles
  BY DEF Resume, Look
<1>2. /\ Running(c) /\ Len(ran[c][call[c].at]) = call[c].step
      /\ \A m \in wire : m.by = c => ~IsCurrent(m)
  BY <1>1, Answered
<1>3. /\ Action(c) = "waitFor" /\ call[c].step \in 1 .. Len(Scripts[Action(c)])
      /\ call[c].step = 1 /\ Len(Scripts[Action(c)]) = 1
  <2>1. Action(c) = "waitFor" /\ call[c].step \in 1 .. Len(Scripts[Action(c)])
    BY <1>1, <1>2, CurrentStep
  <2> QED
    BY <2>1, ScriptsAre DEF One
<1>4. TypeOK /\ call[c] \in CallState
  BY Parts, Types
<1>5. handles' \in [Callers -> SUBSET Nat]
  BY <1>1, <1>4 DEF TypeOK
<1>6. ASSUME NEW r \in {"ok", "deadline"}, Finish(c, r)
      PROVE  CoreInv'
  BY <1>1, <1>2, <1>3, <1>5, <1>6, FinishCore
<1>7. CASE GoTo(c, "sleeping") /\ UNCHANGED results
  <2>1. PICK new : new = [call[c] EXCEPT !.pc = "sleeping"]
    OBVIOUS
  <2>2. new \in CallState /\ new.at = call[c].at /\ new.pc = "sleeping" /\ new.step = call[c].step
    BY <1>4, <2>1 DEF CallState
  <2>3. call' = [call EXCEPT ![c] = new]
    BY <1>7, <2>1 DEF GoTo
  <2> QED
    BY <1>1, <1>2, <1>3, <1>7, <2>2, <2>3, MoveCore
<1> QED
  BY <1>6, <1>7 DEF Look

LEMMA ProceedCore ==
  ASSUME CoreInv, NEW c \in Callers, Resume(c), Answers(c), Proceed(c)
  PROVE  CoreInv'
<1>1. /\ call[c].pc = "awaiting" /\ reply[c] # NoReply /\ UNCHANGED <<batch, wire, browser>>
      /\ reply' = [reply EXCEPT ![c] = NoReply] /\ Step(c) # "look"
  BY DEF Resume, Proceed
<1>2. /\ Running(c) /\ Len(ran[c][call[c].at]) = call[c].step /\ reply[c].value \in Nat
      /\ \A m \in wire : m.by = c => ~IsCurrent(m)
  BY <1>1, Answered
<1>3. TypeOK /\ call[c] \in CallState /\ Advance(c)
  BY Parts, Types DEF CallerOK
<1>4. /\ Action(c) \in Actions /\ call[c].step \in 1 .. Len(Scripts[Action(c)])
      /\ Len(Scripts[Action(c)]) \in Nat /\ call[c].step \in Nat
      /\ Action(c) \notin {"wait", "waitFor"}
  <2>1. Action(c) # "wait"
    BY <1>1, <1>2, <1>3 DEF Advance
  <2> QED
    BY <1>1, <1>2, <2>1, CurrentStep, CurrentAction, ScriptTypes
<1>5. CASE IsLastStep(c)
  <2>1. Finish(c, "ok") /\ call[c].step = Len(Scripts[Action(c)])
    BY <1>5 DEF Proceed, IsLastStep
  <2>2. handles' \in [Callers -> SUBSET Nat]
    <3>1. handles \in [Callers -> SUBSET Nat]
      BY <1>3 DEF TypeOK
    <3>2. [handles EXCEPT ![c] = @ \cup {reply[c].value}] \in [Callers -> SUBSET Nat]
      BY <1>2, <3>1
    <3> QED
      BY <1>5, <3>1, <3>2 DEF Proceed
  <2> QED
    BY <1>1, <1>2, <2>1, <2>2, FinishCore
<1>6. CASE ~IsLastStep(c)
  <2>1. PICK new : new = [call[c] EXCEPT !.pc = "sending", !.step = @ + 1,
                                         !.carry = reply[c].value]
    OBVIOUS
  <2>2. /\ new \in CallState /\ new.at = call[c].at /\ new.pc = "sending"
        /\ new.step = call[c].step + 1
    <3>1. call[c].step + 1 \in Nat
      BY <1>4
    <3> QED
      BY <1>2, <1>3, <2>1, <3>1 DEF CallState
  <2>3. call' = [call EXCEPT ![c] = new] /\ UNCHANGED <<results, handles>>
    BY <1>6, <2>1 DEF Proceed
  <2>4. new.step \in 1 .. Len(Scripts[Action(c)])
    BY <1>4, <1>6, <2>2 DEF IsLastStep
  <2> QED
    BY <1>1, <1>2, <1>4, <2>2, <2>3, <2>4, MoveCore
<1> QED
  BY <1>5, <1>6

LEMMA ResumeCore ==
  ASSUME CoreInv, NEW c \in Callers, Resume(c)
  PROVE  CoreInv'
<1>1. CASE ~Answers(c) /\ Finish(c, "error") /\ UNCHANGED handles
  <2>1. Running(c) /\ reply' = [reply EXCEPT ![c] = NoReply] /\ UNCHANGED <<batch, wire, browser>>
    BY DEF Resume, Running
  <2>2. handles' \in [Callers -> SUBSET Nat]
    BY <1>1, Parts DEF TypeOK
  <2> QED
    BY <1>1, <2>1, <2>2, FinishCore
<1> QED
  BY <1>1, LookCore, ProceedCore DEF Resume

LEMMA GiveUpCore ==
  ASSUME CoreInv, NEW c \in Callers, GiveUp(c)
  PROVE  CoreInv'
<1>1. handles' \in [Callers -> SUBSET Nat]
  BY Parts DEF GiveUp, TypeOK
<1>2. /\ Running(c) /\ Finish(c, "error") /\ reply' = [reply EXCEPT ![c] = NoReply]
      /\ UNCHANGED <<batch, wire, browser>>
  BY DEF GiveUp, Running
<1> QED
  BY <1>1, <1>2, FinishCore

LEMMA DropCore ==
  ASSUME CoreInv, NEW c \in Callers, Drop(c)
  PROVE  CoreInv'
<1>1. handles' \in [Callers -> SUBSET Nat]
  BY Parts DEF Drop, TypeOK
<1>2. /\ Running(c) /\ Finish(c, "dropped") /\ reply' = [reply EXCEPT ![c] = NoReply]
      /\ UNCHANGED <<batch, wire, browser>>
  BY DEF Drop
<1> QED
  BY <1>1, <1>2, FinishCore

LEMMA WakeUpCore ==
  ASSUME CoreInv, NEW c \in Callers, WakeUp(c)
  PROVE  CoreInv'
<1>1. /\ call[c].pc = "sleeping" /\ Running(c)
      /\ UNCHANGED <<batch, handles, wire, reply, browser>>
  BY DEF WakeUp, Running
<1>2. reply[c] = NoReply /\ \A m \in wire : m.by = c => ~IsCurrent(m)
  BY <1>1, NoReplyAwaited, CurrentMessages
<1>3. TypeOK /\ call[c] \in CallState /\ Advance(c)
  BY Parts, Types DEF CallerOK
<1>4. reply' = [reply EXCEPT ![c] = NoReply] /\ handles' \in [Callers -> SUBSET Nat]
  BY <1>1, <1>2, <1>3 DEF TypeOK
<1>5. CASE Action(c) = "wait" /\ Finish(c, "ok")
  <2>1. ran[c][call[c].at] = << >> /\ Scripts[Action(c)] = << >>
    BY <1>1, <1>3, <1>5, ScriptsAre DEF Advance
  <2> QED
    BY <1>1, <1>2, <1>4, <1>5, <2>1, FinishCore
<1>6. CASE Action(c) = "waitFor" /\ GoTo(c, "sending") /\ UNCHANGED results
  <2>1. PICK new : new = [call[c] EXCEPT !.pc = "sending"]
    OBVIOUS
  <2>2. new \in CallState /\ new.at = call[c].at /\ new.pc = "sending" /\ new.step = call[c].step
    BY <1>3, <2>1 DEF CallState
  <2>3. call' = [call EXCEPT ![c] = new]
    BY <1>6, <2>1 DEF GoTo
  <2>4. call[c].step \in 1 .. Len(Scripts[Action(c)])
    BY <1>1, <1>3, <1>6 DEF Advance
  <2> QED
    BY <1>1, <1>2, <1>4, <1>6, <2>2, <2>3, <2>4, MoveCore
<1> QED
  BY <1>5, <1>6 DEF WakeUp

LEMMA DeadlinePassesCore ==
  ASSUME CoreInv, NEW c \in Callers, DeadlinePasses(c)
  PROVE  CoreInv'
<1>1. TypeOK /\ OneEach /\ call[c] \in CallState /\ CallerOK(c)
      /\ UNCHANGED <<batch, results, handles, wire, reply, browser>>
  BY Parts, Types DEF DeadlinePasses
<1>2. /\ call' \in [Callers -> CallState] /\ \A d \in Callers \ {c} : call'[d] = call[d]
      /\ call'[c] = [call[c] EXCEPT !.due = TRUE]
  BY <1>1 DEF DeadlinePasses, TypeOK, CallState
<1>3. /\ call'[c].pc = call[c].pc /\ call'[c].at = call[c].at /\ call'[c].step = call[c].step
      /\ call'[c].carry = call[c].carry
  BY <1>1, <1>2 DEF CallState
<1>4. TypeOK'
  BY <1>1, <1>2 DEF TypeOK
<1>5. CallerOK(c)'
  <2>1. Rows(c)' /\ Advance(c)'
    BY <1>1, <1>3 DEF CallerOK, Rows, Advance, Running, Action
  <2>2. \A i \in 1 .. Len(ran'[c]) : RowOK(c, i)'
    BY <1>1 DEF CallerOK, RowOK
  <2> QED
    BY <2>1, <2>2 DEF CallerOK
<1>6. \A d \in Callers \ {c} : Stays(d)
  BY <1>1, <1>2 DEF Stays
<1>7. \A m \in wire : MessageOK(m)'
  <2> TAKE m \in wire
  <2>1. CASE m.by = c
    <3>1. MessageOK(m)
      BY Parts
    <3> QED
      BY <1>1, <1>3, <2>1, <3>1
      DEF MessageOK, IsCurrent, Awaited, Argument, Running, Action, Step
  <2>2. CASE m.by # c
    BY <1>1, <2>2, <1>6, Parts, CurrentMessages, MessageStays
  <2> QED
    BY <2>1, <2>2
<1> QED
  BY <1>1, <1>4, <1>5, <1>6, <1>7, Parts, CallerStays, Whole DEF OneEach

-----------------------------------------------------------------------------
(* What the browser may do to the tab, and answer.                         *)

LEMMA EffectCases ==
  ASSUME NEW m, NEW p, NEW q \in Effects(m, p)
  PROVE  \/ m.kind \in {"navigate", "leave", "setDocumentContent"} /\ q \in Load(p)
         \/ m.kind = "mousePressed" /\ q = [p EXCEPT !.button = "down"]
         \/ m.kind = "mouseReleased" /\ q = [p EXCEPT !.button = "up"]
         \/ m.kind = "keyDown" /\ q = [p EXCEPT !.key = "down"]
         \/ m.kind = "keyUp" /\ q = [p EXCEPT !.key = "up"]
         \/ m.kind = "focus" /\ q = [p EXCEPT !.focused = @ \/ p.element]
         \/ m.kind = "setViewport" /\ q = [p EXCEPT !.viewport = m.argument]
         \/ m.kind = "enableFetch" /\ q = [p EXCEPT !.fetch = "all"]
         \/ m.kind = "enableFetchPatterns" /\ q = [p EXCEPT !.fetch = "patterns"]
         \/ /\ m.kind = "attachToTarget"
            /\ q = [p EXCEPT !.attached = @ + 1, !.sessions = @ \cup {p.attached + 1}]
         \/ m.kind = "detachFromTarget" /\ q = [p EXCEPT !.sessions = @ \ {m.argument}]
         \/ /\ q = p
            /\ m.kind \notin {"navigate", "leave", "setDocumentContent", "mousePressed",
                              "mouseReleased", "keyDown", "keyUp", "focus", "setViewport",
                              "enableFetch", "enableFetchPatterns", "attachToTarget",
                              "detachFromTarget"}
BY DEF Effects

LEMMA LoadType ==
  ASSUME NEW p \in PageState, NEW q \in Load(p)
  PROVE  /\ q \in PageState /\ q.button = p.button /\ q.key = p.key /\ q.fetch = p.fetch
         /\ q.sessions = p.sessions /\ q.attached = p.attached
<1>1. PICK n \in {1, 2}, e \in BOOLEAN :
         q = [p EXCEPT !.document = p.document + n, !.element = e, !.focused = FALSE]
  BY DEF Load
<1>2. p.document + n \in Nat
  BY DEF PageState
<1> QED
  BY <1>1, <1>2 DEF PageState

LEMMA EffectType ==
  ASSUME NEW m, m.argument \in Nat, NEW p \in PageState, NEW q \in Effects(m, p)
  PROVE  q \in PageState
<1>1. (p.focused \/ p.element) \in BOOLEAN
  OBVIOUS
<1>2. [p EXCEPT !.focused = p.focused \/ p.element] \in PageState
  BY <1>1, Zenon DEF PageState
<1>3. /\ [p EXCEPT !.button = "down"] \in PageState /\ [p EXCEPT !.button = "up"] \in PageState
      /\ [p EXCEPT !.key = "down"] \in PageState /\ [p EXCEPT !.key = "up"] \in PageState
      /\ [p EXCEPT !.viewport = m.argument] \in PageState
      /\ [p EXCEPT !.fetch = "all"] \in PageState /\ [p EXCEPT !.fetch = "patterns"] \in PageState
      /\ [p EXCEPT !.sessions = @ \ {m.argument}] \in PageState
  BY DEF PageState
<1>4. [p EXCEPT !.attached = @ + 1, !.sessions = @ \cup {p.attached + 1}] \in PageState
  <2>1. p.attached + 1 \in Nat /\ p.sessions \cup {p.attached + 1} \in SUBSET Nat
    BY DEF PageState
  <2> QED
    BY <2>1, Zenon DEF PageState
<1>5. CASE q \in Load(p)
  BY <1>5, LoadType
<1>6. CASE q \in {p, [p EXCEPT !.button = "down"], [p EXCEPT !.button = "up"],
                  [p EXCEPT !.key = "down"], [p EXCEPT !.key = "up"],
                  [p EXCEPT !.viewport = m.argument], [p EXCEPT !.fetch = "all"],
                  [p EXCEPT !.fetch = "patterns"], [p EXCEPT !.sessions = @ \ {m.argument}]}
  BY <1>3, <1>6, Zenon
<1>7. CASE q \in {[p EXCEPT !.focused = p.focused \/ p.element],
                  [p EXCEPT !.attached = @ + 1, !.sessions = @ \cup {p.attached + 1}]}
  BY <1>2, <1>4, <1>7, Zenon
<1> QED
  BY <1>5, <1>6, <1>7, EffectCases, Zenon

\* Which part of the tab each command changes.
LEMMA EffectFields ==
  ASSUME NEW m, NEW p \in PageState, NEW q \in Effects(m, p)
  PROVE  /\ q.button = CASE m.kind = "mousePressed" -> "down"
                         [] m.kind = "mouseReleased" -> "up" [] OTHER -> p.button
         /\ q.key = CASE m.kind = "keyDown" -> "down" [] m.kind = "keyUp" -> "up" [] OTHER -> p.key
         /\ q.fetch = CASE m.kind = "enableFetch" -> "all"
                        [] m.kind = "enableFetchPatterns" -> "patterns" [] OTHER -> p.fetch
         /\ q.sessions = CASE m.kind = "attachToTarget" -> p.sessions \cup {p.attached + 1}
                           [] m.kind = "detachFromTarget" -> p.sessions \ {m.argument}
                           [] OTHER -> p.sessions
         /\ q.attached = IF m.kind = "attachToTarget" THEN p.attached + 1 ELSE p.attached
<1>1. CASE m.kind \in {"navigate", "leave", "setDocumentContent"} /\ q \in Load(p)
  BY <1>1, LoadType
<1>2. CASE \/ m.kind = "mousePressed" /\ q = [p EXCEPT !.button = "down"]
           \/ m.kind = "mouseReleased" /\ q = [p EXCEPT !.button = "up"]
  BY <1>2 DEF PageState
<1>3. CASE \/ m.kind = "keyDown" /\ q = [p EXCEPT !.key = "down"]
           \/ m.kind = "keyUp" /\ q = [p EXCEPT !.key = "up"]
  BY <1>3 DEF PageState
<1>4. CASE m.kind = "focus" /\ q = [p EXCEPT !.focused = @ \/ p.element]
  BY <1>4 DEF PageState
<1>5. CASE \/ m.kind = "setViewport" /\ q = [p EXCEPT !.viewport = m.argument]
           \/ m.kind = "enableFetch" /\ q = [p EXCEPT !.fetch = "all"]
           \/ m.kind = "enableFetchPatterns" /\ q = [p EXCEPT !.fetch = "patterns"]
  BY <1>5 DEF PageState
<1>6. CASE \/ /\ m.kind = "attachToTarget"
              /\ q = [p EXCEPT !.attached = @ + 1, !.sessions = @ \cup {p.attached + 1}]
           \/ m.kind = "detachFromTarget" /\ q = [p EXCEPT !.sessions = @ \ {m.argument}]
  BY <1>6 DEF PageState
<1>7. CASE /\ q = p
           /\ m.kind \notin {"navigate", "leave", "setDocumentContent", "mousePressed",
                              "mouseReleased", "keyDown", "keyUp", "focus", "setViewport",
                              "enableFetch", "enableFetchPatterns", "attachToTarget",
                              "detachFromTarget"}
  BY <1>7
<1> QED
  BY <1>1, <1>2, <1>3, <1>4, <1>5, <1>6, <1>7, EffectCases

LEMMA SizeType ==
  ASSUME NEW d \in Nat
  PROVE  Size(d) \in {Small, Large}
BY DEF Size

LEMMA ValueType ==
  ASSUME NEW m, NEW p \in PageState, NEW v \in Values(m, p)
  PROVE  /\ v \in Nat
         /\ m.kind = "look" => v = IF p.element THEN 1 ELSE 0
         /\ m.kind = "measure" => v = Size(p.document)
         /\ m.kind = "attachToTarget" => v = p.attached + 1
<1>1. p.document \in Nat /\ p.attached \in Nat /\ Size(p.document) \in Nat
  BY SizeType DEF PageState, Small, Large
<1>2. \/ m.kind \in {"look", "querySelector"} /\ v = IF p.element THEN 1 ELSE 0
      \/ m.kind = "measure" /\ v = Size(p.document)
      \/ m.kind = "getDocument" /\ v = p.document
      \/ m.kind = "getFrameTree" /\ v \in {0, 1}
      \/ m.kind = "attachToTarget" /\ v = p.attached + 1
      \/ m.kind \notin {"look", "measure", "attachToTarget"} /\ v = 0
  BY DEF Values
<1> QED
  BY <1>1, <1>2

LEMMA SeenType ==
  ASSUME NEW v \in ViewState, NEW c, NEW m, NEW p \in PageState, NEW q \in PageState
  PROVE  Seen(v, c, m, p, q) \in ViewState
<1> DEFINE own == IsCurrent(m) /\ m.by = c
           alone == v.alone /\ (own \/ p = q)
           looked == IF Running(c) THEN v.looked \cup {q.element} ELSE v.looked
           present == IF own /\ m.kind = "focus" THEN p.element ELSE v.present
           right == CASE own /\ m.kind = "insertText" -> p.focused
                      [] own /\ m.kind = "capture" -> p.viewport >= Size(p.document)
                      [] OTHER -> v.right
<1>1. /\ v.looked \subseteq BOOLEAN /\ q.element \in BOOLEAN /\ p.element \in BOOLEAN
      /\ v.present \in BOOLEAN /\ v.right \in BOOLEAN /\ p.focused \in BOOLEAN
  BY DEF ViewState, PageState
<1>2. alone \in BOOLEAN /\ looked \in SUBSET BOOLEAN /\ present \in BOOLEAN
  BY <1>1
<1>3. right \in BOOLEAN
  <2>1. (p.viewport >= Size(p.document)) \in BOOLEAN
    OBVIOUS
  <2>2. right \in {p.focused, p.viewport >= Size(p.document), v.right}
    OBVIOUS
  <2> QED
    BY <1>1, <2>1, <2>2
<1>4. Seen(v, c, m, p, q) = [v EXCEPT !.alone = alone, !.looked = looked,
                                      !.present = present, !.right = right]
  BY DEF Seen
<1> HIDE DEF own, alone, looked, present, right
<1> QED
  BY <1>2, <1>3, <1>4, Zenon DEF ViewState

-----------------------------------------------------------------------------
(* A command is carried out or refused, or the page changes.               *)

LEMMA AnswerEffect ==
  ASSUME CoreInv, NEW m \in wire, NEW what \in {"done", "threw", "refused", "bad"},
         NEW value \in Nat, Answer(m, what, value)
  PROVE  /\ reply' \in [Callers -> ReplyState]
         /\ \A d \in Callers \ {m.by} : reply'[d] = reply[d]
         /\ IsCurrent(m) => reply'[m.by] = [what |-> what, value |-> value]
         /\ ~IsCurrent(m) => reply' = reply
<1>1. m.by \in Callers /\ reply \in [Callers -> ReplyState] /\ (Awaited(m) <=> IsCurrent(m))
  BY Parts, CurrentMessages DEF TypeOK, MessageOK, Awaited
<1>2. [what |-> what, value |-> value] \in ReplyState
  BY DEF ReplyState
<1> QED
  BY <1>1, <1>2 DEF Answer

\* The row of m's action, and no other, has one more step: m's.
LEMMA CountedRow ==
  ASSUME CoreInv, NEW m \in wire,
         ran' = [ran EXCEPT ![m.by][m.action] =
                     IF m.kind = "look" THEN <<m.step>> ELSE Append(@, m.step)]
  PROVE  /\ ran' \in [Callers -> Seq(Seq(Nat))]
         /\ \A d \in Callers \ {m.by} : ran'[d] = ran[d]
         /\ Len(ran'[m.by]) = Len(ran[m.by])
         /\ \A i \in 1 .. Len(ran[m.by]) : i # m.action => ran'[m.by][i] = ran[m.by][i]
         /\ Len(ran'[m.by][m.action]) = m.step
         /\ ran'[m.by][m.action] = [s \in 1 .. m.step |-> s]
         /\ batch[m.by][m.action] = "waitFor" => m.step = 1
<1> DEFINE row == ran[m.by][m.action]
           new == IF m.kind = "look" THEN <<m.step>> ELSE Append(row, m.step)
<1>1. /\ m.by \in Callers /\ m.action \in Nat /\ m.step \in Nat /\ MessageOK(m)
      /\ CallerOK(m.by) /\ ran \in [Callers -> Seq(Seq(Nat))] /\ ran[m.by] \in Seq(Seq(Nat))
      /\ batch[m.by] \in Seq(Actions)
  BY Parts, CurrentMessages, Types DEF TypeOK
<1>2. /\ m.action \in 1 .. Len(ran[m.by]) /\ row \in Seq(Nat) /\ Len(row) \in Nat
      /\ RowOK(m.by, m.action)
  BY <1>1 DEF MessageOK, CallerOK
<1>3. m.step \in 1 .. Len(Scripts[batch[m.by][m.action]])
      /\ m.kind = Scripts[batch[m.by][m.action]][m.step]
  BY <1>1 DEF MessageOK
<1>4. batch[m.by][m.action] \in Actions
  <2>1. Len(ran[m.by]) <= Len(batch[m.by]) /\ Len(ran[m.by]) \in Nat /\ Len(batch[m.by]) \in Nat
    <3>1. Rows(m.by) /\ call[m.by].at \in Nat
      BY <1>1, Types DEF CallerOK, CallState
    <3> QED
      BY <1>1, <3>1 DEF Rows
  <2> QED
    BY <1>1, <1>2, <2>1
<1>5. /\ m.kind = "look" => m.step = 1
      /\ batch[m.by][m.action] = "waitFor" => m.step = 1
  BY <1>3, <1>4, Places, ScriptsAre DEF One
<1>6. new \in Seq(Nat) /\ Len(new) = m.step /\ new = [s \in 1 .. m.step |-> s]
  <2>1. CASE m.kind = "look"
    <3>1. new = <<1>>
      BY <1>5, <2>1
    <3> QED
      BY <1>5, <2>1, <3>1
  <2>2. CASE m.kind # "look"
    <3>1. Len(row) + 1 = m.step /\ row = [s \in 1 .. Len(row) |-> s]
      BY <1>1, <1>2, <2>2 DEF MessageOK, RowOK
    <3>2. new = Append(row, m.step) /\ new \in Seq(Nat) /\ Len(new) = m.step
      BY <1>1, <1>2, <2>2, <3>1
    <3>3. \A s \in 1 .. m.step : new[s] = s
      BY <1>1, <1>2, <3>1, <3>2
    <3> HIDE DEF new
    <3>4. new = [s \in 1 .. Len(new) |-> new[s]]
      BY <3>2
    <3> QED
      BY <3>2, <3>3, <3>4
  <2> QED
    BY <2>1, <2>2
<1>7. ran' = [ran EXCEPT ![m.by] = [@ EXCEPT ![m.action] = new]]
  OBVIOUS
<1> HIDE DEF new
<1>8. [ran[m.by] EXCEPT ![m.action] = new] \in Seq(Seq(Nat))
  BY <1>1, <1>2, <1>6
<1>9. /\ ran' \in [Callers -> Seq(Seq(Nat))] /\ \A d \in Callers \ {m.by} : ran'[d] = ran[d]
      /\ ran'[m.by] = [ran[m.by] EXCEPT ![m.action] = new]
  BY <1>1, <1>7, <1>8
<1>10. /\ Len(ran'[m.by]) = Len(ran[m.by]) /\ ran'[m.by][m.action] = new
       /\ \A i \in 1 .. Len(ran[m.by]) : i # m.action => ran'[m.by][i] = ran[m.by][i]
  <2>1. DOMAIN ran[m.by] = 1 .. Len(ran[m.by]) /\ Len(ran[m.by]) \in Nat
    BY <1>1
  <2>2. DOMAIN ran'[m.by] = 1 .. Len(ran[m.by]) /\ ran'[m.by] \in Seq(Seq(Nat))
    BY <1>8, <1>9, <2>1
  <2>3. Len(ran'[m.by]) = Len(ran[m.by])
    BY <2>1, <2>2
  <2>4. \A i \in 1 .. Len(ran[m.by]) :
            ran'[m.by][i] = IF i = m.action THEN new ELSE ran[m.by][i]
    BY <1>9, <2>1
  <2>5. ran'[m.by][m.action] = new
    BY <1>2, <2>4
  <2> QED
    BY <2>3, <2>4, <2>5
<1> QED
  BY <1>5, <1>6, <1>9, <1>10

LEMMA CarriedOut ==
  ASSUME CoreInv, NEW m \in wire, NEW what \in {"done", "threw"}, NEW value \in Nat,
         Answer(m, what, value), wire' = wire \ {m},
         ran' = [ran EXCEPT ![m.by][m.action] =
                     IF m.kind = "look" THEN <<m.step>> ELSE Append(@, m.step)],
         page' \in PageState, view' \in [Callers -> ViewState],
         UNCHANGED <<batch, client, changes>>
  PROVE  CoreInv'
<1> DEFINE c == m.by
<1>1. /\ TypeOK /\ OneEach /\ CallerOK(c) /\ MessageOK(m) /\ c \in Callers
      /\ m.action \in Nat /\ m.step \in Nat /\ call[c].at \in Nat
      /\ results[c] \in Seq({"ok", "error", "deadline", "dropped"})
  BY Parts, CurrentMessages, Types DEF CallState
<1>2. /\ reply' \in [Callers -> ReplyState]
      /\ \A d \in Callers \ {c} : reply'[d] = reply[d]
      /\ IsCurrent(m) => reply'[c].what = what /\ reply[c] = NoReply /\ call[c].pc = "awaiting"
      /\ ~IsCurrent(m) => reply' = reply
  <2>1. what \in {"done", "threw", "refused", "bad"}
    OBVIOUS
  <2>2. /\ reply' \in [Callers -> ReplyState]
        /\ \A d \in Callers \ {c} : reply'[d] = reply[d]
        /\ IsCurrent(m) => reply'[c] = [what |-> what, value |-> value]
        /\ ~IsCurrent(m) => reply' = reply
    BY <2>1, AnswerEffect
  <2> QED
    BY <2>2, CurrentMessages
<1>3. /\ ran' \in [Callers -> Seq(Seq(Nat))] /\ \A d \in Callers \ {c} : ran'[d] = ran[d]
      /\ Len(ran'[c]) = Len(ran[c]) /\ Len(ran'[c][m.action]) = m.step
      /\ ran'[c][m.action] = [s \in 1 .. m.step |-> s]
      /\ \A i \in 1 .. Len(ran[c]) : i # m.action => ran'[c][i] = ran[c][i]
      /\ batch[c][m.action] = "waitFor" => m.step = 1
  BY CountedRow
<1>4. TypeOK'
  BY <1>1, <1>2, <1>3 DEF TypeOK
<1>5. \A d \in Callers \ {c} : Stays(d)
  BY <1>2, <1>3 DEF Stays
<1>6. CallerOK(c)'
  <2>1. Rows(c)'
    BY <1>1, <1>3 DEF CallerOK, Rows, Running
  <2>2. Advance(c)'
    <3>1. Action(c)' = Action(c) /\ Running(c)' = Running(c)
      BY DEF Action, Running
    <3>2. CASE IsCurrent(m)
      <4>1. /\ call[c].at = m.action /\ call[c].step = m.step /\ call[c].pc = "awaiting"
            /\ Running(c)
        BY <3>2, CurrentMessages DEF IsCurrent
      <4> QED
        BY <1>1, <1>2, <1>3, <3>1, <3>2, <4>1 DEF CallerOK, Advance
    <3>3. CASE ~IsCurrent(m)
      <4>1. Running(c) => call[c].at # m.action /\ call[c].at \in 1 .. Len(ran[c])
        BY <1>1, <3>3, CurrentAction DEF IsCurrent
      <4>2. Running(c) => ran'[c][call[c].at] = ran[c][call[c].at]
        BY <1>3, <4>1
      <4> QED
        BY <1>1, <1>2, <3>1, <3>3, <4>2 DEF CallerOK, Advance
    <3> QED
      BY <3>2, <3>3
  <2>3. \A i \in 1 .. Len(ran'[c]) : RowOK(c, i)'
    <3> TAKE i \in 1 .. Len(ran'[c])
    <3>1. RowOK(c, i)
      BY <1>1, <1>3 DEF CallerOK
    <3>2. CASE i # m.action
      BY <1>3, <3>1, <3>2 DEF RowOK
    <3>3. CASE i = m.action
      <4>1. ~(i <= Len(results[c]) /\ results[c][i] = "ok")
        <5>1. CASE IsCurrent(m)
          <6>1. Len(results[c]) + 1 = m.action /\ Len(results[c]) \in Nat
            BY <1>1, <5>1, CurrentAction DEF IsCurrent
          <6> QED
            BY <3>3, <6>1
        <5>2. CASE ~IsCurrent(m)
          BY <1>1, <3>3, <5>2 DEF MessageOK
        <5> QED
          BY <5>1, <5>2
      <4> QED
        BY <1>1, <1>3, <3>3, <4>1 DEF RowOK
    <3> QED
      BY <3>2, <3>3
  <2> QED
    BY <2>1, <2>2, <2>3 DEF CallerOK
<1>7. \A n \in wire' : MessageOK(n)'
  <2> TAKE n \in wire'
  <2>1. CASE n.by = c
    <3>1. n \in wire /\ n # m /\ MessageOK(n) /\ n.action # m.action
      BY <1>1, <2>1, Parts DEF OneEach
    <3>2. n.action \in 1 .. Len(ran[c]) /\ ran'[c][n.action] = ran[c][n.action]
      BY <1>3, <2>1, <3>1 DEF MessageOK
    <3>3. IsCurrent(n)' = IsCurrent(n) /\ Awaited(n)' = Awaited(n) /\ Argument(c)' = Argument(c)
      BY DEF IsCurrent, Awaited, Argument, Running, Action, Step
    <3>4. IsCurrent(n) => reply'[c] = reply[c]
      BY <1>2, <2>1, <3>1 DEF IsCurrent
    <3> QED
      BY <1>3, <2>1, <3>1, <3>2, <3>3, <3>4 DEF MessageOK
  <2>2. CASE n.by # c
    BY <2>2, <1>5, Parts, CurrentMessages, MessageStays
  <2> QED
    BY <2>1, <2>2
<1> QED
  BY <1>1, <1>4, <1>5, <1>6, <1>7, Parts, CallerStays, Whole DEF OneEach

LEMMA TurnedDown ==
  ASSUME CoreInv, NEW m \in wire, NEW what \in {"refused", "bad"}, Answer(m, what, 0),
         wire' = wire \ {m}, UNCHANGED <<batch, client, page, changes, ran, view>>
  PROVE  CoreInv'
<1>1. TypeOK /\ OneEach /\ m.by \in Callers /\ CallerOK(m.by)
  BY Parts, CurrentMessages
<1>2. /\ reply' \in [Callers -> ReplyState]
      /\ \A d \in Callers \ {m.by} : reply'[d] = reply[d]
      /\ IsCurrent(m) => reply'[m.by].what = what /\ call[m.by].pc = "awaiting"
      /\ ~IsCurrent(m) => reply' = reply
  <2>1. what \in {"done", "threw", "refused", "bad"} /\ 0 \in Nat
    OBVIOUS
  <2>2. /\ reply' \in [Callers -> ReplyState]
        /\ \A d \in Callers \ {m.by} : reply'[d] = reply[d]
        /\ IsCurrent(m) => reply'[m.by] = [what |-> what, value |-> 0]
        /\ ~IsCurrent(m) => reply' = reply
    BY <2>1, AnswerEffect
  <2> QED
    BY <2>2, CurrentMessages
<1>3. TypeOK'
  BY <1>1, <1>2 DEF TypeOK
<1>4. \A d \in Callers \ {m.by} : Stays(d)
  BY <1>2 DEF Stays
<1>5. CallerOK(m.by)'
  <2>1. Rows(m.by)' /\ \A i \in 1 .. Len(ran'[m.by]) : RowOK(m.by, i)'
    BY <1>1 DEF CallerOK, Rows, RowOK, Running
  <2>2. Action(m.by)' = Action(m.by) /\ Running(m.by)' = Running(m.by)
    BY DEF Action, Running
  <2>3. Advance(m.by)'
    BY <1>1, <1>2, <2>2 DEF CallerOK, Advance
  <2> QED
    BY <2>1, <2>3 DEF CallerOK
<1>6. \A n \in wire' : MessageOK(n)'
  <2> TAKE n \in wire'
  <2>1. CASE n.by = m.by
    <3>1. n \in wire /\ n # m /\ MessageOK(n) /\ n.action # m.action
      BY <1>1, <2>1, Parts DEF OneEach
    <3>2. IsCurrent(n)' = IsCurrent(n) /\ Awaited(n)' = Awaited(n)
          /\ Argument(n.by)' = Argument(n.by)
      BY DEF IsCurrent, Awaited, Argument, Running, Action, Step
    <3>3. IsCurrent(n) => reply'[n.by] = reply[n.by]
      BY <1>2, <2>1, <3>1 DEF IsCurrent
    <3> QED
      BY <3>1, <3>2, <3>3 DEF MessageOK
  <2>2. CASE n.by # m.by
    BY <2>2, <1>4, Parts, CurrentMessages, MessageStays
  <2> QED
    BY <2>1, <2>2
<1> QED
  BY <1>1, <1>3, <1>4, <1>5, <1>6, Parts, CallerStays, Whole DEF OneEach

LEMMA ExecuteCore ==
  ASSUME CoreInv, NEW m \in wire, Execute(m)
  PROVE  CoreInv'
<1>1. page \in PageState /\ view \in [Callers -> ViewState] /\ m.argument \in Nat
  BY Parts, CurrentMessages DEF TypeOK
<1>2. page' \in PageState
  BY <1>1, EffectType DEF Execute
<1>3. PICK value \in Values(m, page) : Answer(m, "done", value)
  BY DEF Execute
<1>4. value \in Nat
  BY <1>1, ValueType
<1>5. view' \in [Callers -> ViewState]
  <2>1. \A c \in Callers : Seen(view[c], c, m, page, page') \in ViewState
    BY <1>1, <1>2, SeenType
  <2> QED
    BY <2>1 DEF Execute
<1> QED
  BY <1>2, <1>3, <1>4, <1>5, CarriedOut DEF Execute

LEMMA RefuseEffect ==
  ASSUME NEW m, Refuse(m)
  PROVE  \E what \in {"threw", "refused", "bad"} :
            /\ Answer(m, what, 0)
            /\ view' = IF what = "threw" /\ IsCurrent(m)
                       THEN [view EXCEPT ![m.by].threw = TRUE] ELSE view
            /\ ran' = IF what = "threw" THEN
                          [ran EXCEPT ![m.by][m.action] =
                              IF m.kind = "look" THEN <<m.step>> ELSE Append(@, m.step)]
                      ELSE ran
            /\ what = "threw" =>
                  m.kind \in {"focus", "script", "evaluate", "measure", "look"}
<1>1. \A what \in Failures(m) :
          /\ what \in {"threw", "refused", "bad"}
          /\ what = "threw" => m.kind \in {"focus", "script", "evaluate", "measure", "look"}
  BY DEF Failures
<1> QED
  BY <1>1 DEF Refuse

LEMMA RefuseCore ==
  ASSUME CoreInv, NEW m \in wire, Refuse(m)
  PROVE  CoreInv'
<1>1. PICK what \in {"threw", "refused", "bad"} :
            /\ Answer(m, what, 0)
            /\ view' = IF what = "threw" /\ IsCurrent(m)
                       THEN [view EXCEPT ![m.by].threw = TRUE] ELSE view
            /\ ran' = IF what = "threw" THEN
                          [ran EXCEPT ![m.by][m.action] =
                              IF m.kind = "look" THEN <<m.step>> ELSE Append(@, m.step)]
                      ELSE ran
  BY RefuseEffect
<1>2. wire' = wire \ {m} /\ UNCHANGED <<batch, client, page, changes>>
  BY DEF Refuse
<1>3. view' \in [Callers -> ViewState] /\ page' \in PageState
  <2>1. view \in [Callers -> ViewState] /\ page \in PageState
    BY Parts DEF TypeOK
  <2>2. [view EXCEPT ![m.by].threw = TRUE] \in [Callers -> ViewState]
    BY <2>1 DEF ViewState
  <2> QED
    BY <1>1, <1>2, <2>1, <2>2
<1>4. CASE what = "threw"
  <2>1. what \in {"done", "threw"} /\ 0 \in Nat
    BY <1>4
  <2> QED
    BY <1>1, <1>2, <1>3, <1>4, <2>1, CarriedOut
<1>5. CASE what # "threw"
  <2>1. what \in {"refused", "bad"}
    BY <1>5
  <2> QED
    BY <1>1, <1>2, <1>5, <2>1, TurnedDown
<1> QED
  BY <1>4, <1>5

LEMMA ChangeCore ==
  ASSUME CoreInv, Change
  PROVE  CoreInv'
<1>1. TypeOK /\ OneEach /\ UNCHANGED <<batch, client, wire, reply, ran>>
  BY Parts DEF Change
<1>2. page' \in PageState
  <2>1. page \in PageState
    BY <1>1 DEF TypeOK
  <2>2. [page EXCEPT !.element = ~@, !.focused = FALSE] \in PageState
        /\ [page EXCEPT !.focused = FALSE] \in PageState
    BY <2>1 DEF PageState
  <2> QED
    BY <2>1, <2>2, LoadType DEF Change
<1>3. changes' \in 0 .. MaxChanges
  <2>1. changes \in 0 .. MaxChanges /\ changes < MaxChanges /\ changes' = changes + 1
    BY <1>1 DEF Change, TypeOK
  <2> QED
    BY <2>1, OperationsAssumption
<1>4. view' \in [Callers -> ViewState]
  <2>1. ASSUME NEW c \in Callers
        PROVE  [view[c] EXCEPT !.alone = FALSE,
                               !.looked = IF Running(c) THEN @ \cup {page'.element} ELSE @]
                  \in ViewState
    <3>1. view[c] \in ViewState /\ page'.element \in BOOLEAN
      BY <1>1, <1>2 DEF TypeOK, PageState
    <3>2. view[c].looked \cup {page'.element} \in SUBSET BOOLEAN
          /\ view[c].looked \in SUBSET BOOLEAN
      BY <3>1 DEF ViewState
    <3> QED
      BY <3>1, <3>2 DEF ViewState
  <2> QED
    BY <2>1 DEF Change
<1>5. TypeOK'
  BY <1>1, <1>2, <1>3, <1>4 DEF TypeOK
<1>6. \A d \in Callers : Stays(d)
  BY <1>1 DEF Stays
<1> QED
  BY <1>1, <1>5, <1>6, Parts, CallerStays, CurrentMessages, MessageStays, Whole DEF OneEach

-----------------------------------------------------------------------------
LEMMA CoreInit ==
  ASSUME Init
  PROVE  CoreInv
<1>1. batch \in [Callers -> Seq(Actions)]
  BY OperationsAssumption DEF Init
<1>2. TypeOK
  <2>1. Idle \in CallState /\ FreshView \in ViewState /\ NoReply \in ReplyState
    BY DEF Idle, CallState, FreshView, ViewState, ReplyState
  <2>2. page \in PageState
    <3>1. page \in [button : {"up"}, key : {"up"}, viewport : {0}, document : {0, 1},
                    element : BOOLEAN, focused : {FALSE}, fetch : {"off"}, sessions : {{}},
                    attached : {0}]
      BY DEF Init
    <3>2. {"up"} \subseteq {"up", "down"} /\ {0} \subseteq Nat /\ {0, 1} \subseteq Nat
          /\ {FALSE} \subseteq BOOLEAN /\ {"off"} \subseteq {"off", "all", "patterns"}
          /\ {{}} \subseteq SUBSET Nat
      OBVIOUS
    <3> QED
      BY <3>1, <3>2, Zenon DEF PageState
  <2>3. changes \in 0 .. MaxChanges /\ wire \subseteq Message
    BY OperationsAssumption DEF Init
  <2> QED
    BY <1>1, <2>1, <2>2, <2>3 DEF Init, TypeOK
<1>3. \A c \in Callers : /\ call[c] = Idle /\ results[c] = << >> /\ ran[c] = << >>
                         /\ reply[c] = NoReply /\ wire = {} /\ batch[c] \in Seq(Actions)
  BY <1>1 DEF Init
<1>4. RowsAndResults /\ ActionsAdvance
  BY <1>3 DEF RowsAndResults, ActionsAdvance, Running, Idle
<1>5. PollsCountOnce /\ SuccessMeansItWasDone
  BY <1>3 DEF PollsCountOnce, SuccessMeansItWasDone
<1>6. CommandsAreNext
  BY DEF Init, CommandsAreNext
<1> QED
  BY <1>2, <1>4, <1>5, <1>6 DEF CoreInv

LEMMA CoreStutters ==
  ASSUME CoreInv, UNCHANGED vars
  PROVE  CoreInv'
<1>1. TypeOK' /\ OneEach' /\ wire' = wire /\ batch' = batch /\ \A d \in Callers : Stays(d)
  BY Parts DEF TypeOK, OneEach, Stays
<1> QED
  BY <1>1, Parts, CallerStays, CurrentMessages, MessageStays, Whole

LEMMA CoreStep ==
  ASSUME CoreInv, [Next]_vars
  PROVE  CoreInv'
<1>1. ASSUME NEW c \in Callers, Caller(c)
      PROVE  CoreInv'
  BY <1>1, BeginCore, SkipCore, SendCore, ResumeCore, GiveUpCore, DropCore, DeadlinePassesCore,
     WakeUpCore
  DEF Caller
<1> QED
  BY <1>1, ExecuteCore, RefuseCore, ChangeCore, CoreStutters DEF Next

-----------------------------------------------------------------------------
(* What a half-done action leaves behind.                                  *)

\* What has been carried out and reported stays so.
LEMMA ResultsStay ==
  ASSUME CoreInv, NEW c \in Callers, Running(c) \/ ~Done(c),
         NEW r \in {"ok", "error", "deadline", "dropped"}, Finish(c, r)
  PROVE  /\ Len(results[c]) \in Nat /\ Len(results'[c]) = Len(results[c]) + 1
         /\ \A i \in 1 .. Len(results[c]) : results'[c][i] = results[c][i]
         /\ results'[c][Len(results[c]) + 1] = r
<1>1. results[c] \in Seq({"ok", "error", "deadline", "dropped"}) /\ results'[c] = Append(results[c], r)
  BY Types, FinishEffect
<1> QED
  BY <1>1

Kept(d) == /\ Len(ran[d]) \in Nat /\ Len(ran'[d]) \in Nat /\ Len(ran[d]) <= Len(ran'[d])
           /\ \A i \in 1 .. Len(ran[d]) : ran'[d][i] = ran[d][i]
           /\ Len(results[d]) \in Nat /\ Len(results'[d]) \in Nat
           /\ Len(results[d]) <= Len(results'[d])
           /\ \A i \in 1 .. Len(results[d]) : results'[d][i] = results[d][i]

LEMMA StaysKept ==
  ASSUME CoreInv, NEW d \in Callers, Stays(d)
  PROVE  Kept(d)
<1>1. Len(ran[d]) \in Nat /\ Len(results[d]) \in Nat
  BY Types
<1> QED
  BY <1>1 DEF Stays, Kept

LEMMA FinishOthers ==
  ASSUME NEW c \in Callers, NEW r, Finish(c, r), NEW d \in Callers, d # c, TypeOK
  PROVE  call'[d] = call[d] /\ results'[d] = results[d]
BY DEF Finish, TypeOK

LEMMA CallerResults ==
  ASSUME CoreInv, NEW c \in Callers, Caller(c)
  PROVE  \/ UNCHANGED results
         \/ \E r \in {"ok", "error", "deadline", "dropped"} : (Running(c) \/ ~Done(c)) /\ Finish(c, r)
<1>1. CASE Begin(c)
  BY <1>1 DEF Begin, Dispatch
<1>2. CASE Skip(c)
  BY <1>2 DEF Skip
<1>3. CASE Send(c) \/ DeadlinePasses(c)
  BY <1>3 DEF Send, DeadlinePasses
<1>4. CASE Resume(c)
  BY <1>4 DEF Resume, Look, Proceed, Running
<1>5. CASE GiveUp(c) \/ Drop(c) \/ WakeUp(c)
  BY <1>5 DEF GiveUp, Drop, WakeUp, Running
<1> QED
  BY <1>1, <1>2, <1>3, <1>4, <1>5 DEF Caller

LEMMA CallerLeaves ==
  ASSUME CoreInv, NEW c \in Callers, Caller(c)
  PROVE  /\ UNCHANGED <<batch, page, changes>>
         /\ \A d \in Callers \ {c} : Stays(d) /\ handles'[d] = handles[d] /\ view'[d] = view[d]
<1>1. UNCHANGED <<batch, page, changes>>
  BY DEF Caller, Begin, Skip, Send, Resume, GiveUp, Drop, DeadlinePasses, WakeUp
<1>2. ASSUME NEW d \in Callers \ {c}
      PROVE  Stays(d) /\ handles'[d] = handles[d] /\ view'[d] = view[d]
  <2>1. TypeOK
    BY Parts
  <2>2. call'[d] = call[d] /\ results'[d] = results[d]
    <3>1. ASSUME NEW r, Finish(c, r)
          PROVE  call'[d] = call[d] /\ results'[d] = results[d]
      BY <2>1, <3>1, FinishOthers
    <3>2. ASSUME NEW pc, GoTo(c, pc)
          PROVE  call'[d] = call[d]
      BY <2>1, <3>2 DEF GoTo, TypeOK
    <3>3. CASE Begin(c) \/ Skip(c)
      BY <2>1, <3>1, <3>2, <3>3 DEF Begin, Skip, Dispatch, TypeOK
    <3>4. CASE Send(c) \/ DeadlinePasses(c)
      BY <2>1, <3>2, <3>4 DEF Send, DeadlinePasses, TypeOK
    <3>5. CASE Resume(c)
      BY <2>1, <3>1, <3>2, <3>5 DEF Resume, Look, Proceed, TypeOK
    <3>6. CASE GiveUp(c) \/ Drop(c) \/ WakeUp(c)
      BY <3>1, <3>2, <3>6 DEF GiveUp, Drop, WakeUp
    <3> QED
      BY <3>3, <3>4, <3>5, <3>6 DEF Caller
  <2>3. reply'[d] = reply[d] /\ ran'[d] = ran[d] /\ view'[d] = view[d]
    BY <2>1 DEF Caller, Begin, Skip, Send, Resume, GiveUp, Drop, DeadlinePasses, WakeUp, TypeOK
  <2>4. handles'[d] = handles[d]
    BY <2>1 DEF Caller, Begin, Dispatch, Skip, Send, Resume, Look, Proceed, GiveUp, Drop,
                DeadlinePasses, WakeUp, TypeOK
  <2> QED
    BY <2>2, <2>3, <2>4 DEF Stays
<1> QED
  BY <1>1, <1>2

LEMMA CallerKeeps ==
  ASSUME CoreInv, NEW c \in Callers, Caller(c), NEW d \in Callers
  PROVE  Kept(d)
<1>1. CASE d # c
  BY <1>1, CallerLeaves, StaysKept
<1>2. CASE d = c
  <2>1. /\ ran[c] \in Seq(Seq(Nat)) /\ Len(ran[c]) \in Nat /\ Len(results[c]) \in Nat
        /\ ran \in [Callers -> Seq(Seq(Nat))]
    BY Types, Parts DEF TypeOK
  <2>2. ran'[c] = ran[c] \/ ran'[c] = Append(ran[c], << >>)
    BY <2>1 DEF Caller, Begin, Skip, Send, Resume, GiveUp, Drop, DeadlinePasses, WakeUp
  <2>3. /\ Len(ran'[c]) \in Nat /\ Len(ran[c]) <= Len(ran'[c])
        /\ \A i \in 1 .. Len(ran[c]) : ran'[c][i] = ran[c][i]
    <3>1. << >> \in Seq(Nat)
      OBVIOUS
    <3> QED
      BY <2>1, <2>2, <3>1
  <2>4. /\ Len(results'[c]) \in Nat /\ Len(results[c]) <= Len(results'[c])
        /\ \A i \in 1 .. Len(results[c]) : results'[c][i] = results[c][i]
    BY <2>1, CallerResults, ResultsStay
  <2> QED
    BY <1>2, <2>1, <2>3, <2>4 DEF Kept
<1> QED
  BY <1>1, <1>2

LEMMA CutShortStays ==
  ASSUME NEW actions, batch' = batch, \A d \in Callers : Kept(d), CutShort(actions)
  PROVE  CutShort(actions)'
<1>1. PICK d \in Callers : \E i \in 1 .. Len(results[d]) :
         batch[d][i] \in actions /\ results[d][i] # "ok"
  BY DEF CutShort
<1>2. PICK i \in 1 .. Len(results[d]) : batch[d][i] \in actions /\ results[d][i] # "ok"
  BY <1>1
<1>3. i \in 1 .. Len(results'[d]) /\ results'[d][i] = results[d][i]
  BY <1>2 DEF Kept
<1> QED
  BY <1>2, <1>3 DEF CutShort

LEMMA HalfDoneStays ==
  ASSUME NEW action, batch' = batch, \A d \in Callers : Kept(d), HalfDone(action)
  PROVE  HalfDone(action)'
<1>1. PICK d \in Callers : \E i \in 1 .. Len(ran[d]) :
         batch[d][i] = action /\ Len(ran[d][i]) = 1
  BY DEF HalfDone
<1>2. PICK i \in 1 .. Len(ran[d]) : batch[d][i] = action /\ Len(ran[d][i]) = 1
  BY <1>1
<1>3. i \in 1 .. Len(ran'[d]) /\ ran'[d][i] = ran[d][i]
  BY <1>2 DEF Kept
<1> QED
  BY <1>2, <1>3 DEF HalfDone

LEMMA MessageAction ==
  ASSUME CoreInv, NEW m \in wire
  PROVE  /\ m.by \in Callers /\ m.action \in 1 .. Len(ran[m.by]) /\ Len(ran[m.by]) \in Nat
         /\ batch[m.by][m.action] \in Actions
         /\ m.step \in 1 .. Len(Scripts[batch[m.by][m.action]])
         /\ m.kind = Scripts[batch[m.by][m.action]][m.step]
         /\ IsCurrent(m) => Action(m.by) = batch[m.by][m.action]
         /\ ~IsCurrent(m) => m.action \in 1 .. Len(results[m.by])
                             /\ results[m.by][m.action] # "ok"
<1>1. m.by \in Callers /\ MessageOK(m) /\ Rows(m.by) /\ m.action \in Nat
  BY Parts, CurrentMessages DEF CallerOK
<1>2. /\ Len(ran[m.by]) \in Nat /\ call[m.by].at \in Nat /\ Len(batch[m.by]) \in Nat
      /\ batch[m.by] \in Seq(Actions) /\ Len(results[m.by]) \in Nat
  BY <1>1, Types DEF CallState
<1>3. m.action \in 1 .. Len(batch[m.by])
  BY <1>1, <1>2 DEF MessageOK, Rows
<1> QED
  BY <1>1, <1>2, <1>3 DEF MessageOK, IsCurrent, Action

\* A row keeps its one step, unless the second is carried out.
LEMMA HalfDoneCounted ==
  ASSUME CoreInv, NEW m \in wire, NEW action \in {"clickAt", "pressKey", "intercept"},
         batch' = batch, HalfDone(action), ~(batch[m.by][m.action] = action /\ m.step = 2),
         ran' = [ran EXCEPT ![m.by][m.action] =
                     IF m.kind = "look" THEN <<m.step>> ELSE Append(@, m.step)]
  PROVE  HalfDone(action)'
<1>1. PICK d \in Callers : \E i \in 1 .. Len(ran[d]) :
         batch[d][i] = action /\ Len(ran[d][i]) = 1
  BY DEF HalfDone
<1>2. PICK i \in 1 .. Len(ran[d]) : batch[d][i] = action /\ Len(ran[d][i]) = 1
  BY <1>1
<1>3. CASE d = m.by /\ i = m.action
  <2>1. m.step \in 1 .. 2
    BY <1>2, <1>3, MessageAction, ScriptsAre DEF Two
  <2>2. m.step = 1
    BY <1>2, <1>3, <2>1
  <2>3. i \in 1 .. Len(ran'[d]) /\ Len(ran'[d][i]) = 1
    BY <1>3, <2>2, CountedRow
  <2> QED
    BY <1>2, <2>3 DEF HalfDone
<1>4. CASE ~(d = m.by /\ i = m.action)
  <2>1. i \in 1 .. Len(ran'[d]) /\ ran'[d][i] = ran[d][i]
    <3>1. CASE d = m.by
      BY <1>4, <3>1, CountedRow
    <3>2. CASE d # m.by
      BY <3>2, CountedRow
    <3> QED
      BY <3>1, <3>2
  <2> QED
    BY <1>2, <2>1 DEF HalfDone
<1> QED
  BY <1>3, <1>4

\* The first command of an action makes it half done.
LEMMA HalfDoneBegins ==
  ASSUME CoreInv, NEW m \in wire, NEW action, batch[m.by][m.action] = action, m.step = 1,
         batch' = batch,
         ran' = [ran EXCEPT ![m.by][m.action] =
                     IF m.kind = "look" THEN <<m.step>> ELSE Append(@, m.step)]
  PROVE  HalfDone(action)'
<1>1. m.by \in Callers /\ m.action \in 1 .. Len(ran'[m.by]) /\ Len(ran'[m.by][m.action]) = 1
  BY MessageAction, CountedRow
<1> QED
  BY <1>1 DEF HalfDone

LEMMA PressedStep ==
  ASSUME CoreInv, PressedByAnAction, [Next]_vars
  PROVE  PressedByAnAction'
<1>1. ASSUME NEW c \in Callers, Caller(c)
      PROVE  PressedByAnAction'
  <2>1. UNCHANGED <<batch, page>> /\ \A d \in Callers : Kept(d)
    BY <1>1, CallerLeaves, CallerKeeps
  <2> QED
    BY <2>1, HalfDoneStays DEF PressedByAnAction
<1>2. ASSUME NEW m \in wire, Execute(m)
      PROVE  PressedByAnAction'
  <2>1. /\ batch' = batch /\ page' \in Effects(m, page) /\ page \in PageState
        /\ ran' = [ran EXCEPT ![m.by][m.action] =
                       IF m.kind = "look" THEN <<m.step>> ELSE Append(@, m.step)]
    BY <1>2, Types, MessageAction DEF Execute
  <2>2. /\ page'.button = "down" => \/ m.kind = "mousePressed"
                                    \/ page.button = "down" /\ m.kind # "mouseReleased"
        /\ page'.key = "down" => \/ m.kind = "keyDown"
                                 \/ page.key = "down" /\ m.kind # "keyUp"
        /\ page'.fetch = "all" => \/ m.kind = "enableFetch"
                                  \/ page.fetch = "all" /\ m.kind # "enableFetchPatterns"
    BY <2>1, EffectFields
  <2>3. /\ m.kind = "mousePressed" => batch[m.by][m.action] = "clickAt" /\ m.step = 1
        /\ m.kind = "keyDown" => batch[m.by][m.action] = "pressKey" /\ m.step = 1
        /\ m.kind = "enableFetch" => batch[m.by][m.action] = "intercept" /\ m.step = 1
    BY MessageAction, Places
  <2>4. /\ batch[m.by][m.action] = "clickAt" /\ m.step = 2 => m.kind = "mouseReleased"
        /\ batch[m.by][m.action] = "pressKey" /\ m.step = 2 => m.kind = "keyUp"
        /\ batch[m.by][m.action] = "intercept" /\ m.step = 2 => m.kind = "enableFetchPatterns"
    BY MessageAction, ScriptsAre DEF Two
  <2>5. page'.button = "down" => HalfDone("clickAt")'
    BY <2>1, <2>2, <2>3, <2>4, HalfDoneBegins, HalfDoneCounted DEF PressedByAnAction
  <2>6. page'.key = "down" => HalfDone("pressKey")'
    BY <2>1, <2>2, <2>3, <2>4, HalfDoneBegins, HalfDoneCounted DEF PressedByAnAction
  <2>7. page'.fetch = "all" => HalfDone("intercept")'
    BY <2>1, <2>2, <2>3, <2>4, HalfDoneBegins, HalfDoneCounted DEF PressedByAnAction
  <2> QED
    BY <2>5, <2>6, <2>7 DEF PressedByAnAction
<1>3. ASSUME NEW m \in wire, Refuse(m)
      PROVE  PressedByAnAction'
  <2>1. UNCHANGED <<batch, page, results>>
    BY <1>3 DEF Refuse
  <2>2. \/ ran' = ran
        \/ /\ m.kind \in {"focus", "script", "evaluate", "measure", "look"}
           /\ ran' = [ran EXCEPT ![m.by][m.action] =
                          IF m.kind = "look" THEN <<m.step>> ELSE Append(@, m.step)]
    BY <1>3, RefuseEffect
  <2>3. CASE ran' = ran
    BY <2>1, <2>3 DEF PressedByAnAction, HalfDone
  <2>4. CASE ran' # ran
    <3>1. batch[m.by][m.action] \in {"clickAt", "pressKey", "intercept"} => m.step # 2
      BY <2>2, <2>4, MessageAction, ScriptsAre DEF Two
    <3> QED
      BY <2>1, <2>2, <2>4, <3>1, HalfDoneCounted DEF PressedByAnAction
  <2> QED
    BY <2>3, <2>4
<1>4. CASE Change
  <2>1. /\ batch' = batch /\ ran' = ran
        /\ page' \in Load(page) \cup {[page EXCEPT !.element = ~@, !.focused = FALSE],
                                      [page EXCEPT !.focused = FALSE]}
    BY <1>4 DEF Change
  <2>2. page \in PageState
    BY Parts DEF TypeOK
  <2>3. page'.button = page.button /\ page'.key = page.key /\ page'.fetch = page.fetch
    BY <2>1, <2>2, LoadType DEF PageState
  <2> QED
    BY <2>1, <2>3 DEF PressedByAnAction, HalfDone
<1>5. CASE UNCHANGED vars
  BY <1>5 DEF PressedByAnAction, HalfDone
<1> QED
  BY <1>1, <1>2, <1>3, <1>4, <1>5 DEF Next

-----------------------------------------------------------------------------
(* Whose the sessions are.                                                 *)

OwnedBy(c, s) ==
    \/ s \in handles[c]
    \/ Running(c) /\ Action(c) = "detach" /\ call[c].carry = s /\ reply[c].what # "done"
    \/ Running(c) /\ Action(c) = "attach" /\ reply[c].what = "done" /\ reply[c].value = s

SessionsOK(c) ==
    /\ \A s \in handles[c] : s <= page.attached
    /\ Running(c) /\ Action(c) = "detach" =>
          /\ call[c].carry <= page.attached
          /\ reply[c].what = "done" => call[c].carry \notin page.sessions
    /\ Running(c) /\ Action(c) = "attach" /\ reply[c].what = "done" =>
          reply[c].value <= page.attached

\* Whatever caller c loses of a session, an action cut short tells of.
OwnsStill(c) ==
    /\ SessionsOK(c)'
    /\ \A s \in page.sessions :
          OwnedBy(c, s) => OwnedBy(c, s)' \/ CutShort({"attach", "detach", "dropHandle"})'

LEMMA OtherOwns ==
  ASSUME CoreInv, NEW d \in Callers, Stays(d), handles'[d] = handles[d], batch' = batch,
         page' = page, SessionsOK(d)
  PROVE  OwnsStill(d)
BY DEF OwnsStill, OwnedBy, SessionsOK, Stays, Running, Action

LEMMA FailureOwns ==
  ASSUME CoreInv, NEW c \in Callers, Running(c) \/ ~Done(c),
         NEW r \in {"error", "deadline", "dropped"}, Finish(c, r), batch' = batch,
         handles'[c] \subseteq handles[c], Action(c) # "dropHandle" => handles'[c] = handles[c],
         page' = page, SessionsOK(c)
  PROVE  OwnsStill(c)
<1>1. /\ Len(results[c]) \in Nat /\ Len(results[c]) + 1 = call[c].at
      /\ Len(results'[c]) = Len(results[c]) + 1 /\ results'[c][Len(results[c]) + 1] = r
  <2>1. r \in {"ok", "error", "deadline", "dropped"}
    OBVIOUS
  <2> QED
    BY <2>1, ResultsStay, CurrentAction
<1>2. Action(c) \in {"attach", "detach", "dropHandle"} => CutShort({"attach", "detach", "dropHandle"})'
  <2>1. Len(results[c]) + 1 \in 1 .. Len(results'[c])
    BY <1>1
  <2> QED
    BY <1>1, <2>1 DEF CutShort, Action
<1>3. ~Running(c)'
  <2>1. r \in {"ok", "error", "deadline", "dropped"}
    OBVIOUS
  <2> QED
    BY <2>1, FinishEffect DEF Running
<1> QED
  BY <1>2, <1>3 DEF OwnsStill, OwnedBy, SessionsOK

LEMMA SuccessOwns ==
  ASSUME CoreInv, NEW c \in Callers, Running(c), Finish(c, "ok"), batch' = batch,
         handles' = handles, page' = page, SessionsOK(c),
         Action(c) # "attach", Action(c) = "detach" => reply[c].what = "done"
  PROVE  OwnsStill(c)
<1>1. ~Running(c)'
  BY FinishEffect DEF Running
<1> QED
  BY <1>1 DEF OwnsStill, OwnedBy, SessionsOK

\* An action that goes on keeps what it has.
LEMMA MovingOwns ==
  ASSUME CoreInv, NEW c \in Callers, batch' = batch, handles' = handles, page' = page,
         SessionsOK(c), call'[c].at = call[c].at, Running(c)',
         Action(c) = "detach" =>
            Running(c) /\ call'[c].carry = call[c].carry /\ reply'[c].what = reply[c].what,
         Action(c) = "attach" => reply'[c] = NoReply /\ reply[c] = NoReply
  PROVE  OwnsStill(c)
<1>1. Action(c)' = Action(c)
  BY DEF Action
<1> QED
  BY <1>1, NoReplyIsNone DEF OwnsStill, OwnedBy, SessionsOK

LEMMA BeginOwns ==
  ASSUME CoreInv, NEW c \in Callers, Begin(c), SessionsOK(c)
  PROVE  OwnsStill(c)
<1>1. /\ ~Running(c) /\ ~Done(c) /\ UNCHANGED <<batch, wire, reply, page, changes>>
      /\ Dispatch(c) /\ reply[c] = NoReply
  BY NoReplyAwaited DEF Begin, Running
<1>2. call \in [Callers -> CallState] /\ call[c] \in CallState /\ handles \in [Callers -> SUBSET Nat]
  BY Parts, Types DEF TypeOK
<1>3. CASE Finish(c, "error") /\ UNCHANGED handles
  BY <1>1, <1>3, FailureOwns
<1>4. ASSUME NEW pc \in {"sending", "sleeping"}, GoTo(c, pc), UNCHANGED handles,
             Action(c) # "detach"
      PROVE  OwnsStill(c)
  <2>1. call'[c].at = call[c].at /\ call'[c].pc = pc
    BY <1>2, <1>4 DEF GoTo, CallState
  <2>2. Running(c)'
    BY <2>1 DEF Running
  <2> QED
    BY <1>1, <1>4, <2>1, <2>2, MovingOwns
<1>5. ASSUME NEW s \in handles[c], Action(c) = "detach",
             handles' = [handles EXCEPT ![c] = @ \ {s}],
             call' = [call EXCEPT ![c].pc = "sending", ![c].carry = s]
      PROVE  OwnsStill(c)
  <2>1. /\ call'[c].at = call[c].at /\ call'[c].pc = "sending" /\ call'[c].carry = s
        /\ handles'[c] = handles[c] \ {s}
    BY <1>2, <1>5 DEF CallState
  <2>2. Running(c)' /\ Action(c)' = "detach"
    BY <1>1, <1>5, <2>1 DEF Running, Action
  <2> QED
    BY <1>1, <1>5, <2>1, <2>2, NoReplyIsNone DEF OwnsStill, OwnedBy, SessionsOK
<1>6. ASSUME NEW s \in handles[c], Action(c) = "dropHandle", Finish(c, "dropped"),
             handles' = [handles EXCEPT ![c] = @ \ {s}]
      PROVE  OwnsStill(c)
  <2>1. handles'[c] \subseteq handles[c]
    BY <1>2, <1>6
  <2> QED
    BY <1>1, <1>6, <2>1, FailureOwns
<1>7. Scripts["wait"] = << >>
  BY ScriptsAre
<1> QED
  BY <1>1, <1>3, <1>4, <1>5, <1>6, <1>7 DEF Dispatch

LEMMA ResumeOwns ==
  ASSUME CoreInv, NEW c \in Callers, Resume(c), SessionsOK(c)
  PROVE  OwnsStill(c)
<1>1. /\ call[c].pc = "awaiting" /\ reply[c] # NoReply /\ UNCHANGED <<batch, wire, browser>>
      /\ reply' = [reply EXCEPT ![c] = NoReply] /\ Running(c)
  BY DEF Resume, Running
<1>2. /\ Action(c) \in Actions /\ call[c].step \in 1 .. Len(Scripts[Action(c)])
      /\ Step(c) = Scripts[Action(c)][call[c].step]
      /\ Step(c) = "look" <=> Action(c) = "waitFor"
  BY <1>1, CurrentStep
<1>3. /\ Action(c) = "attach" => IsLastStep(c) /\ Step(c) = "attachToTarget"
      /\ Action(c) = "detach" => IsLastStep(c) /\ Step(c) = "detachFromTarget"
  <2>1. Action(c) \in {"attach", "detach"} => Len(Scripts[Action(c)]) = 1 /\ call[c].step = 1
    BY <1>2, ScriptsAre DEF One
  <2> QED
    BY <1>2, <2>1, ScriptsAre DEF One, IsLastStep
<1>4. Step(c) = "attachToTarget" => Action(c) = "attach"
  BY <1>2, Places
<1>5. /\ call \in [Callers -> CallState] /\ call[c] \in CallState /\ reply'[c] = NoReply
      /\ handles \in [Callers -> SUBSET Nat]
  BY <1>1, Parts, Types DEF TypeOK
<1>6. Answers(c) /\ Action(c) \in {"attach", "detach"} => reply[c].what = "done"
  BY <1>3 DEF Answers
<1>7. CASE ~Answers(c) /\ Finish(c, "error") /\ UNCHANGED handles
  BY <1>1, <1>7, FailureOwns
<1>8. CASE Answers(c) /\ Look(c)
  <2>1. Action(c) = "waitFor" /\ UNCHANGED handles
    BY <1>2, <1>8 DEF Look
  <2>2. CASE Finish(c, "ok")
    BY <1>1, <2>1, <2>2, SuccessOwns
  <2>3. CASE Finish(c, "deadline")
    BY <1>1, <2>1, <2>3, FailureOwns
  <2>4. CASE GoTo(c, "sleeping")
    <3>1. call'[c].at = call[c].at /\ call'[c].pc = "sleeping"
      BY <1>5, <2>4 DEF GoTo, CallState
    <3>2. Running(c)'
      BY <3>1 DEF Running
    <3> QED
      BY <1>1, <2>1, <3>1, <3>2, MovingOwns
  <2> QED
    BY <1>8, <2>2, <2>3, <2>4 DEF Look
<1>9. CASE Answers(c) /\ Proceed(c) /\ IsLastStep(c)
  <2>1. Finish(c, "ok")
    BY <1>9 DEF Proceed
  <2>2. CASE Action(c) = "attach"
    <3>1. reply[c].what = "done" /\ handles'[c] = handles[c] \cup {reply[c].value}
      BY <1>3, <1>5, <1>6, <1>9, <2>2 DEF Proceed
    <3>2. ~Running(c)'
      BY <1>1, <2>1, FinishEffect DEF Running
    <3> QED
      BY <1>1, <2>2, <3>1, <3>2 DEF OwnsStill, OwnedBy, SessionsOK
  <2>3. CASE Action(c) # "attach"
    <3>1. handles' = handles
      BY <1>4, <1>9, <2>3 DEF Proceed
    <3> QED
      BY <1>1, <1>6, <1>9, <2>1, <2>3, <3>1, SuccessOwns
  <2> QED
    BY <2>2, <2>3
<1>10. CASE Answers(c) /\ Proceed(c) /\ ~IsLastStep(c)
  <2>1. Action(c) \notin {"attach", "detach"}
    BY <1>3, <1>10
  <2>2. /\ handles' = handles
        /\ call' = [call EXCEPT ![c].pc = "sending", ![c].step = @ + 1,
                                ![c].carry = reply[c].value]
    BY <1>10 DEF Proceed
  <2>3. call'[c].at = call[c].at /\ call'[c].pc = "sending"
    BY <1>5, <2>2 DEF CallState
  <2>4. Running(c)'
    BY <2>3 DEF Running
  <2> QED
    BY <1>1, <2>1, <2>2, <2>3, <2>4, MovingOwns
<1> QED
  BY <1>7, <1>8, <1>9, <1>10 DEF Resume

LEMMA CallerOwns ==
  ASSUME CoreInv, NEW c \in Callers, Caller(c), SessionsOK(c)
  PROVE  OwnsStill(c)
<1>1. call \in [Callers -> CallState] /\ call[c] \in CallState
  BY Parts, Types DEF TypeOK
<1>2. CASE Skip(c)
  BY <1>2, FailureOwns DEF Skip
<1>3. CASE Send(c)
  <2>1. /\ call'[c].at = call[c].at /\ call'[c].pc = "awaiting" /\ call'[c].carry = call[c].carry
        /\ UNCHANGED <<batch, handles, page, reply>> /\ Running(c) /\ reply[c] = NoReply
    BY <1>1, <1>3, NoReplyAwaited DEF Send, GoTo, CallState, Running
  <2>2. Running(c)'
    BY <2>1 DEF Running
  <2> QED
    BY <2>1, <2>2, MovingOwns
<1>4. CASE GiveUp(c) \/ Drop(c)
  BY <1>4, FailureOwns DEF GiveUp, Drop, Running
<1>5. CASE DeadlinePasses(c)
  <2>1. /\ call'[c].at = call[c].at /\ call'[c].pc = call[c].pc
        /\ UNCHANGED <<batch, handles, page, reply>> /\ Running(c) /\ Action(c) = "waitFor"
    BY <1>1, <1>5 DEF DeadlinePasses, CallState
  <2>2. Running(c)'
    BY <2>1 DEF Running
  <2> QED
    BY <2>1, <2>2, MovingOwns
<1>6. CASE WakeUp(c)
  <2>1. /\ UNCHANGED <<batch, handles, page, reply>> /\ Running(c)
        /\ Action(c) \in {"wait", "waitFor"}
    BY <1>6 DEF WakeUp, Running
  <2>2. CASE Finish(c, "ok")
    BY <2>1, <2>2, SuccessOwns
  <2>3. CASE GoTo(c, "sending")
    <3>1. call'[c].at = call[c].at /\ call'[c].pc = "sending"
      BY <1>1, <2>3 DEF GoTo, CallState
    <3>2. Running(c)'
      BY <3>1 DEF Running
    <3> QED
      BY <2>1, <3>1, <3>2, MovingOwns
  <2> QED
    BY <1>6, <2>2, <2>3 DEF WakeUp
<1> QED
  BY <1>2, <1>3, <1>4, <1>5, <1>6, BeginOwns, ResumeOwns DEF Caller

LEMMA SessionsParts ==
  SessionsAreOwned <=>
     /\ \A s \in page.sessions :
           s <= page.attached
           /\ (CutShort({"attach", "detach", "dropHandle"}) \/ \E c \in Callers : OwnedBy(c, s))
     /\ \A c \in Callers : SessionsOK(c)
BY DEF SessionsAreOwned, Owned, OwnedBy, SessionsOK

LEMMA SessionsWhole ==
  ASSUME \A s \in page'.sessions :
            s <= page'.attached
            /\ (CutShort({"attach", "detach", "dropHandle"})' \/ \E c \in Callers : OwnedBy(c, s)'),
         \A c \in Callers : SessionsOK(c)'
  PROVE  SessionsAreOwned'
BY DEF SessionsAreOwned, Owned, OwnedBy, SessionsOK

LEMMA SessionsCaller ==
  ASSUME CoreInv, SessionsAreOwned, NEW c \in Callers, Caller(c)
  PROVE  SessionsAreOwned'
<1>1. UNCHANGED <<batch, page>> /\ \A d \in Callers : Kept(d)
  BY CallerLeaves, CallerKeeps
<1>2. CutShort({"attach", "detach", "dropHandle"}) => CutShort({"attach", "detach", "dropHandle"})'
  BY <1>1, CutShortStays
<1>3. \A d \in Callers : OwnsStill(d)
  <2> TAKE d \in Callers
  <2>1. SessionsOK(d)
    BY SessionsParts
  <2> QED
    BY <1>1, <2>1, CallerOwns, CallerLeaves, OtherOwns
<1>4. \A d \in Callers : SessionsOK(d)'
  BY <1>3 DEF OwnsStill
<1>5. \A s \in page'.sessions :
         s <= page'.attached
         /\ (CutShort({"attach", "detach", "dropHandle"})' \/ \E d \in Callers : OwnedBy(d, s)')
  BY <1>1, <1>2, <1>3, SessionsParts DEF OwnsStill
<1> QED
  BY <1>4, <1>5, SessionsWhole

\* The browser answers d, or does not.
LEMMA SessionsExecute ==
  ASSUME CoreInv, SessionsAreOwned, NEW m \in wire, Execute(m)
  PROVE  SessionsAreOwned'
<1>1. /\ UNCHANGED <<batch, call, results, handles>>
      /\ page' \in Effects(m, page) /\ page \in PageState
  BY Types, MessageAction DEF Execute
<1>2. PICK value \in Values(m, page) : Answer(m, "done", value)
  BY DEF Execute
<1>3. value \in Nat /\ (m.kind = "attachToTarget" => value = page.attached + 1)
  BY <1>1, ValueType
<1>4. /\ m.by \in Callers
      /\ \A d \in Callers \ {m.by} : reply'[d] = reply[d]
      /\ IsCurrent(m) => /\ reply'[m.by].what = "done" /\ reply'[m.by].value = value
                         /\ reply[m.by].what = "none"
      /\ ~IsCurrent(m) => reply' = reply
  <2>1. "done" \in {"done", "threw", "refused", "bad"}
    OBVIOUS
  <2>2. /\ \A d \in Callers \ {m.by} : reply'[d] = reply[d]
        /\ IsCurrent(m) => reply'[m.by] = [what |-> "done", value |-> value]
        /\ ~IsCurrent(m) => reply' = reply
    BY <1>2, <1>3, <2>1, AnswerEffect
  <2> QED
    BY <2>2, CurrentMessages, NoReplyIsNone
<1>5. /\ page'.sessions = CASE m.kind = "attachToTarget" -> page.sessions \cup {page.attached + 1}
                            [] m.kind = "detachFromTarget" -> page.sessions \ {m.argument}
                            [] OTHER -> page.sessions
      /\ page'.attached = IF m.kind = "attachToTarget" THEN page.attached + 1 ELSE page.attached
      /\ page.attached \in Nat /\ page.sessions \subseteq Nat
  <2>1. page.attached \in Nat /\ page.sessions \subseteq Nat
    BY <1>1 DEF PageState
  <2> QED
    BY <1>1, <2>1, EffectFields
<1>6. /\ m.kind = "attachToTarget" => batch[m.by][m.action] = "attach"
      /\ IsCurrent(m) /\ Action(m.by) = "attach" => m.kind = "attachToTarget"
      /\ IsCurrent(m) /\ Action(m.by) = "detach" =>
            m.kind = "detachFromTarget" /\ m.argument = call[m.by].carry
  <2>1. IsCurrent(m) /\ Action(m.by) = "detach" => m.argument = call[m.by].carry
    BY Parts DEF MessageOK, Argument
  <2> QED
    BY <2>1, MessageAction, Places, ScriptsAre DEF One
<1>7. \A d \in Callers : Running(d)' = Running(d) /\ Action(d)' = Action(d)
  BY <1>1 DEF Running, Action
<1>8. /\ \A s \in page.sessions : s <= page.attached
      /\ \A d \in Callers : SessionsOK(d)
      /\ \A s \in page.sessions :
            CutShort({"attach", "detach", "dropHandle"}) \/ \E d \in Callers : OwnedBy(d, s)
  BY SessionsParts
<1>9. ASSUME NEW d \in Callers
      PROVE  SessionsOK(d)'
  <2>1. SessionsOK(d) /\ call[d].carry \in Nat /\ handles[d] \subseteq Nat /\ reply[d].value \in Nat
    <3>1. reply[d].value \in Nat
      BY Types DEF ReplyState, NoReply
    <3> QED
      BY <1>8, <3>1, Types DEF CallState
  <2>2. \A s \in handles'[d] : s <= page'.attached
    BY <1>1, <1>5, <2>1 DEF SessionsOK
  <2>3. CASE d = m.by /\ IsCurrent(m)
    BY <1>1, <1>3, <1>4, <1>5, <1>6, <1>7, <2>1, <2>2, <2>3 DEF SessionsOK
  <2>4. CASE ~(d = m.by /\ IsCurrent(m))
    <3>1. reply'[d] = reply[d]
      BY <1>4, <2>4
    <3>2. \A s \in page'.sessions : s \in page.sessions \/ s = page.attached + 1
      BY <1>5
    <3> QED
      BY <1>1, <1>5, <1>7, <2>1, <2>2, <3>1, <3>2 DEF SessionsOK
  <2> QED
    BY <2>3, <2>4
<1>10. ASSUME NEW s \in page'.sessions
       PROVE  /\ s <= page'.attached
              /\ CutShort({"attach", "detach", "dropHandle"})' \/ \E d \in Callers : OwnedBy(d, s)'
  <2>1. CASE m.kind = "attachToTarget" /\ s = page.attached + 1
    <3>1. CASE IsCurrent(m)
      <4>1. Running(m.by) /\ Action(m.by) = "attach"
        BY <1>6, <2>1, <3>1, MessageAction DEF IsCurrent
      <4>2. OwnedBy(m.by, s)'
        BY <1>3, <1>4, <1>7, <2>1, <3>1, <4>1 DEF OwnedBy
      <4> QED
        BY <1>4, <1>5, <2>1, <4>2
    <3>2. CASE ~IsCurrent(m)
      <4>1. CutShort({"attach", "detach", "dropHandle"})'
        BY <1>1, <1>6, <2>1, <3>2, MessageAction DEF CutShort
      <4> QED
        BY <1>5, <2>1, <4>1
    <3> QED
      BY <3>1, <3>2
  <2>2. CASE s \in page.sessions
    <3>1. s <= page'.attached
      BY <1>5, <1>8, <2>2
    <3>2. ASSUME NEW d \in Callers, OwnedBy(d, s)
          PROVE  OwnedBy(d, s)'
      <4>1. CASE d = m.by /\ IsCurrent(m)
        <5>1. s \in handles[d] \/ (Action(d) = "detach" /\ call[d].carry = s)
          BY <1>4, <3>2, <4>1 DEF OwnedBy
        <5>2. ~(Action(d) = "detach" /\ call[d].carry = s)
          BY <1>5, <1>6, <4>1
        <5> QED
          BY <1>1, <5>1, <5>2 DEF OwnedBy
      <4>2. CASE ~(d = m.by /\ IsCurrent(m))
        <5>1. reply'[d] = reply[d]
          BY <1>4, <4>2
        <5> QED
          BY <1>1, <1>7, <3>2, <5>1 DEF OwnedBy
      <4> QED
        BY <4>1, <4>2
    <3>3. CutShort({"attach", "detach", "dropHandle"}) => CutShort({"attach", "detach", "dropHandle"})'
      BY <1>1 DEF CutShort
    <3> QED
      BY <1>8, <2>2, <3>1, <3>2, <3>3
  <2> QED
    BY <1>5, <2>1, <2>2
<1> QED
  BY <1>9, <1>10, SessionsWhole

LEMMA SessionsRefuse ==
  ASSUME CoreInv, SessionsAreOwned, NEW m \in wire, Refuse(m)
  PROVE  SessionsAreOwned'
<1>1. UNCHANGED <<batch, call, results, handles, page>>
  BY DEF Refuse
<1>2. PICK what \in {"threw", "refused", "bad"} : Answer(m, what, 0)
  BY RefuseEffect
<1>3. /\ m.by \in Callers
      /\ \A d \in Callers \ {m.by} : reply'[d] = reply[d]
      /\ IsCurrent(m) => reply'[m.by].what # "done" /\ reply[m.by].what # "done"
      /\ ~IsCurrent(m) => reply' = reply
  <2>1. what \in {"done", "threw", "refused", "bad"} /\ 0 \in Nat
    OBVIOUS
  <2>2. /\ \A d \in Callers \ {m.by} : reply'[d] = reply[d]
        /\ IsCurrent(m) => reply'[m.by] = [what |-> what, value |-> 0]
        /\ ~IsCurrent(m) => reply' = reply
    BY <1>2, <2>1, AnswerEffect
  <2> QED
    BY <2>2, CurrentMessages, NoReplyIsNone
<1>4. \A d \in Callers : reply'[d] = reply[d] \/ (reply'[d].what # "done" /\ reply[d].what # "done")
  BY <1>3
<1>5. \A d \in Callers : Running(d)' = Running(d) /\ Action(d)' = Action(d)
  BY <1>1 DEF Running, Action
<1>6. \A d \in Callers : SessionsOK(d) => SessionsOK(d)'
  BY <1>1, <1>4, <1>5 DEF SessionsOK
<1>7. \A d \in Callers, s \in page.sessions : OwnedBy(d, s) => OwnedBy(d, s)'
  BY <1>1, <1>4, <1>5 DEF OwnedBy
<1>8. CutShort({"attach", "detach", "dropHandle"}) => CutShort({"attach", "detach", "dropHandle"})'
  BY <1>1 DEF CutShort
<1> QED
  BY <1>1, <1>6, <1>7, <1>8, SessionsParts, SessionsWhole

LEMMA SessionsStep ==
  ASSUME CoreInv, SessionsAreOwned, [Next]_vars
  PROVE  SessionsAreOwned'
<1>1. CASE Change
  <2>1. /\ UNCHANGED <<batch, call, results, handles, reply>>
        /\ page' \in Load(page) \cup {[page EXCEPT !.element = ~@, !.focused = FALSE],
                                      [page EXCEPT !.focused = FALSE]}
    BY <1>1 DEF Change
  <2>2. page'.sessions = page.sessions /\ page'.attached = page.attached
    <3>1. page \in PageState
      BY Parts DEF TypeOK
    <3> QED
      BY <2>1, <3>1, LoadType DEF PageState
  <2> QED
    BY <2>1, <2>2 DEF SessionsAreOwned, Owned, CutShort, Running, Action
<1>2. CASE UNCHANGED vars
  BY <1>2 DEF SessionsAreOwned, Owned, CutShort, Running, Action
<1> QED
  BY <1>1, <1>2, SessionsCaller, SessionsExecute, SessionsRefuse DEF Next

LEMMA RemainsInit ==
  ASSUME Init
  PROVE  PressedByAnAction /\ SessionsAreOwned
<1>1. /\ page.button = "up" /\ page.key = "up" /\ page.fetch = "off" /\ page.sessions = {}
      /\ \A c \in Callers : handles[c] = {} /\ call[c] = Idle
  BY DEF Init
<1> QED
  BY <1>1 DEF PressedByAnAction, SessionsAreOwned, Running, Idle

\* An action that is half done and over was cut in the middle.
LEMMA HalfDoneIsCut ==
  ASSUME CoreInv, NEW action \in Actions, Len(Scripts[action]) = 2, HalfDone(action),
         \A c \in Callers : ~Running(c)
  PROVE  CutInTheMiddle(action)
<1>1. PICK c \in Callers : \E i \in 1 .. Len(ran[c]) :
         batch[c][i] = action /\ Len(ran[c][i]) = 1
  BY DEF HalfDone
<1>2. PICK i \in 1 .. Len(ran[c]) : batch[c][i] = action /\ Len(ran[c][i]) = 1
  BY <1>1
<1>3. CallerOK(c) /\ Len(results[c]) \in Nat /\ call[c].at \in Nat
  BY Parts, Types DEF CallState
<1>4. i \in 1 .. Len(results[c])
  BY <1>2, <1>3 DEF CallerOK, Rows
<1>5. results[c][i] # "ok"
  <2>1. RowOK(c, i) /\ i <= Len(results[c])
    BY <1>2, <1>3, <1>4 DEF CallerOK
  <2>2. results[c][i] = "ok" => Len(ran[c][i]) = Len(Scripts[batch[c][i]])
    BY <2>1 DEF RowOK
  <2> QED
    BY <1>2, <2>2
<1> QED
  BY <1>2, <1>4, <1>5 DEF CutInTheMiddle

LEMMA RemainsAreCaused ==
  ASSUME CoreInv, PressedByAnAction, SessionsAreOwned
  PROVE  RemainsHaveACause
<1> SUFFICES ASSUME \A c \in Callers : Done(c)
             PROVE  /\ page.button = "down" => CutInTheMiddle("clickAt")
                    /\ page.key = "down" => CutInTheMiddle("pressKey")
                    /\ page.fetch = "all" => CutInTheMiddle("intercept")
                    /\ page.sessions \subseteq UNION {handles[c] : c \in Callers}
                       \/ CutShort({"attach", "detach", "dropHandle"})
  BY DEF RemainsHaveACause
<1>1. \A c \in Callers : ~Running(c)
  <2> TAKE c \in Callers
  <2>1. Rows(c) /\ Len(batch[c]) \in Nat /\ call[c].at \in Nat
    BY Parts, Types DEF CallerOK, CallState
  <2> QED
    BY <2>1 DEF Rows, Done
<1>2. /\ {"clickAt", "pressKey", "intercept"} \subseteq Actions
      /\ Len(Scripts["clickAt"]) = 2 /\ Len(Scripts["pressKey"]) = 2
      /\ Len(Scripts["intercept"]) = 2
  BY ScriptsAre DEF Actions, Scripts, Two
<1>3. page.button = "down" => CutInTheMiddle("clickAt")
  BY <1>1, <1>2, HalfDoneIsCut DEF PressedByAnAction
<1>4. page.key = "down" => CutInTheMiddle("pressKey")
  BY <1>1, <1>2, HalfDoneIsCut DEF PressedByAnAction
<1>5. page.fetch = "all" => CutInTheMiddle("intercept")
  BY <1>1, <1>2, HalfDoneIsCut DEF PressedByAnAction
<1>6. page.sessions \subseteq UNION {handles[c] : c \in Callers} \/ CutShort({"attach", "detach", "dropHandle"})
  BY <1>1 DEF SessionsAreOwned, Owned
<1> QED
  BY <1>3, <1>4, <1>5, <1>6

-----------------------------------------------------------------------------
(* What wait_for_selector has seen.                                        *)

PollOK(c) ==
    /\ Running(c) /\ Action(c) = "waitFor" =>
          /\ reply[c].what = "done" => IF reply[c].value = 1 THEN TRUE \in view[c].looked
                                                             ELSE FALSE \in view[c].looked
          /\ reply[c].what = "threw" => view[c].threw
    /\ Ended(c) /\ LastAction(c) = "waitFor" =>
          /\ Last(c) = "ok" => TRUE \in view[c].looked
          /\ Last(c) = "deadline" => FALSE \in view[c].looked \/ view[c].threw

LEMMA PollParts ==
  (PollsAreRight /\ WaitTellsTheTruth) <=> \A c \in Callers : PollOK(c)
BY DEF PollsAreRight, WaitTellsTheTruth, PollOK

LEMMA PollWhole ==
  ASSUME \A c \in Callers : PollOK(c)'
  PROVE  PollsAreRight' /\ WaitTellsTheTruth'
BY DEF PollsAreRight, WaitTellsTheTruth, PollOK

LEMMA PollStays ==
  ASSUME NEW d \in Callers, PollOK(d), batch' = batch, Stays(d), view'[d] = view[d]
  PROVE  PollOK(d)'
BY DEF PollOK, Stays, Running, Action, Ended, Last, LastAction

\* What a caller says of the action it ends.
LEMMA LastIsFinished ==
  ASSUME CoreInv, NEW c \in Callers, Running(c) \/ ~Done(c),
         NEW r \in {"ok", "error", "deadline", "dropped"}, Finish(c, r), batch' = batch
  PROVE  ~Running(c)' /\ Last(c)' = r /\ LastAction(c)' = Action(c)
<1>1. /\ Len(results'[c]) = Len(results[c]) + 1 /\ results'[c][Len(results[c]) + 1] = r
      /\ Len(results[c]) + 1 = call[c].at /\ call'[c].pc = "ready"
  BY ResultsStay, FinishEffect, CurrentAction
<1> QED
  BY <1>1 DEF Running, Last, LastAction, Action

LEMMA PollEnds ==
  ASSUME CoreInv, NEW c \in Callers, Running(c) \/ ~Done(c),
         NEW r \in {"ok", "error", "deadline", "dropped"}, Finish(c, r), batch' = batch,
         r \in {"error", "dropped"} \/ Action(c) # "waitFor"
  PROVE  PollOK(c)'
BY LastIsFinished DEF PollOK

\* An action without an answer has nothing to say yet.
LEMMA PollMoves ==
  ASSUME NEW c \in Callers, Running(c)', reply'[c] = NoReply
  PROVE  PollOK(c)'
BY NoReplyIsNone DEF PollOK, Ended

LEMMA PollResumes ==
  ASSUME CoreInv, NEW c \in Callers, PollOK(c), Resume(c)
  PROVE  PollOK(c)'
<1>1. /\ call[c].pc = "awaiting" /\ reply[c] # NoReply /\ UNCHANGED <<batch, wire, browser>>
      /\ reply' = [reply EXCEPT ![c] = NoReply] /\ Running(c)
  BY DEF Resume, Running
<1>2. /\ call \in [Callers -> CallState] /\ call[c] \in CallState /\ reply'[c] = NoReply
  BY <1>1, Parts, Types DEF TypeOK
<1>3. Step(c) = "look" <=> Action(c) = "waitFor"
  BY <1>1, CurrentStep
<1>4. CASE Finish(c, "error")
  BY <1>1, <1>4, PollEnds
<1>5. CASE Answers(c) /\ Look(c)
  <2>1. Action(c) = "waitFor" /\ reply[c].what \in {"done", "threw"}
    BY <1>3, <1>5 DEF Look, Answers
  <2>2. CASE Found(c) /\ Finish(c, "ok")
    BY <1>1, <2>1, <2>2, LastIsFinished DEF PollOK, Found
  <2>3. CASE ~Found(c) /\ Finish(c, "deadline")
    BY <1>1, <2>1, <2>3, LastIsFinished DEF PollOK, Found
  <2>4. CASE GoTo(c, "sleeping")
    <3>1. Running(c)'
      BY <1>2, <2>4 DEF GoTo, CallState, Running
    <3> QED
      BY <1>2, <3>1, PollMoves
  <2> QED
    BY <1>5, <2>2, <2>3, <2>4 DEF Look
<1>6. CASE Proceed(c) /\ IsLastStep(c)
  BY <1>1, <1>3, <1>6, PollEnds DEF Proceed
<1>7. CASE Proceed(c) /\ ~IsLastStep(c)
  <2>1. Running(c)'
    BY <1>2, <1>7 DEF Proceed, CallState, Running
  <2> QED
    BY <1>2, <2>1, PollMoves
<1> QED
  BY <1>4, <1>5, <1>6, <1>7 DEF Resume

LEMMA PollCaller ==
  ASSUME CoreInv, NEW c \in Callers, PollOK(c), Caller(c)
  PROVE  PollOK(c)'
<1>1. call \in [Callers -> CallState] /\ call[c] \in CallState
  BY Parts, Types DEF TypeOK
<1>2. CASE Begin(c)
  <2>1. ~Running(c) /\ ~Done(c) /\ UNCHANGED <<batch, reply>> /\ reply[c] = NoReply /\ Dispatch(c)
    BY <1>2, NoReplyAwaited DEF Begin, Running
  <2>2. CASE Finish(c, "error") \/ Finish(c, "dropped")
    BY <2>1, <2>2, PollEnds
  <2>3. CASE ~(Finish(c, "error") \/ Finish(c, "dropped"))
    <3>1. call'[c].pc \in {"sending", "sleeping"}
      BY <1>1, <2>1, <2>3 DEF Dispatch, GoTo, CallState
    <3>2. Running(c)'
      BY <3>1 DEF Running
    <3> QED
      BY <2>1, <3>2, PollMoves
  <2> QED
    BY <2>2, <2>3
<1>3. CASE Skip(c)
  BY <1>3, PollEnds DEF Skip
<1>4. CASE Send(c)
  <2>1. call'[c].pc = "awaiting" /\ reply' = reply /\ reply[c] = NoReply
    BY <1>1, <1>4, NoReplyAwaited DEF Send, GoTo, CallState
  <2> QED
    BY <2>1, PollMoves DEF Running
<1>5. CASE GiveUp(c) \/ Drop(c)
  BY <1>5, PollEnds DEF GiveUp, Drop, Running
<1>6. CASE DeadlinePasses(c)
  <2>1. /\ call'[c].pc = call[c].pc /\ call'[c].at = call[c].at
        /\ UNCHANGED <<batch, results, reply, view>> /\ Running(c)
    BY <1>1, <1>6 DEF DeadlinePasses, CallState
  <2>2. Running(c)' /\ Action(c)' = Action(c)
    BY <2>1 DEF Running, Action
  <2> QED
    BY <2>1, <2>2 DEF PollOK, Ended
<1>7. CASE WakeUp(c)
  <2>1. Running(c) /\ UNCHANGED <<batch, reply>> /\ reply[c] = NoReply
    BY <1>7, NoReplyAwaited DEF WakeUp, Running
  <2>2. CASE Action(c) = "wait" /\ Finish(c, "ok")
    BY <2>1, <2>2, PollEnds
  <2>3. CASE GoTo(c, "sending")
    <3>1. Running(c)'
      BY <1>1, <2>3 DEF GoTo, CallState, Running
    <3> QED
      BY <2>1, <3>1, PollMoves
  <2> QED
    BY <1>7, <2>2, <2>3 DEF WakeUp
<1> QED
  BY <1>2, <1>3, <1>4, <1>5, <1>6, <1>7, PollResumes DEF Caller

\* What a caller has looked at stays looked at.
LEMMA PollBrowser ==
  ASSUME NEW d \in Callers, PollOK(d), UNCHANGED <<batch, call, results>>,
         view[d].looked \subseteq view'[d].looked, view[d].threw => view'[d].threw,
         \/ reply'[d] = reply[d]
         \/ reply'[d].what \in {"refused", "bad"}
         \/ reply'[d].what = "threw" /\ view'[d].threw
         \/ /\ Running(d) /\ Action(d) = "waitFor" => reply'[d].what = "done"
            /\ Running(d) /\ Action(d) = "waitFor" =>
                  (IF reply'[d].value = 1 THEN TRUE \in view'[d].looked
                                          ELSE FALSE \in view'[d].looked)
  PROVE  PollOK(d)'
<1>1. /\ Running(d)' = Running(d) /\ Action(d)' = Action(d) /\ Ended(d)' = Ended(d)
      /\ LastAction(d)' = LastAction(d) /\ Last(d)' = Last(d)
  BY DEF Running, Action, Ended, LastAction, Last
<1> QED
  BY <1>1 DEF PollOK

LEMMA SeenFields ==
  ASSUME NEW c \in Callers, NEW m, view[c] \in ViewState,
         view'[c] = Seen(view[c], c, m, page, page')
  PROVE  /\ view'[c].threw = view[c].threw
         /\ view'[c].looked = IF Running(c) THEN view[c].looked \cup {page'.element}
                                            ELSE view[c].looked
         /\ view'[c].alone => view[c].alone /\ ((IsCurrent(m) /\ m.by = c) \/ page = page')
         /\ IF IsCurrent(m) /\ m.by = c
            THEN /\ view'[c].present = IF m.kind = "focus" THEN page.element ELSE view[c].present
                 /\ view'[c].right =
                       CASE m.kind = "insertText" -> page.focused
                         [] m.kind = "capture" -> page.viewport >= Size(page.document)
                         [] OTHER -> view[c].right
            ELSE view'[c].present = view[c].present /\ view'[c].right = view[c].right
<1> DEFINE own == IsCurrent(m) /\ m.by = c
           alone == view[c].alone /\ (own \/ page = page')
           looked == IF Running(c) THEN view[c].looked \cup {page'.element} ELSE view[c].looked
           present == IF own /\ m.kind = "focus" THEN page.element ELSE view[c].present
           right == CASE own /\ m.kind = "insertText" -> page.focused
                      [] own /\ m.kind = "capture" -> page.viewport >= Size(page.document)
                      [] OTHER -> view[c].right
<1>1. view'[c] = [view[c] EXCEPT !.alone = alone, !.looked = looked, !.present = present,
                                 !.right = right]
  BY DEF Seen
<1>2. view'[c].threw = view[c].threw /\ view'[c].looked = looked /\ view'[c].alone = alone
      /\ view'[c].present = present /\ view'[c].right = right
  <2> HIDE DEF own, alone, looked, present, right
  <2> QED
    BY <1>1, Zenon DEF ViewState
<1> QED
  BY <1>2

\* The answer to a command carried out, and what its caller has seen.
LEMMA Executed ==
  ASSUME CoreInv, NEW m \in wire, Execute(m)
  PROVE  /\ UNCHANGED <<batch, call, results, handles>> /\ page \in PageState
         /\ page' \in Effects(m, page) /\ page' \in PageState
         /\ \A c \in Callers : view'[c] = Seen(view[c], c, m, page, page')
         /\ m.by \in Callers
         /\ \E value \in Values(m, page) :
               IsCurrent(m) => reply'[m.by] = [what |-> "done", value |-> value]
         /\ \A d \in Callers : d # m.by \/ ~IsCurrent(m) => reply'[d] = reply[d]
<1>1. PICK value \in Values(m, page) : Answer(m, "done", value)
  BY DEF Execute
<1>2. page \in PageState /\ m.by \in Callers /\ m.argument \in Nat
  BY Types, CurrentMessages
<1>3. value \in Nat /\ page' \in PageState
  BY <1>2, ValueType, EffectType DEF Execute
<1>4. "done" \in {"done", "threw", "refused", "bad"}
  OBVIOUS
<1>5. /\ \A d \in Callers \ {m.by} : reply'[d] = reply[d]
      /\ IsCurrent(m) => reply'[m.by] = [what |-> "done", value |-> value]
      /\ ~IsCurrent(m) => reply' = reply
  BY <1>1, <1>3, <1>4, AnswerEffect
<1> QED
  BY <1>2, <1>3, <1>5 DEF Execute

\* The answer to a command that is not carried out, or throws.
LEMMA Refused ==
  ASSUME CoreInv, NEW m \in wire, Refuse(m)
  PROVE  /\ UNCHANGED <<batch, call, results, handles, page>> /\ m.by \in Callers
         /\ \E what \in {"threw", "refused", "bad"} :
               /\ IsCurrent(m) => reply'[m.by] = [what |-> what, value |-> 0]
               /\ what = "threw" =>
                     m.kind \in {"focus", "script", "evaluate", "measure", "look"}
               /\ view' = IF what = "threw" /\ IsCurrent(m)
                          THEN [view EXCEPT ![m.by].threw = TRUE] ELSE view
         /\ \A d \in Callers : d # m.by \/ ~IsCurrent(m) => reply'[d] = reply[d]
<1>1. PICK what \in {"threw", "refused", "bad"} :
         /\ Answer(m, what, 0)
         /\ view' = IF what = "threw" /\ IsCurrent(m)
                    THEN [view EXCEPT ![m.by].threw = TRUE] ELSE view
         /\ what = "threw" => m.kind \in {"focus", "script", "evaluate", "measure", "look"}
  BY RefuseEffect
<1>2. what \in {"done", "threw", "refused", "bad"} /\ 0 \in Nat /\ m.by \in Callers
  BY CurrentMessages
<1>3. /\ \A d \in Callers \ {m.by} : reply'[d] = reply[d]
      /\ IsCurrent(m) => reply'[m.by] = [what |-> what, value |-> 0]
      /\ ~IsCurrent(m) => reply' = reply
  BY <1>1, <1>2, AnswerEffect
<1> QED
  BY <1>1, <1>2, <1>3 DEF Refuse

\* A look sees the element, or does not, as the page is.
LEMMA PollExecute ==
  ASSUME CoreInv, NEW m \in wire, Execute(m), NEW d \in Callers, PollOK(d)
  PROVE  PollOK(d)'
<1>1. PICK value \in Values(m, page) :
         IsCurrent(m) => reply'[m.by] = [what |-> "done", value |-> value]
  BY Executed
<1>2. /\ UNCHANGED <<batch, call, results>> /\ page \in PageState /\ page' \in Effects(m, page)
      /\ view'[d] = Seen(view[d], d, m, page, page') /\ view[d] \in ViewState
      /\ d # m.by \/ ~IsCurrent(m) => reply'[d] = reply[d]
  BY Executed, Types
<1>3. /\ view[d].looked \subseteq view'[d].looked /\ view'[d].threw = view[d].threw
      /\ Running(d) => page'.element \in view'[d].looked
  <2>1. /\ view'[d].threw = view[d].threw
        /\ view'[d].looked = IF Running(d) THEN view[d].looked \cup {page'.element}
                                           ELSE view[d].looked
    BY <1>2, SeenFields
  <2> QED
    BY <2>1
<1>4. CASE d # m.by \/ ~IsCurrent(m)
  BY <1>2, <1>3, <1>4, PollBrowser
<1>5. CASE d = m.by /\ IsCurrent(m)
  <2>1. reply'[d].what = "done" /\ reply'[d].value = value
    BY <1>1, <1>5
  <2>2. ASSUME Running(d), Action(d) = "waitFor"
        PROVE  IF reply'[d].value = 1 THEN TRUE \in view'[d].looked
                                      ELSE FALSE \in view'[d].looked
    <3>1. m.kind = "look"
      BY <1>5, <2>2, MessageAction, ScriptsAre DEF One
    <3>2. page' = page
      BY <1>2, <3>1, EffectCases
    <3>3. value = IF page.element THEN 1 ELSE 0
      BY <1>2, <3>1, ValueType
    <3>4. page.element \in view'[d].looked
      BY <1>3, <2>2, <3>2
    <3>5. page.element = TRUE \/ page.element = FALSE
      BY <1>2 DEF PageState
    <3>6. CASE page.element = TRUE
      BY <2>1, <3>3, <3>4, <3>6
    <3>7. CASE page.element = FALSE
      <4>1. FALSE \in view'[d].looked
        BY <3>4, <3>7, Zenon
      <4>2. value = 0
        BY <3>3, <3>7
      <4>3. reply'[d].value # 1
        BY <2>1, <4>2
      <4> QED
        BY <4>1, <4>3, Zenon
    <3> QED
      BY <3>5, <3>6, <3>7
  <2> QED
    BY <1>2, <1>3, <2>1, <2>2, PollBrowser
<1> QED
  BY <1>4, <1>5

LEMMA PollRefuse ==
  ASSUME CoreInv, NEW m \in wire, Refuse(m), NEW d \in Callers, PollOK(d)
  PROVE  PollOK(d)'
<1>1. PICK what \in {"threw", "refused", "bad"} :
         /\ IsCurrent(m) => reply'[m.by] = [what |-> what, value |-> 0]
         /\ view' = IF what = "threw" /\ IsCurrent(m)
                    THEN [view EXCEPT ![m.by].threw = TRUE] ELSE view
  BY Refused
<1>2. /\ UNCHANGED <<batch, call, results>> /\ m.by \in Callers
      /\ view \in [Callers -> ViewState]
      /\ d # m.by \/ ~IsCurrent(m) => reply'[d] = reply[d]
  BY Refused, Parts DEF TypeOK
<1>3. /\ view'[d].looked = view[d].looked
      /\ view[d].threw => view'[d].threw
      /\ what = "threw" /\ IsCurrent(m) /\ d = m.by => view'[d].threw
  BY <1>1, <1>2 DEF ViewState
<1>4. \/ reply'[d] = reply[d] \/ reply'[d].what \in {"refused", "bad"}
      \/ reply'[d].what = "threw" /\ view'[d].threw
  BY <1>1, <1>2, <1>3
<1> QED
  BY <1>2, <1>3, <1>4, PollBrowser

LEMMA PollChange ==
  ASSUME CoreInv, Change, NEW d \in Callers, PollOK(d)
  PROVE  PollOK(d)'
<1>1. /\ UNCHANGED <<batch, call, results, reply>> /\ view[d] \in ViewState
      /\ view'[d] = [view[d] EXCEPT !.alone = FALSE,
                                    !.looked = IF Running(d) THEN @ \cup {page'.element} ELSE @]
  BY Types DEF Change
<1>2. view[d].looked \subseteq view'[d].looked /\ view'[d].threw = view[d].threw
  BY <1>1 DEF ViewState
<1> QED
  BY <1>1, <1>2, PollBrowser

LEMMA PollStep ==
  ASSUME CoreInv, PollsAreRight, WaitTellsTheTruth, [Next]_vars
  PROVE  PollsAreRight' /\ WaitTellsTheTruth'
<1>1. ASSUME NEW d \in Callers
      PROVE  PollOK(d)'
  <2>1. PollOK(d)
    BY PollParts
  <2>2. ASSUME NEW c \in Callers, Caller(c)
        PROVE  PollOK(d)'
    BY <2>1, <2>2, PollCaller, CallerLeaves, PollStays
  <2>3. CASE UNCHANGED vars
    BY <2>1, <2>3, PollStays DEF Stays
  <2> QED
    BY <2>1, <2>2, <2>3, PollExecute, PollRefuse, PollChange DEF Next
<1> QED
  BY <1>1, PollWhole

LEMMA PollInit ==
  ASSUME Init
  PROVE  PollsAreRight /\ WaitTellsTheTruth
<1>1. \A c \in Callers : call[c] = Idle /\ results[c] = << >>
  BY DEF Init
<1> QED
  <2>1. \A c \in Callers : ~Running(c) /\ ~Ended(c)
    BY <1>1 DEF Running, Ended, Idle
  <2> QED
    BY <2>1 DEF PollsAreRight, WaitTellsTheTruth

-----------------------------------------------------------------------------
(* What an action that nothing disturbs comes to.                          *)

EnterAdvances(c) ==
    view[c].present =>
        /\ call[c].step = 2 \/ reply[c].what = "done" => page.focused
        /\ call[c].step = 2 /\ reply[c].what = "done" => view[c].right

ScreenshotAdvances(c) ==
    ~view[c].threw =>
        /\ reply[c].what # "threw"
        /\ call[c].step = 1 /\ reply[c].what = "done" => reply[c].value = Size(page.document)
        /\ call[c].step = 2 => call[c].carry = Size(page.document)
        /\ (call[c].step = 2 /\ reply[c].what = "done") \/ call[c].step = 3 =>
              page.viewport >= Size(page.document)
        /\ call[c].step = 3 /\ reply[c].what = "done" => view[c].right

UndisturbedOK(c) ==
    /\ Running(c) /\ view[c].alone =>
          /\ Action(c) = "enter" => EnterAdvances(c)
          /\ Action(c) = "screenshot" => ScreenshotAdvances(c)
    /\ Ended(c) /\ Last(c) = "ok" /\ view[c].alone =>
          /\ LastAction(c) = "screenshot" => view[c].right \/ view[c].threw
          /\ LastAction(c) = "enter" => view[c].right \/ ~view[c].present

LEMMA UndisturbedParts ==
  (UndisturbedActionsAdvance /\ UndisturbedActionsAreRight)
  <=> \A c \in Callers : UndisturbedOK(c)
BY DEF UndisturbedActionsAdvance, UndisturbedActionsAreRight, UndisturbedOK, EnterAdvances,
       ScreenshotAdvances

LEMMA UndisturbedWhole ==
  ASSUME \A c \in Callers : UndisturbedOK(c)'
  PROVE  UndisturbedActionsAdvance' /\ UndisturbedActionsAreRight'
BY DEF UndisturbedActionsAdvance, UndisturbedActionsAreRight, UndisturbedOK, EnterAdvances,
       ScreenshotAdvances

LEMMA UndisturbedStays ==
  ASSUME NEW d \in Callers, UndisturbedOK(d), batch' = batch, Stays(d), view'[d] = view[d],
         page' = page
  PROVE  UndisturbedOK(d)'
BY DEF UndisturbedOK, EnterAdvances, ScreenshotAdvances, Stays, Running, Action, Ended, Last,
       LastAction

\* Of other actions, and of failures, nothing is said.
LEMMA UndisturbedEnds ==
  ASSUME CoreInv, NEW c \in Callers, Running(c) \/ ~Done(c),
         NEW r \in {"ok", "error", "deadline", "dropped"}, Finish(c, r), batch' = batch,
         r # "ok" \/ Action(c) \notin {"enter", "screenshot"}
  PROVE  UndisturbedOK(c)'
BY LastIsFinished DEF UndisturbedOK

LEMMA UndisturbedOthers ==
  ASSUME NEW c \in Callers, Running(c)', Action(c)' \notin {"enter", "screenshot"}
  PROVE  UndisturbedOK(c)'
BY DEF UndisturbedOK, Ended

LEMMA UndisturbedBegins ==
  ASSUME CoreInv, NEW c \in Callers, Begin(c)
  PROVE  UndisturbedOK(c)'
<1>1. /\ ~Running(c) /\ ~Done(c) /\ UNCHANGED <<batch, reply>> /\ reply[c] = NoReply
      /\ Dispatch(c) /\ view' = [view EXCEPT ![c] = [FreshView EXCEPT !.looked = {page.element}]]
  BY NoReplyAwaited DEF Begin, Running
<1>2. /\ call \in [Callers -> CallState] /\ call[c] \in CallState /\ call[c].step = 1
      /\ view \in [Callers -> ViewState]
  BY <1>1, Parts, Types DEF TypeOK, CallerOK, Advance
<1>3. CASE Finish(c, "error") \/ Finish(c, "dropped")
  BY <1>1, <1>3, UndisturbedEnds
<1>4. CASE ~(Finish(c, "error") \/ Finish(c, "dropped"))
  <2>1. call'[c].pc \in {"sending", "sleeping"} /\ call'[c].step = 1
    BY <1>1, <1>2, <1>4 DEF Dispatch, GoTo, CallState
  <2>2. view'[c].present = FALSE
    BY <1>1, <1>2 DEF FreshView
  <2>3. Running(c)' /\ ~Ended(c)'
    BY <2>1 DEF Running, Ended
  <2>4. EnterAdvances(c)'
    BY <2>2 DEF EnterAdvances
  <2>5. ScreenshotAdvances(c)'
    BY <1>1, <2>1, NoReplyIsNone DEF ScreenshotAdvances
  <2> QED
    BY <2>3, <2>4, <2>5 DEF UndisturbedOK
<1> QED
  BY <1>3, <1>4

\* An action goes on from one command to the next, or succeeds.
LEMMA UndisturbedProceeds ==
  ASSUME CoreInv, NEW c \in Callers, UndisturbedOK(c), Resume(c), Answers(c), Proceed(c)
  PROVE  UndisturbedOK(c)'
<1>1. /\ call[c].pc = "awaiting" /\ reply[c] # NoReply /\ UNCHANGED <<batch, page, view>>
      /\ reply' = [reply EXCEPT ![c] = NoReply] /\ Running(c)
  BY DEF Resume, Running
<1>2. /\ call \in [Callers -> CallState] /\ call[c] \in CallState /\ reply'[c] = NoReply
  BY <1>1, Parts, Types DEF TypeOK
<1>3. /\ Action(c) \in Actions /\ call[c].step \in 1 .. Len(Scripts[Action(c)])
      /\ Step(c) = Scripts[Action(c)][call[c].step] /\ call[c].step \in Nat
  BY <1>1, CurrentStep, CurrentAction
<1>4. /\ Action(c) = "enter" => reply[c].what = "done" /\ call[c].step \in {1, 2}
                                /\ (IsLastStep(c) <=> call[c].step = 2)
      /\ Action(c) = "screenshot" => /\ call[c].step \in {1, 2, 3}
                                     /\ IsLastStep(c) <=> call[c].step = 3
                                     /\ reply[c].what = "threw" \/ reply[c].what = "done"
  <2>1. reply[c].what = "done" \/ (reply[c].what = "threw" /\ Step(c) \in {"measure", "look", "evaluate"})
    BY DEF Answers
  <2>2. CASE Action(c) = "enter"
    <3>1. call[c].step \in {1, 2} /\ Step(c) \in {"focus", "insertText"}
          /\ (IsLastStep(c) <=> call[c].step = 2)
      BY <1>3, <2>2, ScriptsAre DEF Two, IsLastStep
    <3> QED
      BY <2>1, <2>2, <3>1
  <2>3. CASE Action(c) = "screenshot"
    <3>1. call[c].step \in {1, 2, 3} /\ (IsLastStep(c) <=> call[c].step = 3)
      BY <1>3, <2>3, ScreenshotScript DEF IsLastStep
    <3> QED
      BY <2>1, <2>3, <3>1
  <2> QED
    BY <2>2, <2>3
<1>5. CASE Action(c) \notin {"enter", "screenshot"}
  <2>1. CASE IsLastStep(c)
    BY <1>1, <1>5, <2>1, UndisturbedEnds DEF Proceed
  <2>2. CASE ~IsLastStep(c)
    <3>1. call'[c].pc = "sending" /\ call'[c].at = call[c].at
      BY <1>2, <2>2 DEF Proceed, CallState
    <3>2. Running(c)' /\ Action(c)' = Action(c)
      BY <1>1, <3>1 DEF Running, Action
    <3> QED
      BY <1>5, <3>2, UndisturbedOthers
  <2> QED
    BY <2>1, <2>2
<1>6. CASE Action(c) \in {"enter", "screenshot"} /\ IsLastStep(c)
  <2>1. ~Running(c)' /\ Last(c)' = "ok" /\ LastAction(c)' = Action(c)
    BY <1>1, <1>6, LastIsFinished DEF Proceed
  <2>2. CASE Action(c) = "enter"
    BY <1>1, <1>4, <1>6, <2>1, <2>2 DEF UndisturbedOK, EnterAdvances
  <2>3. CASE Action(c) = "screenshot"
    BY <1>1, <1>4, <1>6, <2>1, <2>3 DEF UndisturbedOK, ScreenshotAdvances
  <2> QED
    BY <1>6, <2>2, <2>3
<1>7. CASE Action(c) \in {"enter", "screenshot"} /\ ~IsLastStep(c)
  <2>1. /\ call'[c].pc = "sending" /\ call'[c].at = call[c].at
        /\ call'[c].step = call[c].step + 1 /\ call'[c].carry = reply[c].value
    BY <1>2, <1>7 DEF Proceed, CallState
  <2>2. Running(c)' /\ Action(c)' = Action(c) /\ ~Ended(c)'
    BY <1>1, <2>1 DEF Running, Action, Ended
  <2>3. CASE Action(c) = "enter"
    <3>1. view[c].alone => EnterAdvances(c)'
      BY <1>1, <1>2, <1>4, <2>1, <2>3, NoReplyIsNone DEF UndisturbedOK, EnterAdvances
    <3> QED
      BY <1>1, <2>2, <2>3, <3>1 DEF UndisturbedOK
  <2>4. CASE Action(c) = "screenshot"
    <3>1. view[c].alone => ScreenshotAdvances(c)'
      BY <1>1, <1>2, <1>4, <1>7, <2>1, <2>4, NoReplyIsNone DEF UndisturbedOK, ScreenshotAdvances
    <3> QED
      BY <1>1, <2>2, <2>4, <3>1 DEF UndisturbedOK
  <2> QED
    BY <1>7, <2>3, <2>4
<1> QED
  BY <1>5, <1>6, <1>7

LEMMA UndisturbedCaller ==
  ASSUME CoreInv, NEW c \in Callers, UndisturbedOK(c), Caller(c)
  PROVE  UndisturbedOK(c)'
<1>1. call \in [Callers -> CallState] /\ call[c] \in CallState
  BY Parts, Types DEF TypeOK
<1>2. CASE Skip(c)
  BY <1>2, UndisturbedEnds DEF Skip
<1>3. CASE Send(c) \/ DeadlinePasses(c)
  <2>1. /\ call'[c].pc # "ready" /\ call'[c].at = call[c].at /\ call'[c].step = call[c].step
        /\ call'[c].carry = call[c].carry /\ Running(c)
        /\ UNCHANGED <<batch, reply, page, view>>
    BY <1>1, <1>3 DEF Send, DeadlinePasses, GoTo, CallState, Running
  <2>2. Running(c)' /\ Action(c)' = Action(c) /\ ~Ended(c)'
    BY <2>1 DEF Running, Action, Ended
  <2>3. EnterAdvances(c)' = EnterAdvances(c) /\ ScreenshotAdvances(c)' = ScreenshotAdvances(c)
    BY <2>1 DEF EnterAdvances, ScreenshotAdvances
  <2> QED
    BY <2>1, <2>2, <2>3 DEF UndisturbedOK
<1>4. CASE Resume(c)
  <2>1. /\ call[c].pc = "awaiting" /\ reply[c] # NoReply /\ batch' = batch /\ Running(c)
    BY <1>4 DEF Resume, Running
  <2>2. CASE Finish(c, "error")
    BY <2>1, <2>2, UndisturbedEnds
  <2>3. CASE Look(c)
    <3>1. Action(c) = "waitFor"
      BY <2>1, <2>3, CurrentStep DEF Look
    <3>2. CASE Finish(c, "ok") \/ Finish(c, "deadline")
      BY <2>1, <3>1, <3>2, UndisturbedEnds
    <3>3. CASE GoTo(c, "sleeping")
      <4>1. call'[c].pc = "sleeping" /\ call'[c].at = call[c].at
        BY <1>1, <3>3 DEF GoTo, CallState
      <4>2. Running(c)' /\ Action(c)' = "waitFor"
        BY <2>1, <3>1, <4>1 DEF Running, Action
      <4> QED
        BY <4>2, UndisturbedOthers
    <3> QED
      BY <2>3, <3>2, <3>3 DEF Look
  <2> QED
    BY <1>4, <2>2, <2>3, UndisturbedProceeds DEF Resume
<1>5. CASE GiveUp(c) \/ Drop(c)
  BY <1>5, UndisturbedEnds DEF GiveUp, Drop, Running
<1>6. CASE WakeUp(c)
  <2>1. Running(c) /\ batch' = batch /\ Action(c) \in {"wait", "waitFor"}
    BY <1>6 DEF WakeUp, Running
  <2>2. CASE Finish(c, "ok")
    BY <2>1, <2>2, UndisturbedEnds
  <2>3. CASE GoTo(c, "sending")
    <3>1. call'[c].pc = "sending" /\ call'[c].at = call[c].at
      BY <1>1, <2>3 DEF GoTo, CallState
    <3>2. Running(c)' /\ Action(c)' = Action(c)
      BY <2>1, <3>1 DEF Running, Action
    <3> QED
      BY <2>1, <3>2, UndisturbedOthers
  <2> QED
    BY <1>6, <2>2, <2>3 DEF WakeUp
<1> QED
  BY <1>2, <1>3, <1>4, <1>5, <1>6, UndisturbedBegins DEF Caller

\* The commands of the caller itself are carried out as its action needs them.
LEMMA EnterExecutes ==
  ASSUME CoreInv, NEW m \in wire, Execute(m), IsCurrent(m), Action(m.by) = "enter",
         view[m.by].alone => EnterAdvances(m.by), view'[m.by].alone
  PROVE  EnterAdvances(m.by)'
<1>1. /\ call[m.by].step = m.step /\ m.step \in {1, 2} /\ m.by \in Callers
      /\ m.step = 1 => m.kind = "focus"
      /\ m.step = 2 => m.kind = "insertText"
  BY MessageAction, CurrentMessages, ScriptsAre DEF Two
<1>2. /\ call' = call /\ page \in PageState /\ page' \in Effects(m, page)
      /\ view[m.by] \in ViewState
      /\ view'[m.by] = Seen(view[m.by], m.by, m, page, page')
  BY <1>1, Executed, Types
<1>3. /\ view[m.by].alone
      /\ view'[m.by].present = IF m.kind = "focus" THEN page.element ELSE view[m.by].present
      /\ m.kind = "insertText" => view'[m.by].right = page.focused
  BY <1>1, <1>2, SeenFields
<1>4. CASE m.step = 1
  <2>1. page' = [page EXCEPT !.focused = page.focused \/ page.element]
    BY <1>1, <1>2, <1>4, EffectCases
  <2>2. page.element => page'.focused
    BY <1>2, <2>1 DEF PageState
  <2>3. call'[m.by].step = 1
    BY <1>1, <1>2, <1>4
  <2> QED
    BY <1>1, <1>3, <1>4, <2>2, <2>3 DEF EnterAdvances
<1>5. CASE m.step = 2
  <2>1. page' = page
    BY <1>1, <1>2, <1>5, EffectCases
  <2>2. view[m.by].present => page.focused
    BY <1>1, <1>3, <1>5 DEF EnterAdvances
  <2> QED
    BY <1>1, <1>3, <1>5, <2>1, <2>2 DEF EnterAdvances
<1> QED
  BY <1>1, <1>4, <1>5

LEMMA ScreenshotExecutes ==
  ASSUME CoreInv, NEW m \in wire, Execute(m), IsCurrent(m), Action(m.by) = "screenshot",
         view[m.by].alone => ScreenshotAdvances(m.by), view'[m.by].alone
  PROVE  ScreenshotAdvances(m.by)'
<1>1. /\ call[m.by].step = m.step /\ m.step \in {1, 2, 3} /\ m.by \in Callers
      /\ m.step = 1 => m.kind = "measure"
      /\ m.step = 2 => m.kind = "setViewport"
      /\ m.step = 3 => m.kind = "capture"
      /\ m.argument = Argument(m.by) /\ m.step \in Nat /\ Running(m.by)
      /\ Step(m.by) = m.kind
  <2>1. MessageOK(m)
    BY Parts
  <2>2. /\ m.by \in Callers /\ m.step \in 1 .. 3 /\ call[m.by].step = m.step
        /\ call[m.by].at = m.action
    BY MessageAction, CurrentMessages, ScreenshotScript
  <2> QED
    BY <2>1, <2>2, MessageAction, ScreenshotScript DEF MessageOK, IsCurrent, Step, Action
<1>2. /\ call' = call /\ page \in PageState /\ page' \in Effects(m, page)
      /\ view[m.by] \in ViewState
      /\ view'[m.by] = Seen(view[m.by], m.by, m, page, page')
  BY <1>1, Executed, Types
<1>3. /\ view[m.by].alone /\ view'[m.by].threw = view[m.by].threw
      /\ m.kind = "capture" => view'[m.by].right = (page.viewport >= Size(page.document))
  BY <1>1, <1>2, SeenFields
<1>4. PICK value \in Values(m, page) : reply'[m.by] = [what |-> "done", value |-> value]
  BY Executed
<1>5. reply'[m.by].what = "done" /\ reply'[m.by].value = value
  BY <1>4
<1>6. CASE m.step = 1
  <2>1. page' = page
    BY <1>1, <1>2, <1>6, EffectCases
  <2>2. value = Size(page.document)
    BY <1>1, <1>2, <1>6, ValueType
  <2> QED
    BY <1>1, <1>2, <1>5, <1>6, <2>1, <2>2 DEF ScreenshotAdvances
<1>7. CASE m.step = 2
  <2>1. page' = [page EXCEPT !.viewport = m.argument]
    BY <1>1, <1>2, <1>7, EffectCases
  <2>2. page'.viewport = m.argument /\ page'.document = page.document
    BY <1>2, <2>1 DEF PageState
  <2>3. m.argument >= call[m.by].carry
    <3>1. call[m.by].carry \in Nat /\ FallbackViewport \in Nat
      BY <1>1, Types DEF CallState, FallbackViewport, Small
    <3>2. m.argument = Max({call[m.by].carry, FallbackViewport})
      BY <1>1, <1>7 DEF Argument
    <3> QED
      BY <3>1, <3>2, MaxType
  <2>4. ~view[m.by].threw => call[m.by].carry = Size(page.document)
    BY <1>1, <1>3, <1>7 DEF ScreenshotAdvances
  <2> QED
    BY <1>1, <1>2, <1>3, <1>5, <1>7, <2>2, <2>3, <2>4 DEF ScreenshotAdvances
<1>8. CASE m.step = 3
  <2>1. page' = page
    BY <1>1, <1>2, <1>8, EffectCases
  <2>2. ~view[m.by].threw => page.viewport >= Size(page.document)
    BY <1>1, <1>3, <1>8 DEF ScreenshotAdvances
  <2> QED
    BY <1>1, <1>2, <1>3, <1>5, <1>8, <2>1, <2>2 DEF ScreenshotAdvances
<1> QED
  BY <1>1, <1>6, <1>7, <1>8

LEMMA UndisturbedExecute ==
  ASSUME CoreInv, NEW m \in wire, Execute(m), NEW d \in Callers, UndisturbedOK(d)
  PROVE  UndisturbedOK(d)'
<1>1. /\ UNCHANGED <<batch, call, results>> /\ view[d] \in ViewState
      /\ view'[d] = Seen(view[d], d, m, page, page')
  BY Executed, Types
<1>2. /\ Running(d)' = Running(d) /\ Action(d)' = Action(d) /\ Ended(d)' = Ended(d)
      /\ LastAction(d)' = LastAction(d) /\ Last(d)' = Last(d)
  BY <1>1 DEF Running, Action, Ended, LastAction, Last
<1>3. CASE IsCurrent(m) /\ m.by = d
  <2>1. Running(d) /\ ~Ended(d)
    BY <1>3 DEF IsCurrent, Ended
  <2>2. view'[d].alone => view[d].alone
    BY <1>1, SeenFields
  <2>3. view'[d].alone /\ Action(d) = "enter" => EnterAdvances(d)'
    BY <1>3, <2>1, EnterExecutes DEF UndisturbedOK
  <2>4. view'[d].alone /\ Action(d) = "screenshot" => ScreenshotAdvances(d)'
    BY <1>3, <2>1, ScreenshotExecutes DEF UndisturbedOK
  <2> QED
    BY <1>2, <2>1, <2>3, <2>4 DEF UndisturbedOK
<1>4. CASE ~(IsCurrent(m) /\ m.by = d)
  <2>1. /\ reply'[d] = reply[d] /\ view'[d].threw = view[d].threw
        /\ view'[d].present = view[d].present /\ view'[d].right = view[d].right
        /\ view'[d].alone => view[d].alone /\ page' = page
    BY <1>1, <1>4, Executed, SeenFields
  <2>2. view'[d].alone => /\ EnterAdvances(d) => EnterAdvances(d)'
                          /\ ScreenshotAdvances(d) => ScreenshotAdvances(d)'
    BY <1>1, <2>1 DEF EnterAdvances, ScreenshotAdvances
  <2> QED
    BY <1>2, <2>1, <2>2 DEF UndisturbedOK
<1> QED
  BY <1>3, <1>4

LEMMA UndisturbedRefuse ==
  ASSUME CoreInv, NEW m \in wire, Refuse(m), NEW d \in Callers, UndisturbedOK(d)
  PROVE  UndisturbedOK(d)'
<1>1. PICK what \in {"threw", "refused", "bad"} :
         /\ IsCurrent(m) => reply'[m.by] = [what |-> what, value |-> 0]
         /\ what = "threw" => m.kind \in {"focus", "script", "evaluate", "measure", "look"}
         /\ view' = IF what = "threw" /\ IsCurrent(m)
                    THEN [view EXCEPT ![m.by].threw = TRUE] ELSE view
  BY Refused
<1>2. /\ UNCHANGED <<batch, call, results, page>> /\ m.by \in Callers
      /\ view \in [Callers -> ViewState]
      /\ d # m.by \/ ~IsCurrent(m) => reply'[d] = reply[d]
  BY Refused, Parts DEF TypeOK
<1>3. /\ Running(d)' = Running(d) /\ Action(d)' = Action(d) /\ Ended(d)' = Ended(d)
      /\ LastAction(d)' = LastAction(d) /\ Last(d)' = Last(d)
  BY <1>2 DEF Running, Action, Ended, LastAction, Last
<1>4. /\ view'[d].alone = view[d].alone /\ view'[d].present = view[d].present
      /\ view'[d].right = view[d].right
      /\ view[d].threw => view'[d].threw
      /\ IsCurrent(m) /\ m.by = d /\ what = "threw" => view'[d].threw
  BY <1>1, <1>2 DEF ViewState
<1>5. CASE IsCurrent(m) /\ m.by = d
  <2>1. /\ Running(d) /\ ~Ended(d)
        /\ reply'[d].what # "done" /\ (reply'[d].what = "threw" => view'[d].threw)
    BY <1>1, <1>4, <1>5 DEF IsCurrent, Ended
  <2>2. EnterAdvances(d) => EnterAdvances(d)'
    BY <1>2, <1>4, <2>1 DEF EnterAdvances
  <2>3. ScreenshotAdvances(d) => ScreenshotAdvances(d)'
    BY <1>2, <1>4, <2>1 DEF ScreenshotAdvances
  <2> QED
    BY <1>3, <1>4, <2>1, <2>2, <2>3 DEF UndisturbedOK
<1>6. CASE ~(IsCurrent(m) /\ m.by = d)
  <2>1. reply'[d] = reply[d] /\ view'[d] = view[d]
    BY <1>1, <1>2, <1>6
  <2> QED
    BY <1>2, <2>1, <1>3 DEF UndisturbedOK, EnterAdvances, ScreenshotAdvances
<1> QED
  BY <1>5, <1>6

LEMMA UndisturbedStep ==
  ASSUME CoreInv, UndisturbedActionsAdvance, UndisturbedActionsAreRight, [Next]_vars
  PROVE  UndisturbedActionsAdvance' /\ UndisturbedActionsAreRight'
<1>1. ASSUME NEW d \in Callers
      PROVE  UndisturbedOK(d)'
  <2>1. UndisturbedOK(d)
    BY UndisturbedParts
  <2>2. ASSUME NEW c \in Callers, Caller(c)
        PROVE  UndisturbedOK(d)'
    BY <2>1, <2>2, UndisturbedCaller, CallerLeaves, UndisturbedStays
  <2>3. CASE Change
    <3>1. view[d] \in ViewState
          /\ view'[d] = [view[d] EXCEPT !.alone = FALSE,
                            !.looked = IF Running(d) THEN @ \cup {page'.element} ELSE @]
      BY <2>3, Types DEF Change
    <3>2. ~view'[d].alone
      BY <3>1 DEF ViewState
    <3> QED
      BY <3>2 DEF UndisturbedOK
  <2>4. CASE UNCHANGED vars
    BY <2>1, <2>4, UndisturbedStays DEF Stays
  <2> QED
    BY <2>1, <2>2, <2>3, <2>4, UndisturbedExecute, UndisturbedRefuse DEF Next
<1> QED
  BY <1>1, UndisturbedWhole

LEMMA UndisturbedInit ==
  ASSUME Init
  PROVE  UndisturbedActionsAdvance /\ UndisturbedActionsAreRight
<1>1. \A c \in Callers : call[c] = Idle /\ results[c] = << >>
  BY DEF Init
<1>2. \A c \in Callers : ~Running(c) /\ ~Ended(c)
  BY <1>1 DEF Running, Ended, Idle
<1> QED
  BY <1>2 DEF UndisturbedActionsAdvance, UndisturbedActionsAreRight

-----------------------------------------------------------------------------
\* How far each action is, what of it has been carried out, what it left behind and
\* what it saw: every step of the callers and the browser keeps all of it right.
THEOREM InductiveInvariant == Spec => []OInv
<1>1. Init => OInv
  BY CoreInit, RemainsInit, PollInit, UndisturbedInit DEF OInv
<1>2. OInv /\ [Next]_vars => OInv'
  BY CoreStep, PressedStep, SessionsStep, PollStep, UndisturbedStep DEF OInv
<1> QED
  BY <1>1, <1>2, PTL DEF Spec

\* Every variable keeps its type: an argument is a number, a row has numbers only.
THEOREM TypeCorrect == Spec => []TypeOK
<1>1. OInv => TypeOK
  BY DEF OInv, CoreInv
<1> QED
  BY <1>1, InductiveInvariant, PTL

\* The commands of an action are carried out in the order of the code (client.rs,
\* page.rs, agent.rs), each at most once, and all of them if it is a success.
THEOREM SuccessMeansItWasDoneHolds == Spec => []SuccessMeansItWasDone
<1>1. OInv => SuccessMeansItWasDone
  BY DEF OInv, CoreInv
<1> QED
  BY <1>1, InductiveInvariant, PTL

\* Once the batches are over, a button or key still pressed and an interception of
\* every request were left by a click, a key press and an intercept that stopped
\* between their two commands (agent.rs:187-207, network.rs:83-92), and a session
\* without a handle by an attach, a detach or a handle cut short (session.rs:128-173):
\* by a failure, which was reported, or by a caller who dropped the future.
THEOREM RemainsHaveACauseHolds == Spec => []RemainsHaveACause
<1>1. OInv => RemainsHaveACause
  BY RemainsAreCaused DEF OInv
<1> QED
  BY <1>1, InductiveInvariant, PTL

\* A full-page screenshot that nothing disturbs shows the whole page, unless measuring
\* it threw, and text goes to the element if there was one to focus.
THEOREM UndisturbedActionsAreRightHolds == Spec => []UndisturbedActionsAreRight
<1>1. OInv => UndisturbedActionsAreRight
  BY DEF OInv
<1> QED
  BY <1>1, InductiveInvariant, PTL

\* wait_for_selector reports an element that was there at some time of the call, and
\* a missed deadline only if at some time it was not there or an evaluation threw.
THEOREM WaitTellsTheTruthHolds == Spec => []WaitTellsTheTruth
<1>1. OInv => WaitTellsTheTruth
  BY DEF OInv
<1> QED
  BY <1>1, InductiveInvariant, PTL
===============================================================================
