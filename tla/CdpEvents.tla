------------------------------- MODULE CdpEvents -------------------------------
(***************************************************************************)
(* The event path of CdpClient: the reader task publishes the browser's    *)
(* events on two broadcast channels, and wait_for_event of the client and  *)
(* of a session, navigate_and_wait and capture_console receive from them.  *)
(*                                                                         *)
(* A broadcast channel is a ring of Backlog slots that sends never block   *)
(* on: a receiver that falls behind is told it lagged and goes on with the *)
(* oldest event still there.  It is kept here as the log of all it was     *)
(* sent, each receiver at the position it reads next.  The receiver that   *)
(* capture_console returns is one of a third such channel, which its task  *)
(* fills, of ConsoleBacklog slots.                                         *)
(*                                                                         *)
(* Page.navigate is an open command of the service CommandService          *)
(* specifies: it settles with the browser's reply, or fails.               *)
(***************************************************************************)
EXTENDS Integers, Sequences, FiniteSets

CONSTANTS Watchers,    \* calls of wait_for_event, of the client or a session
          Navigators,  \* calls of navigate_and_wait
          Sessions,    \* attached sessions
          Main,        \* the target the client is connected to
          Backlog,     \* EVENT_BACKLOG
          ConsoleBacklog, \* CONSOLE_BACKLOG
          MaxEvents,   \* bound on the events the pages raise on their own
          NoOne        \* an event no navigate_and_wait caused; no event at all

Waiters == Watchers \cup Navigators
Targets == Sessions \cup {Main}
Methods == {"load", "console"}  \* Page.loadEventFired, Runtime.consoleAPICalled

ASSUME EventsAssumption ==
    /\ Watchers \cap Navigators = {}
    /\ Main \notin Sessions
    /\ Backlog \in Nat \ {0} /\ ConsoleBacklog \in Nat \ {0} /\ MaxEvents \in Nat
    /\ NoOne \notin Waiters

Event == [from : Targets, method : Methods, of : Navigators \cup {NoOne}]
Frame == Event \cup [to : Navigators, ok : BOOLEAN]

VARIABLES
    alive,      \* the CdpClient (and the agent that owns it) exists
    reader,     \* the reader task: "reading" or "ended"
    publishing, \* the event it still has to send on the second channel
    log,        \* what each channel was sent
    frames,     \* what the browser sent and the reader has not read
    raised,     \* how many events the pages raised on their own
    page,       \* each navigation in the browser: "none", "asked", "loading", "over"
    pc,         \* where each waiter is
    wish,       \* the target and method it waits for
    start, next, \* where its receiver started and what it reads next
    reply,      \* the reply to its Page.navigate: "none", "ok" or "refused"
    result,     \* why it returned; "event": with the last one it received
    capture,    \* the task of capture_console: "off", "on" or "ended"
    first, at,  \* where its receiver started and what it reads next
    captured,   \* what its channel was sent: positions of console calls
    read,       \* what the receiver it returned reads next of that
    got,        \* the calls it received
    missed,     \* how many it was told it missed
    heard       \* it was told that the channel is closed

client  == <<alive, reader, publishing, log>>
browser == <<frames, raised, page>>
waiters == <<pc, wish, start, next, reply, result>>
task    == <<capture, first, at, captured>>
consumer == <<read, got, missed, heard>>
console == <<task, consumer>>
vars    == <<client, browser, waiters, console>>

Channels == {"events", "session_events"}
Outcomes == {"none", "event", "timeout", "closed", "refused", "failed"}

TypeOK ==
    /\ alive \in BOOLEAN
    /\ reader \in {"reading", "ended"}
    /\ publishing \in Event \cup {NoOne}
    /\ log \in [Channels -> Seq(Event)]
    /\ frames \in Seq(Frame)
    /\ raised \in 0 .. MaxEvents
    /\ page \in [Navigators -> {"none", "asked", "loading", "over"}]
    /\ pc \in [Waiters -> {"idle", "subscribed", "navigating", "waiting", "done"}]
    /\ wish \in [Waiters -> [from : Targets, method : Methods]]
    /\ start \in [Waiters -> Nat] /\ next \in [Waiters -> Nat]
    /\ reply \in [Navigators -> {"none", "ok", "refused"}]
    /\ result \in [Waiters -> Outcomes]
    /\ capture \in {"off", "on", "ended"}
    /\ first \in Nat /\ at \in Nat
    /\ captured \in Seq(Nat) /\ got \in Seq(Nat)
    /\ read \in Nat \ {0} /\ missed \in Nat
    /\ heard \in BOOLEAN

Init ==
    /\ alive = TRUE
    /\ reader = "reading"
    /\ publishing = NoOne
    /\ log = [c \in Channels |-> << >>]
    /\ frames = << >>
    /\ raised = 0
    /\ page = [w \in Navigators |-> "none"]
    /\ pc = [w \in Waiters |-> "idle"]
    /\ wish = [w \in Waiters |-> [from |-> Main, method |-> "load"]]
    /\ start = [w \in Waiters |-> 0]
    /\ next = [w \in Waiters |-> 0]
    /\ reply = [w \in Navigators |-> "none"]
    /\ result = [w \in Waiters |-> "none"]
    /\ capture = "off"
    /\ first = 0
    /\ at = 0
    /\ captured = << >>
    /\ read = 1
    /\ got = << >>
    /\ missed = 0
    /\ heard = FALSE

-----------------------------------------------------------------------------
(* tokio::sync::broadcast.                                                 *)

\* subscribe: the receiver sees what is sent from now on.
End(c) == Len(log[c]) + 1

\* The oldest event still in the ring.
Oldest(c) == IF Len(log[c]) > Backlog THEN Len(log[c]) - Backlog + 1 ELSE 1

\* What recv at position n finds: RecvError::Lagged, an event, or nothing yet.
Lagged(c, n)    == n < Oldest(c)
Available(c, n) == n \in Oldest(c) .. Len(log[c])
Drained(c, n)   == n = End(c)

\* Closed: every sender is gone, the client's and the reader's.
SendersGone == ~alive /\ reader = "ended"

-----------------------------------------------------------------------------
(* The reader task: route and publish.                                     *)

\* Mutation: attached tabs' events go to the subscribers of the target too.
PublishEverywhere ==
    /\ reader = "reading" /\ publishing = NoOne
    /\ frames # << >> /\ Head(frames) \in Event
    /\ frames' = Tail(frames)
    /\ log' = [log EXCEPT !["session_events"] = Append(@, Head(frames))]
    /\ publishing' = Head(frames)
    /\ UNCHANGED <<alive, reader, raised, page, waiters, console>>

\* A frame without an id: session-aware subscribers see it, then, unless it came
\* from a session, the subscribers of the target do.
Publish ==
    /\ reader = "reading" /\ publishing = NoOne
    /\ frames # << >> /\ Head(frames) \in Event
    /\ frames' = Tail(frames)
    /\ log' = [log EXCEPT !["session_events"] = Append(@, Head(frames))]
    /\ publishing' = IF Head(frames).from = Main THEN Head(frames) ELSE NoOne
    /\ UNCHANGED <<alive, reader, raised, page, waiters, console>>

PublishToTarget ==
    /\ publishing # NoOne
    /\ log' = [log EXCEPT !["events"] = Append(@, publishing)]
    /\ publishing' = NoOne
    /\ UNCHANGED <<alive, reader, browser, waiters, console>>

\* A frame with an id answers the Page.navigate that awaits it, if it still does.
RouteReply ==
    /\ reader = "reading" /\ publishing = NoOne
    /\ frames # << >> /\ Head(frames) \notin Event
    /\ LET f == Head(frames) IN
         reply' = IF pc[f.to] = "navigating"
                  THEN [reply EXCEPT ![f.to] = IF f.ok THEN "ok" ELSE "refused"]
                  ELSE reply
    /\ frames' = Tail(frames)
    /\ UNCHANGED <<client, raised, page, pc, wish, start, next, result, console>>

\* The connection ends; what was not read is lost.
ReaderEnds ==
    /\ reader = "reading" /\ publishing = NoOne
    /\ reader' = "ended"
    /\ frames' = << >>
    /\ UNCHANGED <<alive, publishing, log, raised, page, waiters, console>>

-----------------------------------------------------------------------------
(* wait_for_event.                                                         *)

\* Events of the target come on one channel, those of a session on the other.
Channel(w) == IF wish[w].from = Main THEN "events" ELSE "session_events"

Active(w) == pc[w] \notin {"idle", "done"}

\* Subscribing is the first thing a call does.
Subscribe(w, from, method, then) ==
    /\ alive /\ pc[w] = "idle"
    /\ wish' = [wish EXCEPT ![w] = [from |-> from, method |-> method]]
    /\ LET c == IF from = Main THEN "events" ELSE "session_events" IN
         /\ start' = [start EXCEPT ![w] = End(c)]
         /\ next' = [next EXCEPT ![w] = End(c)]
    /\ pc' = [pc EXCEPT ![w] = then]
    /\ UNCHANGED <<client, browser, reply, result, console>>

WaitForEvent(w, from, method) ==
    w \in Watchers /\ Subscribe(w, from, method, "waiting")

\* The client's loop looks at the method alone, a session's at the session too.
Matches(w, e) ==
    /\ e.method = wish[w].method
    /\ wish[w].from # Main => e.from = wish[w].from

Return(w, r) ==
    /\ pc' = [pc EXCEPT ![w] = "done"]
    /\ result' = [result EXCEPT ![w] = r]

\* Mutation: the receiver goes back by what it missed.
SkipLagBackwards(w) ==
    /\ pc[w] = "waiting" /\ Lagged(Channel(w), next[w])
    /\ next' = [next EXCEPT ![w] = @ - (Oldest(Channel(w)) - @)]
    /\ UNCHANGED <<client, browser, pc, wish, start, reply, result, console>>

\* Mutation: a receiver that lagged subscribes again.
SkipLagToTheTail(w) ==
    /\ pc[w] = "waiting" /\ Lagged(Channel(w), next[w])
    /\ next' = [next EXCEPT ![w] = End(Channel(w))]
    /\ UNCHANGED <<client, browser, pc, wish, start, reply, result, console>>

\* Lagged: the receiver moves to the oldest event left, the loop continues.
SkipLag(w) ==
    /\ pc[w] = "waiting" /\ Lagged(Channel(w), next[w])
    /\ next' = [next EXCEPT ![w] = Oldest(Channel(w))]
    /\ UNCHANGED <<client, browser, pc, wish, start, reply, result, console>>

\* The event that matches is returned, any other is passed over.
Receive(w) ==
    /\ pc[w] = "waiting" /\ Available(Channel(w), next[w])
    /\ next' = [next EXCEPT ![w] = @ + 1]
    /\ IF Matches(w, log[Channel(w)][next[w]])
       THEN Return(w, "event")
       ELSE UNCHANGED <<pc, result>>
    /\ UNCHANGED <<client, browser, wish, start, reply, console>>

\* The loop ends without an event: the channel is closed; or the timer fires, with
\* the channel drained, or with events unread where so many came that the task
\* used up its turn on them.
GiveUp(w) ==
    /\ pc[w] = "waiting"
    /\ \/ Return(w, "timeout")
       \/ /\ Drained(Channel(w), next[w]) /\ SendersGone
          /\ Return(w, "closed")
    /\ UNCHANGED <<client, browser, wish, start, next, reply, console>>

-----------------------------------------------------------------------------
(* navigate_and_wait.                                                      *)

NavigateAndWait(w) ==
    w \in Navigators /\ Subscribe(w, Main, "load", "subscribed")

\* The command goes out; it gets nowhere if the connection is gone.
SendNavigate(w) ==
    /\ pc[w] = "subscribed"
    /\ pc' = [pc EXCEPT ![w] = "navigating"]
    /\ page' = [page EXCEPT ![w] = IF reader = "reading" THEN "asked" ELSE @]
    /\ UNCHANGED <<client, frames, raised, wish, start, next, reply, result, console>>

\* Mutation: the receiver is made once the navigation has begun.
NavigateThenSubscribe(w) ==
    /\ pc[w] = "navigating" /\ reply[w] = "ok"
    /\ pc' = [pc EXCEPT ![w] = "waiting"]
    /\ start' = [start EXCEPT ![w] = End("events")]
    /\ next' = [next EXCEPT ![w] = End("events")]
    /\ UNCHANGED <<client, browser, wish, reply, result, console>>

\* navigation_outcome: no errorText.
NavigationStarted(w) ==
    /\ pc[w] = "navigating" /\ reply[w] = "ok"
    /\ pc' = [pc EXCEPT ![w] = "waiting"]
    /\ UNCHANGED <<client, browser, wish, start, next, reply, result, console>>

\* navigation_outcome: an errorText fails the call before it waits for a load.
NavigationRefused(w) ==
    /\ pc[w] = "navigating" /\ reply[w] = "refused"
    /\ Return(w, "refused")
    /\ UNCHANGED <<client, browser, wish, start, next, reply, console>>

\* The command timed out, or the connection is gone.
NavigationFails(w) ==
    /\ pc[w] = "navigating" /\ reply[w] = "none"
    /\ Return(w, "failed")
    /\ UNCHANGED <<client, browser, wish, start, next, reply, console>>

-----------------------------------------------------------------------------
(* capture_console, and the client value.                                  *)

CaptureConsole ==
    /\ alive /\ capture = "off"
    /\ capture' = "on"
    /\ first' = End("events")
    /\ at' = End("events")
    /\ UNCHANGED <<client, browser, waiters, captured, consumer>>

IsCall(p) == log["events"][p].method = "console"

\* One turn of the task's loop: a console call goes on into the task's own channel, which
\* takes it whether or not its receiver keeps up.
CaptureReceive ==
    /\ capture = "on" /\ Available("events", at)
    /\ at' = at + 1
    /\ captured' = IF IsCall(at) THEN Append(captured, at) ELSE captured
    /\ UNCHANGED <<client, browser, waiters, capture, first, consumer>>

\* Mutation: the task carries on after a lag.
CaptureCarriesOn ==
    /\ capture = "on" /\ Lagged("events", at)
    /\ at' = Oldest("events")
    /\ UNCHANGED <<client, browser, waiters, capture, first, captured, consumer>>

\* while let Ok(..) = recv(): a lag ends the task as a closed channel does.
CaptureEnds ==
    /\ capture = "on"
    /\ Lagged("events", at) \/ (Drained("events", at) /\ SendersGone)
    /\ capture' = "ended"
    /\ UNCHANGED <<client, browser, waiters, first, at, captured, consumer>>

\* The oldest call still in the task's channel.
OldestCall == IF Len(captured) > ConsoleBacklog
              THEN Len(captured) - ConsoleBacklog + 1 ELSE 1

\* The user's recv: the next call.
ConsumeCall ==
    /\ read \in OldestCall .. Len(captured)
    /\ read' = read + 1
    /\ got' = Append(got, captured[read])
    /\ UNCHANGED <<client, browser, waiters, task, missed, heard>>

\* Lagged: how many calls it missed, the oldest first.
ConsumeLag ==
    /\ read < OldestCall
    /\ read' = OldestCall
    /\ missed' = missed + (OldestCall - read)
    /\ UNCHANGED <<client, browser, waiters, task, got, heard>>

\* Closed: the task has ended and with it the one sender, and all was read.
ConsumeEnd ==
    /\ capture = "ended" /\ read > Len(captured) /\ ~heard
    /\ heard' = TRUE
    /\ UNCHANGED <<client, browser, waiters, task, read, got, missed>>

\* Waiters borrow the client.
DropClient ==
    /\ alive /\ \A w \in Waiters : ~Active(w)
    /\ alive' = FALSE
    /\ UNCHANGED <<reader, publishing, log, browser, waiters, console>>

-----------------------------------------------------------------------------
(* The browser.                                                            *)

Send(f) == frames' = Append(frames, f)

\* A page raises an event on its own: a console call, a load somebody else caused.
RaiseEvent(t, m) ==
    /\ reader = "reading" /\ raised < MaxEvents
    /\ raised' = raised + 1
    /\ Send([from |-> t, method |-> m, of |-> NoOne])
    /\ UNCHANGED <<client, page, waiters, console>>

\* Page.navigate is answered once the navigation has begun or been refused.
AnswerNavigate(w, ok) ==
    /\ reader = "reading" /\ page[w] = "asked"
    /\ page' = [page EXCEPT ![w] = IF ok THEN "loading" ELSE "over"]
    /\ Send([to |-> w, ok |-> ok])
    /\ UNCHANGED <<client, raised, waiters, console>>

\* The page it led to has loaded.
FireLoad(w) ==
    /\ reader = "reading" /\ page[w] = "loading"
    /\ page' = [page EXCEPT ![w] = "over"]
    /\ Send([from |-> Main, method |-> "load", of |-> w])
    /\ UNCHANGED <<client, raised, waiters, console>>

-----------------------------------------------------------------------------
Reader    == Publish \/ PublishToTarget \/ RouteReply
Waiting(w) == SkipLag(w) \/ Receive(w) \/ GiveUp(w)
Capturing == CaptureReceive \/ CaptureEnds
Consuming == ConsumeCall \/ ConsumeLag \/ ConsumeEnd

Next ==
    \/ Reader \/ ReaderEnds \/ Capturing \/ Consuming
    \/ \E w \in Watchers, t \in Targets, m \in Methods : WaitForEvent(w, t, m)
    \/ \E w \in Waiters : Waiting(w)
    \/ \E w \in Navigators :
          \/ NavigateAndWait(w) \/ SendNavigate(w) \/ NavigationStarted(w)
          \/ NavigationRefused(w) \/ NavigationFails(w)
          \/ FireLoad(w) \/ \E ok \in BOOLEAN : AnswerNavigate(w, ok)
    \/ CaptureConsole \/ DropClient
    \/ \E t \in Targets, m \in Methods : RaiseEvent(t, m)

Spec == Init /\ [][Next]_vars

-----------------------------------------------------------------------------
(* What the event path promises.                                           *)

\* An event waiter is woken by its own target: a waiter on the connected target is
\* never woken by some attached tab's event, nor one session's by another's, nor
\* any by an event published before it subscribed.
WaitersWakeForTheirTarget ==
    \A w \in Waiters : result[w] = "event" =>
        LET p == next[w] - 1
            e == log[Channel(w)][p] IN
        p >= start[w] /\ e.from = wish[w].from /\ e.method = wish[w].method

\* A waiter passes over a matching event only where the channel had dropped it: it
\* returns the first one it could still read.
NothingReadableIsSkipped ==
    \A w \in Waiters : pc[w] # "idle" =>
        \A p \in start[w] .. next[w] - 1 :
            Matches(w, log[Channel(w)][p]) =>
                \/ result[w] = "event" /\ p = next[w] - 1
                \/ p + Backlog <= Len(log[Channel(w)])

\* The load event of a navigation is after the point where its navigate_and_wait
\* starts to receive, however fast the page loads.
LoadIsNeverMissed ==
    \A p \in 1 .. Len(log["events"]) :
        LET w == log["events"][p].of IN w # NoOne => p >= start[w]

\* The console calls since capture_console that its task has come past.
Called == {p \in first .. at - 1 : IsCall(p)}

\* The user of capture_console gets the console calls in order and once each, and misses
\* none it is not told of: with no lag reported there is no gap in what it got, and once
\* it has read all there is, or is told that the capture is over, what it got and what
\* it was told it missed are all the calls there were.
CaptureHasNoGaps ==
    /\ \A k \in 1 .. Len(got) : got[k] \in Called /\ \A j \in 1 .. k - 1 : got[j] < got[k]
    /\ missed = 0 => \A k \in 1 .. Len(got) : \A p \in Called :
                        p <= got[k] => \E j \in 1 .. k : got[j] = p
    /\ heard \/ read > Len(captured) => Len(got) + missed = Cardinality(Called)

\* capture_console: "capture continues until the agent ... is dropped".
CaptureLastsAsLongAsTheAgent == capture = "ended" => ~alive

-----------------------------------------------------------------------------
(* The inductive invariant behind them, proved in CdpEvents_proofs.        *)

\* The subscribers of the target are only sent what came from it.
TargetEventsAreMain ==
    /\ \A p \in 1 .. Len(log["events"]) : log["events"][p].from = Main
    /\ publishing # NoOne => publishing.from = Main

\* A receiver starts in the log and moves forward in it.
ReceiversMoveForward ==
    /\ \A w \in Waiters :
          IF pc[w] = "idle" THEN start[w] = 0 /\ next[w] = 0
          ELSE start[w] \in 1 .. next[w] /\ next[w] \in 1 .. End(Channel(w))
    /\ IF capture = "off" THEN first = 0 /\ at = 0
       ELSE first \in 1 .. at /\ at \in 1 .. End("events")

\* A waiter that returned an event has it just behind its receiver.
EventsAreReceived ==
    \A w \in Waiters :
        /\ pc[w] # "done" => result[w] = "none"
        /\ result[w] = "event" => /\ next[w] > start[w]
                                  /\ Matches(w, log[Channel(w)][next[w] - 1])

\* The task passes every call on, in order.
CallsArePassedOn ==
    /\ \A k \in 1 .. Len(captured) :
          captured[k] \in Called /\ \A j \in 1 .. k - 1 : captured[j] < captured[k]
    /\ \A p \in Called : \E k \in 1 .. Len(captured) : captured[k] = p
    /\ Len(captured) = Cardinality(Called)

\* The user has received or missed what is behind its receiver.
ConsumerFollows ==
    /\ read <= Len(captured) + 1 /\ Len(got) + missed = read - 1
    /\ \A k \in 1 .. Len(got) : /\ \E j \in 1 .. read - 1 : got[k] = captured[j]
                                /\ \A j \in 1 .. k - 1 : got[j] < got[k]
                                /\ missed = 0 => got[k] = captured[k]
    /\ heard => capture = "ended" /\ read > Len(captured)

\* The page begins to navigate after the receiver exists, on the target's channel.
NavigationsAreAwaited ==
    \A w \in Navigators :
        /\ wish[w].from = Main
        /\ page[w] # "none" => pc[w] \notin {"idle", "subscribed"}

\* A load event is of a navigation the page began.
Caused(pages, e) == e.of # NoOne => pages[e.of] # "none"

LoadsHaveCauses ==
    /\ \A k \in 1 .. Len(frames) : frames[k] \in Event => Caused(page, frames[k])
    /\ publishing # NoOne => Caused(page, publishing)
    /\ \A p \in 1 .. Len(log["events"]) : Caused(page, log["events"][p])

\* The inductive invariant.
EInv ==
    /\ TypeOK
    /\ TargetEventsAreMain
    /\ ReceiversMoveForward
    /\ EventsAreReceived
    /\ NavigationsAreAwaited
    /\ LoadsHaveCauses
    /\ NothingReadableIsSkipped
    /\ LoadIsNeverMissed
    /\ CallsArePassedOn
    /\ ConsumerFollows
=============================================================================
