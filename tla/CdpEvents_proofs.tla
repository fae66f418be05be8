--------------------------- MODULE CdpEvents_proofs ---------------------------
(***************************************************************************)
(* Proofs about CdpEvents, for every number of waiters and sessions, every *)
(* size of the ring and every number of events.                            *)
(***************************************************************************)
EXTENDS CdpEvents, FiniteSetTheorems, TLAPS

USE DEF client, browser, waiters, task, consumer, console, vars

-----------------------------------------------------------------------------
(* Types.                                                                  *)

LEMMA LogTypes ==
  ASSUME TypeOK, NEW c \in Channels
  PROVE  log[c] \in Seq(Event) /\ Len(log[c]) \in Nat /\ End(c) \in Nat
BY DEF TypeOK, End

LEMMA ChannelTypes ==
  ASSUME NEW w \in Waiters
  PROVE  Channel(w) \in Channels
BY DEF Channel, Channels

LEMMA OldestBounds ==
  ASSUME TypeOK, NEW c \in Channels
  PROVE  /\ Oldest(c) \in Nat /\ Oldest(c) >= 1
         /\ \A n \in Nat : n >= 1 /\ n < Oldest(c) =>
               Oldest(c) = Len(log[c]) - Backlog + 1 /\ Oldest(c) <= Len(log[c])
BY LogTypes, EventsAssumption DEF Oldest

\* An event is no reply: the two kinds of frame are told apart.
LEMMA ReplyFrames ==
  ASSUME TypeOK, frames # << >>, Head(frames) \notin Event
  PROVE  Head(frames) \in [to : Navigators, ok : BOOLEAN]
BY DEF TypeOK, Frame

LEMMA TailFrames ==
  ASSUME TypeOK, frames # << >>
  PROVE  /\ Tail(frames) \in Seq(Frame) /\ Head(frames) \in Frame
         /\ Head(frames) = frames[1] /\ Len(frames) \in Nat /\ Len(frames) >= 1
         /\ Len(Tail(frames)) = Len(frames) - 1
         /\ \A k \in 1 .. Len(Tail(frames)) : Tail(frames)[k] = frames[k + 1]
BY DEF TypeOK

-----------------------------------------------------------------------------
(* The invariant, waiter by waiter.                                        *)

Placed(w) ==
    IF pc[w] = "idle" THEN start[w] = 0 /\ next[w] = 0
    ELSE start[w] \in 1 .. next[w] /\ next[w] \in 1 .. End(Channel(w))

Received(w) ==
    /\ pc[w] # "done" => result[w] = "none"
    /\ result[w] = "event" => /\ next[w] > start[w]
                              /\ Matches(w, log[Channel(w)][next[w] - 1])

Unskipped(w) ==
    pc[w] # "idle" =>
        \A p \in start[w] .. next[w] - 1 :
            Matches(w, log[Channel(w)][p]) =>
                \/ result[w] = "event" /\ p = next[w] - 1
                \/ p + Backlog <= Len(log[Channel(w)])

WaiterOK(w) == Placed(w) /\ Received(w) /\ Unskipped(w)

LEMMA WaitersOK == EInv => \A w \in Waiters : WaiterOK(w)
BY DEF EInv, ReceiversMoveForward, EventsAreReceived, NothingReadableIsSkipped,
       WaiterOK, Placed, Received, Unskipped

CapturePlaced ==
    IF capture = "off" THEN first = 0 /\ at = 0
    ELSE first \in 1 .. at /\ at \in 1 .. End("events")

LEMMA PutTogether ==
  ASSUME \A w \in Waiters : WaiterOK(w)', CapturePlaced'
  PROVE  ReceiversMoveForward' /\ EventsAreReceived' /\ NothingReadableIsSkipped'
BY DEF ReceiversMoveForward, EventsAreReceived, NothingReadableIsSkipped,
       WaiterOK, Placed, Received, Unskipped, CapturePlaced

\* The channels lose nothing of what they were sent.
LogGrows ==
    \A c \in Channels : /\ Len(log'[c]) \in Nat /\ Len(log'[c]) >= Len(log[c])
                        /\ \A p \in 1 .. Len(log[c]) : log'[c][p] = log[c][p]

LEMMA LogStays ==
  ASSUME TypeOK, log' = log
  PROVE  LogGrows
BY LogTypes DEF LogGrows

\* Sending an event leaves alone a waiter that has nothing to do with it.
LEMMA WaiterStays ==
  ASSUME EInv, LogGrows, NEW w \in Waiters,
         pc'[w] = pc[w], wish'[w] = wish[w], start'[w] = start[w], next'[w] = next[w],
         result'[w] = result[w]
  PROVE  WaiterOK(w)'
<1> DEFINE c == Channel(w)
<1>1. WaiterOK(w) /\ c \in Channels /\ Channel(w)' = c
  BY WaitersOK, ChannelTypes DEF Channel
<1>2. /\ Len(log[c]) \in Nat /\ Len(log'[c]) \in Nat /\ Len(log'[c]) >= Len(log[c])
      /\ \A p \in 1 .. Len(log[c]) : log'[c][p] = log[c][p]
      /\ start[w] \in Nat /\ next[w] \in Nat /\ Backlog \in Nat
  BY <1>1, LogTypes, EventsAssumption DEF LogGrows, EInv, TypeOK
<1> HIDE DEF c
<1>3. Placed(w)'
  BY <1>1, <1>2 DEF WaiterOK, Placed, End, c
<1>4. ASSUME pc[w] # "idle", NEW p \in start[w] .. next[w] - 1
      PROVE  p \in 1 .. Len(log[c])
  BY <1>1, <1>2, <1>4 DEF WaiterOK, Placed, End, c
<1>5. Received(w)'
  <2>1. result[w] = "event" => pc[w] = "done" /\ next[w] - 1 \in start[w] .. next[w] - 1
    BY <1>1, <1>2 DEF WaiterOK, Received
  <2>2. result[w] = "event" => log'[c][next[w] - 1] = log[c][next[w] - 1]
    BY <1>2, <1>4, <2>1
  <2> QED
    BY <1>1, <2>2 DEF WaiterOK, Received, Matches, c
<1>6. Unskipped(w)'
  <2> SUFFICES ASSUME pc[w] # "idle", NEW p \in start[w] .. next[w] - 1,
                      Matches(w, log[c][p])
               PROVE  \/ result[w] = "event" /\ p = next[w] - 1
                      \/ p + Backlog <= Len(log'[c])
    BY <1>1, <1>2, <1>4 DEF Unskipped, Matches, c
  <2>1. p \in 1 .. Len(log[c])
    BY <1>4
  <2> QED
    BY <1>1, <1>2, <2>1 DEF WaiterOK, Unskipped, c
<1> QED
  BY <1>3, <1>5, <1>6 DEF WaiterOK

\* The calls that came do not change as more events are sent.
LEMMA CalledStays ==
  ASSUME EInv, LogGrows, UNCHANGED <<first, at>>
  PROVE  Called' = Called
<1>1. /\ Len(log["events"]) \in Nat
      /\ \A p \in 1 .. Len(log["events"]) : log'["events"][p] = log["events"][p]
      /\ first \in Nat /\ at \in Nat
  BY LogTypes DEF LogGrows, Channels, EInv, TypeOK
<1>2. \A p \in first .. at - 1 : p \in 1 .. Len(log["events"])
  BY <1>1 DEF EInv, ReceiversMoveForward, End
<1> QED
  BY <1>1, <1>2 DEF Called, IsCall

LEMMA CaptureStays ==
  ASSUME EInv, LogGrows, UNCHANGED console
  PROVE  CapturePlaced' /\ CallsArePassedOn' /\ ConsumerFollows'
<1>1. /\ Len(log["events"]) \in Nat /\ Len(log'["events"]) \in Nat
      /\ Len(log'["events"]) >= Len(log["events"])
      /\ first \in Nat /\ at \in Nat
  BY LogTypes DEF LogGrows, Channels, EInv, TypeOK
<1>2. CapturePlaced
  BY DEF EInv, ReceiversMoveForward, CapturePlaced
<1>3. CapturePlaced'
  BY <1>1, <1>2 DEF CapturePlaced, End
<1>4. Called' = Called
  BY CalledStays
<1>5. CallsArePassedOn' /\ ConsumerFollows'
  BY <1>4 DEF EInv, CallsArePassedOn, ConsumerFollows
<1> QED
  BY <1>3, <1>5

\* A step that none of the receivers takes leaves them as they were.
LEMMA ReceiversStay ==
  ASSUME EInv, LogGrows, UNCHANGED <<pc, wish, start, next, result, console>>
  PROVE  ReceiversMoveForward' /\ EventsAreReceived' /\ NothingReadableIsSkipped'
         /\ CallsArePassedOn' /\ ConsumerFollows'
<1>1. \A w \in Waiters : WaiterOK(w)'
  BY WaiterStays
<1>2. CapturePlaced' /\ CallsArePassedOn' /\ ConsumerFollows'
  BY CaptureStays
<1> QED
  BY <1>1, <1>2, PutTogether

-----------------------------------------------------------------------------
(* The reader and the browser.                                             *)

\* A navigation that has begun stays so, and with it what it caused.
PageMovesOn == \A w \in Navigators : page[w] # "none" => page'[w] # "none"

LEMMA CausesStay ==
  ASSUME PageMovesOn, NEW e \in Event, Caused(page, e)
  PROVE  Caused(page', e)
BY DEF PageMovesOn, Caused, Event

\* A step that sends nothing on the channel of the target.
LEMMA TargetStays ==
  ASSUME EInv, log'["events"] = log["events"],
         publishing' # NoOne => publishing'.from = Main,
         \A w \in Navigators : start'[w] = start[w] \/ page[w] = "none"
  PROVE  TargetEventsAreMain' /\ LoadIsNeverMissed'
<1>1. TargetEventsAreMain'
  BY DEF EInv, TargetEventsAreMain
<1>2. LoadIsNeverMissed'
  <2> SUFFICES ASSUME NEW p \in 1 .. Len(log["events"]), log["events"][p].of # NoOne
               PROVE  p >= start'[log["events"][p].of]
    BY DEF LoadIsNeverMissed
  <2>1. log["events"][p] \in Event /\ Caused(page, log["events"][p])
    BY LogTypes DEF EInv, LoadsHaveCauses, Channels
  <2>2. log["events"][p].of \in Navigators /\ page[log["events"][p].of] # "none"
    BY <2>1 DEF Event, Caused
  <2> QED
    BY <2>2 DEF EInv, LoadIsNeverMissed
<1> QED
  BY <1>1, <1>2

\* What is on its way and what has arrived keeps its cause.
LEMMA CausesKept ==
  ASSUME EInv, PageMovesOn, log'["events"] = log["events"],
         publishing' # NoOne => publishing' \in Event /\ Caused(page, publishing'),
         \A k \in 1 .. Len(frames') :
            frames'[k] \in Event => Caused(page, frames'[k]) \/ Caused(page', frames'[k])
  PROVE  LoadsHaveCauses'
<1>1. ASSUME NEW p \in 1 .. Len(log["events"])
      PROVE  Caused(page', log["events"][p])
  <2>1. log["events"][p] \in Event /\ Caused(page, log["events"][p])
    BY LogTypes DEF EInv, LoadsHaveCauses, Channels
  <2> QED
    BY <2>1, CausesStay
<1>2. publishing' # NoOne => Caused(page', publishing')
  BY CausesStay
<1>3. \A k \in 1 .. Len(frames') : frames'[k] \in Event => Caused(page', frames'[k])
  BY CausesStay
<1> QED
  BY <1>1, <1>2, <1>3 DEF LoadsHaveCauses

\* Reading a frame takes it off the queue.
LEMMA FrameRead ==
  ASSUME EInv, frames # << >>, frames' = Tail(frames)
  PROVE  /\ \A k \in 1 .. Len(frames') : frames'[k] \in Event => Caused(page, frames'[k])
         /\ Head(frames) \in Event => Caused(page, Head(frames))
<1>1. \A k \in 1 .. Len(frames) : frames[k] \in Event => Caused(page, frames[k])
  BY DEF EInv, LoadsHaveCauses
<1>2. /\ Head(frames) = frames[1] /\ Len(frames) \in Nat /\ Len(frames) >= 1
      /\ Len(frames') = Len(frames) - 1
      /\ \A k \in 1 .. Len(frames') : frames'[k] = frames[k + 1]
  BY TailFrames DEF EInv
<1>3. 1 \in 1 .. Len(frames) /\ \A k \in 1 .. Len(frames') : k + 1 \in 1 .. Len(frames)
  BY <1>2
<1> QED
  BY <1>1, <1>2, <1>3

LEMMA PublishEInv ==
  ASSUME EInv, Publish
  PROVE  EInv'
<1> DEFINE e == Head(frames)
<1>1. /\ frames # << >> /\ e \in Event /\ frames' = Tail(frames)
      /\ log' = [log EXCEPT !["session_events"] = Append(@, e)]
      /\ publishing' = IF e.from = Main THEN e ELSE NoOne
      /\ UNCHANGED <<alive, reader, raised, page, waiters, console>>
  BY DEF Publish
<1>2. /\ log'["session_events"] = Append(log["session_events"], e)
      /\ log'["events"] = log["events"]
  BY <1>1 DEF EInv, TypeOK, Channels
<1>3. LogGrows
  BY <1>1, <1>2, LogTypes DEF LogGrows, EInv, Channels
<1>4. TypeOK'
  BY <1>1, <1>2, TailFrames DEF EInv, TypeOK, Channels
<1>5. ReceiversMoveForward' /\ EventsAreReceived' /\ NothingReadableIsSkipped'
      /\ CallsArePassedOn' /\ ConsumerFollows'
  BY <1>1, <1>3, ReceiversStay
<1>6. TargetEventsAreMain' /\ LoadIsNeverMissed'
  BY <1>1, <1>2, TargetStays
<1>7. LoadsHaveCauses'
  <2>1. PageMovesOn
    BY <1>1 DEF PageMovesOn
  <2>2. /\ Caused(page, e)
        /\ \A k \in 1 .. Len(frames') : frames'[k] \in Event => Caused(page, frames'[k])
    BY <1>1, FrameRead
  <2> QED
    BY <1>1, <1>2, <2>1, <2>2, CausesKept
<1>8. NavigationsAreAwaited'
  BY <1>1 DEF EInv, NavigationsAreAwaited
<1> QED
  BY <1>4, <1>5, <1>6, <1>7, <1>8 DEF EInv

LEMMA PublishToTargetEInv ==
  ASSUME EInv, PublishToTarget
  PROVE  EInv'
<1>1. /\ publishing \in Event /\ publishing # NoOne /\ publishing' = NoOne
      /\ log' = [log EXCEPT !["events"] = Append(@, publishing)]
      /\ UNCHANGED <<alive, reader, browser, waiters, console>>
      /\ publishing.from = Main /\ Caused(page, publishing)
  BY DEF PublishToTarget, EInv, TypeOK, TargetEventsAreMain, LoadsHaveCauses
<1> DEFINE n == Len(log["events"]) + 1
<1>2. /\ log["events"] \in Seq(Event) /\ n \in Nat
      /\ log'["session_events"] = log["session_events"]
      /\ log'["events"] = Append(log["events"], publishing)
      /\ Len(log'["events"]) = n /\ log'["events"][n] = publishing
      /\ \A p \in 1 .. n - 1 : log'["events"][p] = log["events"][p]
  BY <1>1, LogTypes DEF EInv, TypeOK, Channels
<1>3. LogGrows
  BY <1>1, <1>2, LogTypes DEF LogGrows, EInv, Channels
<1>4. TypeOK'
  BY <1>1, <1>2 DEF EInv, TypeOK, Channels
<1>5. ReceiversMoveForward' /\ EventsAreReceived' /\ NothingReadableIsSkipped'
      /\ CallsArePassedOn' /\ ConsumerFollows'
  BY <1>1, <1>3, ReceiversStay
<1>6. TargetEventsAreMain'
  BY <1>1, <1>2 DEF EInv, TargetEventsAreMain
<1>7. LoadIsNeverMissed'
  <2> SUFFICES ASSUME NEW p \in 1 .. n, log'["events"][p].of # NoOne
               PROVE  p >= start[log'["events"][p].of]
    BY <1>1, <1>2 DEF LoadIsNeverMissed
  <2>1. CASE p \in 1 .. n - 1
    BY <1>2, <2>1 DEF EInv, LoadIsNeverMissed
  <2>2. CASE p = n
    <3> DEFINE w == publishing.of
    <3>1. w \in Navigators /\ page[w] # "none" /\ w # NoOne
      BY <1>1, <1>2, <2>2 DEF Event, Caused
    <3> HIDE DEF w
    <3>2. pc[w] # "idle" /\ w \in Waiters /\ Channel(w) = "events"
      BY <3>1 DEF EInv, NavigationsAreAwaited, Waiters, Channel
    <3>3. start[w] \in 1 .. next[w] /\ next[w] \in 1 .. End("events")
      BY <3>2 DEF EInv, ReceiversMoveForward
    <3>4. next[w] \in Nat /\ start[w] \in Nat
      BY <3>2 DEF EInv, TypeOK
    <3> QED
      BY <1>2, <2>2, <3>3, <3>4 DEF End, w
  <2> QED
    BY <1>2, <2>1, <2>2
<1>8. LoadsHaveCauses'
  BY <1>1, <1>2 DEF EInv, LoadsHaveCauses
<1>9. NavigationsAreAwaited'
  BY <1>1 DEF EInv, NavigationsAreAwaited
<1> QED
  BY <1>4, <1>5, <1>6, <1>7, <1>8, <1>9 DEF EInv

\* A step of the reader or the browser that publishes nothing.
LEMMA FramesMove ==
  ASSUME EInv, TypeOK', PageMovesOn, NavigationsAreAwaited',
         UNCHANGED <<publishing, log, pc, wish, start, next, result, console>>,
         \A k \in 1 .. Len(frames') :
            frames'[k] \in Event => Caused(page, frames'[k]) \/ Caused(page', frames'[k])
  PROVE  EInv'
<1>1. LogGrows
  BY LogStays DEF EInv
<1>2. ReceiversMoveForward' /\ EventsAreReceived' /\ NothingReadableIsSkipped'
      /\ CallsArePassedOn' /\ ConsumerFollows'
  BY <1>1, ReceiversStay
<1>3. TargetEventsAreMain' /\ LoadIsNeverMissed'
  BY TargetStays DEF EInv, TargetEventsAreMain
<1>4. LoadsHaveCauses'
  <2>1. publishing' # NoOne => publishing' \in Event /\ Caused(page, publishing')
    BY DEF EInv, TypeOK, LoadsHaveCauses
  <2> QED
    BY <2>1, CausesKept
<1> QED
  BY <1>2, <1>3, <1>4 DEF EInv

LEMMA RouteReplyEInv ==
  ASSUME EInv, RouteReply
  PROVE  EInv'
<1> DEFINE f == Head(frames)
<1>1. /\ frames # << >> /\ f \notin Event /\ frames' = Tail(frames)
      /\ reply' = IF pc[f.to] = "navigating"
                  THEN [reply EXCEPT ![f.to] = IF f.ok THEN "ok" ELSE "refused"]
                  ELSE reply
      /\ UNCHANGED <<client, raised, page, pc, wish, start, next, result, console>>
  BY DEF RouteReply
<1>2. reply' \in [Navigators -> {"none", "ok", "refused"}]
  BY <1>1 DEF EInv, TypeOK
<1>3. TypeOK'
  BY <1>1, <1>2, TailFrames DEF EInv, TypeOK
<1>4. \A k \in 1 .. Len(frames') : frames'[k] \in Event => Caused(page, frames'[k])
  BY <1>1, FrameRead
<1>5. PageMovesOn /\ NavigationsAreAwaited'
  BY <1>1 DEF EInv, PageMovesOn, NavigationsAreAwaited
<1> QED
  BY <1>1, <1>3, <1>4, <1>5, FramesMove

LEMMA ReaderEndsEInv ==
  ASSUME EInv, ReaderEnds
  PROVE  EInv'
<1>1. /\ reader' = "ended" /\ frames' = << >>
      /\ UNCHANGED <<alive, publishing, log, raised, page, waiters, console>>
  BY DEF ReaderEnds
<1>2. TypeOK'
  BY <1>1 DEF EInv, TypeOK
<1>3. \A k \in 1 .. Len(frames') : frames'[k] \in Event => Caused(page, frames'[k])
  BY <1>1
<1>4. PageMovesOn /\ NavigationsAreAwaited'
  BY <1>1 DEF EInv, PageMovesOn, NavigationsAreAwaited
<1> QED
  BY <1>1, <1>2, <1>3, <1>4, FramesMove

\* The browser sends one frame.
LEMMA FrameSent ==
  ASSUME EInv, NEW f \in Frame, Send(f), PageMovesOn, f \in Event => Caused(page', f)
  PROVE  /\ frames' \in Seq(Frame)
         /\ \A k \in 1 .. Len(frames') :
              frames'[k] \in Event => Caused(page, frames'[k]) \/ Caused(page', frames'[k])
<1>1. /\ frames' = Append(frames, f) /\ frames \in Seq(Frame)
      /\ \A k \in 1 .. Len(frames) : frames[k] \in Event => Caused(page, frames[k])
  BY DEF Send, EInv, TypeOK, LoadsHaveCauses
<1>2. /\ frames' \in Seq(Frame) /\ Len(frames') = Len(frames) + 1
      /\ Len(frames) \in Nat /\ frames'[Len(frames) + 1] = f
      /\ \A k \in 1 .. Len(frames) : frames'[k] = frames[k]
  BY <1>1
<1>3. ASSUME NEW k \in 1 .. Len(frames'), frames'[k] \in Event
      PROVE  Caused(page, frames'[k]) \/ Caused(page', frames'[k])
  <2>1. CASE k \in 1 .. Len(frames)
    BY <1>1, <1>2, <1>3, <2>1
  <2>2. CASE k = Len(frames) + 1
    BY <1>2, <1>3, <2>2
  <2> QED
    BY <1>2, <2>1, <2>2
<1> QED
  BY <1>2, <1>3

LEMMA RaiseEventEInv ==
  ASSUME EInv, NEW t \in Targets, NEW m \in Methods, RaiseEvent(t, m)
  PROVE  EInv'
<1> DEFINE f == [from |-> t, method |-> m, of |-> NoOne]
<1>1. /\ Send(f) /\ raised' = raised + 1 /\ raised < MaxEvents
      /\ UNCHANGED <<client, page, waiters, console>>
  BY DEF RaiseEvent
<1>2. f \in Event /\ f \in Frame /\ Caused(page', f)
  BY DEF Event, Frame, Caused
<1>3. PageMovesOn /\ NavigationsAreAwaited'
  BY <1>1 DEF EInv, PageMovesOn, NavigationsAreAwaited
<1> HIDE DEF f
<1>4. /\ frames' \in Seq(Frame)
      /\ \A k \in 1 .. Len(frames') :
           frames'[k] \in Event => Caused(page, frames'[k]) \/ Caused(page', frames'[k])
  BY <1>1, <1>2, <1>3, FrameSent
<1>5. TypeOK'
  BY <1>1, <1>4, EventsAssumption DEF EInv, TypeOK
<1> QED
  BY <1>1, <1>3, <1>4, <1>5, FramesMove

LEMMA AnswerNavigateEInv ==
  ASSUME EInv, NEW w \in Navigators, NEW ok \in BOOLEAN, AnswerNavigate(w, ok)
  PROVE  EInv'
<1> DEFINE f == [to |-> w, ok |-> ok]
<1>1. /\ Send(f) /\ page[w] = "asked"
      /\ page' = [page EXCEPT ![w] = IF ok THEN "loading" ELSE "over"]
      /\ UNCHANGED <<client, raised, waiters, console>>
  BY DEF AnswerNavigate
<1>2. f \in Frame /\ f \notin Event
  BY DEF Event, Frame
<1>3. PageMovesOn /\ NavigationsAreAwaited'
  BY <1>1 DEF EInv, TypeOK, PageMovesOn, NavigationsAreAwaited
<1> HIDE DEF f
<1>4. /\ frames' \in Seq(Frame)
      /\ \A k \in 1 .. Len(frames') :
           frames'[k] \in Event => Caused(page, frames'[k]) \/ Caused(page', frames'[k])
  BY <1>1, <1>2, <1>3, FrameSent
<1>5. TypeOK'
  BY <1>1, <1>4 DEF EInv, TypeOK
<1> QED
  BY <1>1, <1>3, <1>4, <1>5, FramesMove

LEMMA FireLoadEInv ==
  ASSUME EInv, NEW w \in Navigators, FireLoad(w)
  PROVE  EInv'
<1> DEFINE f == [from |-> Main, method |-> "load", of |-> w]
<1>1. /\ Send(f) /\ page[w] = "loading" /\ page' = [page EXCEPT ![w] = "over"]
      /\ UNCHANGED <<client, raised, waiters, console>>
  BY DEF FireLoad
<1>2. f \in Event /\ f \in Frame /\ Caused(page', f)
  BY <1>1 DEF Event, Frame, Caused, EInv, TypeOK, Targets, Methods
<1>3. PageMovesOn /\ NavigationsAreAwaited'
  BY <1>1 DEF EInv, TypeOK, PageMovesOn, NavigationsAreAwaited
<1> HIDE DEF f
<1>4. /\ frames' \in Seq(Frame)
      /\ \A k \in 1 .. Len(frames') :
           frames'[k] \in Event => Caused(page, frames'[k]) \/ Caused(page', frames'[k])
  BY <1>1, <1>2, <1>3, FrameSent
<1>5. TypeOK'
  BY <1>1, <1>4 DEF EInv, TypeOK
<1> QED
  BY <1>1, <1>3, <1>4, <1>5, FramesMove

-----------------------------------------------------------------------------
(* The waiters.                                                            *)

\* One waiter takes a step: it is enough to look at that one.
LEMMA OneWaiterMoves ==
  ASSUME EInv, NEW w \in Waiters, WaiterOK(w)', TypeOK', NavigationsAreAwaited', PageMovesOn,
         \A x \in Waiters \ {w} :
             /\ pc'[x] = pc[x] /\ wish'[x] = wish[x] /\ start'[x] = start[x]
             /\ next'[x] = next[x] /\ result'[x] = result[x],
         start'[w] = start[w] \/ w \in Watchers \/ page[w] = "none",
         UNCHANGED <<client, frames, raised, console>>
  PROVE  EInv'
<1>1. LogGrows
  BY LogStays DEF EInv
<1>2. \A x \in Waiters : WaiterOK(x)'
  BY <1>1, WaiterStays
<1>3. CapturePlaced' /\ CallsArePassedOn' /\ ConsumerFollows'
  BY <1>1, CaptureStays
<1>4. ReceiversMoveForward' /\ EventsAreReceived' /\ NothingReadableIsSkipped'
  BY <1>2, <1>3, PutTogether
<1>5. TargetEventsAreMain' /\ LoadIsNeverMissed'
  <2>1. \A x \in Navigators : start'[x] = start[x] \/ page[x] = "none"
    BY EventsAssumption DEF Waiters
  <2> QED
    BY <2>1, TargetStays DEF EInv, TargetEventsAreMain
<1>6. LoadsHaveCauses'
  <2>1. /\ publishing' # NoOne => publishing' \in Event /\ Caused(page, publishing')
        /\ \A k \in 1 .. Len(frames') : frames'[k] \in Event => Caused(page, frames'[k])
    BY DEF EInv, TypeOK, LoadsHaveCauses
  <2> QED
    BY <2>1, CausesKept
<1> QED
  BY <1>3, <1>4, <1>5, <1>6 DEF EInv

\* A call that begins: nothing of what was sent before concerns it.
LEMMA SubscribeEInv ==
  ASSUME EInv, NEW w \in Waiters, NEW from \in Targets, NEW method \in Methods,
         NEW then \in {"subscribed", "waiting"}, Subscribe(w, from, method, then),
         w \in Navigators => from = Main
  PROVE  EInv'
<1> DEFINE c == IF from = Main THEN "events" ELSE "session_events"
<1>1. /\ pc[w] = "idle" /\ pc' = [pc EXCEPT ![w] = then]
      /\ wish' = [wish EXCEPT ![w] = [from |-> from, method |-> method]]
      /\ start' = [start EXCEPT ![w] = End(c)]
      /\ next' = [next EXCEPT ![w] = End(c)]
      /\ UNCHANGED <<client, browser, reply, result, console>>
  BY DEF Subscribe
<1>2. c \in Channels /\ End(c) \in Nat /\ End(c) >= 1 /\ Len(log[c]) \in Nat
  BY LogTypes DEF EInv, Channels, End
<1>3. TypeOK'
  BY <1>1, <1>2 DEF EInv, TypeOK
<1>4. /\ pc'[w] = then /\ wish'[w].from = from /\ start'[w] = End(c) /\ next'[w] = End(c)
      /\ result'[w] = "none"
  BY <1>1 DEF EInv, TypeOK, EventsAreReceived
<1>5. Channel(w)' = c /\ End(c)' = End(c)
  BY <1>1, <1>4 DEF Channel, End
<1> HIDE DEF c
<1>6. WaiterOK(w)'
  BY <1>2, <1>4, <1>5 DEF WaiterOK, Placed, Received, Unskipped
<1>7. NavigationsAreAwaited'
  BY <1>1, EventsAssumption DEF EInv, TypeOK, NavigationsAreAwaited, Waiters
<1>8. w \in Watchers \/ page[w] = "none"
  BY <1>1 DEF EInv, NavigationsAreAwaited, Waiters
<1>9. PageMovesOn
  BY <1>1 DEF PageMovesOn
<1>10. \A x \in Waiters \ {w} :
          /\ pc'[x] = pc[x] /\ wish'[x] = wish[x] /\ start'[x] = start[x]
          /\ next'[x] = next[x] /\ result'[x] = result[x]
  BY <1>1 DEF EInv, TypeOK
<1> QED
  BY <1>1, <1>3, <1>6, <1>7, <1>8, <1>9, <1>10, OneWaiterMoves

\* What a waiter has passed it could not match, or could no longer read.
LEMMA SkipLagEInv ==
  ASSUME EInv, NEW w \in Waiters, SkipLag(w)
  PROVE  EInv'
<1> DEFINE c == Channel(w)
<1>1. /\ pc[w] = "waiting" /\ next[w] < Oldest(c)
      /\ next' = [next EXCEPT ![w] = Oldest(c)]
      /\ UNCHANGED <<client, browser, pc, wish, start, reply, result, console>>
  BY DEF SkipLag, Lagged
<1>2. /\ c \in Channels /\ WaiterOK(w) /\ Channel(w)' = c /\ Len(log[c]) \in Nat
      /\ start[w] \in Nat /\ next[w] \in Nat /\ Backlog \in Nat
  BY <1>1, ChannelTypes, WaitersOK, LogTypes, EventsAssumption DEF EInv, TypeOK, Channel
<1> HIDE DEF c
<1>3. start[w] \in 1 .. next[w] /\ result[w] = "none"
  BY <1>1, <1>2 DEF WaiterOK, Placed, Received
<1>4. Oldest(c) \in Nat /\ Oldest(c) = Len(log[c]) - Backlog + 1 /\ Oldest(c) <= Len(log[c])
  BY <1>1, <1>2, <1>3, OldestBounds DEF EInv
<1>5. next'[w] = Oldest(c)
  BY <1>1 DEF EInv, TypeOK
<1>6. TypeOK'
  BY <1>1, <1>4 DEF EInv, TypeOK
<1>7. WaiterOK(w)'
  <2>1. Placed(w)'
    BY <1>1, <1>2, <1>3, <1>4, <1>5 DEF Placed, End
  <2>2. Received(w)'
    BY <1>1, <1>3 DEF Received
  <2>3. Unskipped(w)'
    <3> SUFFICES ASSUME NEW p \in start[w] .. Oldest(c) - 1, Matches(w, log[c][p])
                 PROVE  p + Backlog <= Len(log[c])
      BY <1>1, <1>2, <1>5 DEF Unskipped, Matches
    <3> QED
      BY <1>2, <1>4
  <2> QED
    BY <2>1, <2>2, <2>3 DEF WaiterOK
<1>8. NavigationsAreAwaited' /\ PageMovesOn
  BY <1>1 DEF EInv, NavigationsAreAwaited, PageMovesOn
<1>9. \A x \in Waiters \ {w} : next'[x] = next[x]
  BY <1>1 DEF EInv, TypeOK
<1> QED
  BY <1>1, <1>6, <1>7, <1>8, <1>9, OneWaiterMoves

LEMMA ReceiveEInv ==
  ASSUME EInv, NEW w \in Waiters, Receive(w)
  PROVE  EInv'
<1> DEFINE c == Channel(w)
           n == next[w]
           matched == Matches(w, log[c][n])
<1>1. /\ pc[w] = "waiting" /\ n \in Oldest(c) .. Len(log[c])
      /\ next' = [next EXCEPT ![w] = n + 1]
      /\ IF matched THEN Return(w, "event") ELSE UNCHANGED <<pc, result>>
      /\ UNCHANGED <<client, browser, wish, start, reply, console>>
  BY DEF Receive, Available
<1>2. /\ c \in Channels /\ WaiterOK(w) /\ Channel(w)' = c /\ Len(log[c]) \in Nat
      /\ start[w] \in Nat /\ n \in Nat /\ Backlog \in Nat
  BY <1>1, ChannelTypes, WaitersOK, LogTypes, EventsAssumption DEF EInv, TypeOK, Channel
<1>3. start[w] \in 1 .. n /\ result[w] = "none" /\ n <= Len(log[c])
  BY <1>1, <1>2, OldestBounds DEF WaiterOK, Placed, Received, EInv
<1>4. /\ next'[w] = n + 1
      /\ IF matched THEN pc'[w] = "done" /\ result'[w] = "event"
                ELSE pc'[w] = "waiting" /\ result'[w] = "none"
  BY <1>1, <1>3 DEF Return, EInv, TypeOK
<1> HIDE DEF matched
<1>5. TypeOK'
  <2>1. next' \in [Waiters -> Nat]
    BY <1>1, <1>2 DEF EInv, TypeOK
  <2>2. /\ pc' = IF matched THEN [pc EXCEPT ![w] = "done"] ELSE pc
        /\ result' = IF matched THEN [result EXCEPT ![w] = "event"] ELSE result
    BY <1>1 DEF Return
  <2>3. pc' \in [Waiters -> {"idle", "subscribed", "navigating", "waiting", "done"}]
    BY <2>2 DEF EInv, TypeOK
  <2>4. result' \in [Waiters -> Outcomes]
    BY <2>2 DEF EInv, TypeOK, Outcomes
  <2> QED
    BY <1>1, <2>1, <2>3, <2>4 DEF EInv, TypeOK
<1>6. \A p : Matches(w, log[c][p])' <=> Matches(w, log[c][p])
  BY <1>1, <1>2 DEF Matches
<1>7. WaiterOK(w)'
  <2>1. Placed(w)'
    BY <1>1, <1>2, <1>3, <1>4 DEF Placed, End
  <2>2. Received(w)'
    <3>1. (n + 1) - 1 = n
      BY <1>2
    <3>2. CASE matched
      BY <1>1, <1>2, <1>3, <1>4, <1>6, <3>1, <3>2 DEF Received, matched
    <3>3. CASE ~matched
      BY <1>4, <3>3 DEF Received
    <3> QED
      BY <3>2, <3>3
  <2>3. Unskipped(w)'
    <3> SUFFICES ASSUME NEW p \in start[w] .. n, Matches(w, log[c][p])
                 PROVE  \/ result'[w] = "event" /\ p = n
                        \/ p + Backlog <= Len(log[c])
      BY <1>1, <1>2, <1>4, <1>6 DEF Unskipped
    <3>1. CASE p = n
      BY <1>4, <3>1 DEF matched
    <3>2. CASE p \in start[w] .. n - 1
      BY <1>1, <1>2, <1>3, <3>2 DEF WaiterOK, Unskipped
    <3> QED
      BY <1>2, <1>3, <3>1, <3>2
  <2> QED
    BY <2>1, <2>2, <2>3 DEF WaiterOK
<1>8. NavigationsAreAwaited' /\ PageMovesOn
  <2>1. \A x \in Waiters : pc'[x] = pc[x] \/ pc'[x] = "done"
    BY <1>1 DEF EInv, TypeOK, Return
  <2> QED
    BY <1>1, <2>1 DEF EInv, NavigationsAreAwaited, PageMovesOn, Waiters
<1>9. \A x \in Waiters \ {w} :
         next'[x] = next[x] /\ pc'[x] = pc[x] /\ result'[x] = result[x]
  BY <1>1 DEF EInv, TypeOK, Return
<1> QED
  BY <1>1, <1>5, <1>7, <1>8, <1>9, OneWaiterMoves

\* A waiter whose receiver stays where it is.
LEMMA WaiterTurns ==
  ASSUME EInv, NEW w \in Waiters, pc[w] \notin {"idle", "done"}, TypeOK', PageMovesOn,
         pc'[w] \notin {"idle", "subscribed"},
         result'[w] # "event", pc'[w] # "done" => result'[w] = "none",
         \A x \in Waiters \ {w} : pc'[x] = pc[x] /\ result'[x] = result[x],
         \A x \in Navigators \ {w} : page'[x] = page[x],
         UNCHANGED <<client, frames, raised, wish, start, next, console>>
  PROVE  EInv'
<1>1. WaiterOK(w) /\ Channel(w)' = Channel(w) /\ End(Channel(w))' = End(Channel(w))
  BY WaitersOK DEF Channel, End
<1>2. result[w] = "none"
  BY <1>1 DEF WaiterOK, Received
<1>3. WaiterOK(w)'
  BY <1>1, <1>2 DEF WaiterOK, Placed, Received, Unskipped, Matches
<1>4. NavigationsAreAwaited'
  BY DEF EInv, NavigationsAreAwaited, Waiters
<1> QED
  BY <1>3, <1>4, OneWaiterMoves

LEMMA GiveUpEInv ==
  ASSUME EInv, NEW w \in Waiters, GiveUp(w)
  PROVE  EInv'
<1>1. PICK r \in {"timeout", "closed"} : Return(w, r)
  BY DEF GiveUp
<1>2. /\ pc[w] = "waiting"
      /\ UNCHANGED <<client, browser, wish, start, next, reply, console>>
  BY DEF GiveUp
<1>3. TypeOK'
  BY <1>1, <1>2 DEF EInv, TypeOK, Return, Outcomes
<1>4. /\ pc'[w] = "done" /\ result'[w] = r
      /\ \A x \in Waiters \ {w} : pc'[x] = pc[x] /\ result'[x] = result[x]
  BY <1>1 DEF EInv, TypeOK, Return
<1>5. PageMovesOn
  BY <1>2 DEF PageMovesOn
<1> QED
  BY <1>2, <1>3, <1>4, <1>5, WaiterTurns

LEMMA SendNavigateEInv ==
  ASSUME EInv, NEW w \in Navigators, SendNavigate(w)
  PROVE  EInv'
<1>1. /\ w \in Waiters /\ pc[w] = "subscribed" /\ pc' = [pc EXCEPT ![w] = "navigating"]
      /\ page' = [page EXCEPT ![w] = IF reader = "reading" THEN "asked" ELSE @]
      /\ UNCHANGED <<client, frames, raised, wish, start, next, reply, result, console>>
  BY DEF SendNavigate, Waiters
<1>2. result[w] = "none"
  BY <1>1 DEF EInv, EventsAreReceived
<1>3. TypeOK'
  BY <1>1 DEF EInv, TypeOK
<1>4. /\ pc'[w] = "navigating" /\ \A x \in Waiters \ {w} : pc'[x] = pc[x]
      /\ PageMovesOn /\ \A x \in Navigators \ {w} : page'[x] = page[x]
  BY <1>1 DEF EInv, TypeOK, PageMovesOn
<1> QED
  BY <1>1, <1>2, <1>3, <1>4, WaiterTurns

LEMMA NavigationEInv ==
  ASSUME EInv, NEW w \in Navigators,
         NavigationStarted(w) \/ NavigationRefused(w) \/ NavigationFails(w)
  PROVE  EInv'
<1>1. /\ w \in Waiters /\ pc[w] = "navigating"
      /\ UNCHANGED <<client, browser, wish, start, next, reply, console>>
      /\ \/ pc' = [pc EXCEPT ![w] = "waiting"] /\ result' = result
         \/ Return(w, "refused")
         \/ Return(w, "failed")
  BY DEF NavigationStarted, NavigationRefused, NavigationFails, Waiters
<1>2. result[w] = "none"
  BY <1>1 DEF EInv, EventsAreReceived
<1>3. TypeOK'
  BY <1>1 DEF EInv, TypeOK, Return, Outcomes
<1>4. /\ pc'[w] \in {"waiting", "done"} /\ result'[w] # "event"
      /\ pc'[w] # "done" => result'[w] = "none"
      /\ \A x \in Waiters \ {w} : pc'[x] = pc[x] /\ result'[x] = result[x]
  BY <1>1, <1>2 DEF EInv, TypeOK, Return
<1>5. PageMovesOn
  BY <1>1 DEF PageMovesOn
<1> QED
  BY <1>1, <1>3, <1>4, <1>5, WaiterTurns

-----------------------------------------------------------------------------
(* capture_console, and the client value.                                  *)

\* A step of the capture task, of its user, or of the client value.
LEMMA CaptureMoves ==
  ASSUME EInv, TypeOK', CapturePlaced', CallsArePassedOn', ConsumerFollows',
         UNCHANGED <<publishing, log, browser, waiters>>
  PROVE  EInv'
<1>1. LogGrows
  BY LogStays DEF EInv
<1>2. \A w \in Waiters : WaiterOK(w)'
  BY <1>1, WaiterStays
<1>3. ReceiversMoveForward' /\ EventsAreReceived' /\ NothingReadableIsSkipped'
  BY <1>2, PutTogether
<1>4. TargetEventsAreMain' /\ LoadIsNeverMissed'
  BY TargetStays DEF EInv, TargetEventsAreMain
<1>5. LoadsHaveCauses' /\ NavigationsAreAwaited'
  BY DEF EInv, LoadsHaveCauses, NavigationsAreAwaited
<1> QED
  BY <1>3, <1>4, <1>5 DEF EInv

LEMMA CaptureConsoleEInv ==
  ASSUME EInv, CaptureConsole
  PROVE  EInv'
<1>1. /\ capture = "off" /\ capture' = "on" /\ first' = End("events") /\ at' = End("events")
      /\ UNCHANGED <<client, browser, waiters, captured, consumer>>
  BY DEF CaptureConsole
<1>2. End("events") \in Nat /\ End("events") >= 1 /\ End("events")' = End("events")
  BY <1>1, LogTypes DEF EInv, Channels, End
<1>3. TypeOK'
  BY <1>1, <1>2 DEF EInv, TypeOK
<1>4. Called = {} /\ Called' = {}
  BY <1>1, <1>2 DEF EInv, ReceiversMoveForward, Called
<1>5. CallsArePassedOn'
  BY <1>1, <1>4 DEF EInv, CallsArePassedOn
<1>6. CapturePlaced' /\ ConsumerFollows'
  BY <1>1, <1>2 DEF CapturePlaced, EInv, ConsumerFollows
<1> QED
  BY <1>1, <1>3, <1>5, <1>6, CaptureMoves

LEMMA CaptureReceiveEInv ==
  ASSUME EInv, CaptureReceive
  PROVE  EInv'
<1>1. /\ capture = "on" /\ at \in Oldest("events") .. Len(log["events"])
      /\ at' = at + 1
      /\ captured' = IF IsCall(at) THEN Append(captured, at) ELSE captured
      /\ UNCHANGED <<client, browser, waiters, capture, first, consumer>>
  BY DEF CaptureReceive, Available
<1>2. /\ Len(log["events"]) \in Nat /\ first \in 1 .. at /\ at \in Nat /\ first \in Nat
      /\ captured \in Seq(Nat) /\ Len(captured) \in Nat
  BY <1>1, LogTypes DEF EInv, Channels, TypeOK, ReceiversMoveForward
<1>3. TypeOK'
  BY <1>1, <1>2 DEF EInv, TypeOK
<1>4. CapturePlaced'
  BY <1>1, <1>2, OldestBounds DEF CapturePlaced, End, EInv, Channels
<1>5. /\ captured' \in Seq(Nat) /\ Len(captured') \in Nat /\ Len(captured') >= Len(captured)
      /\ \A k \in 1 .. Len(captured) : captured'[k] = captured[k]
      /\ IsCall(at) => Len(captured') = Len(captured) + 1 /\ captured'[Len(captured')] = at
      /\ ~IsCall(at) => captured' = captured
  BY <1>1, <1>2
<1>6. Called' = IF IsCall(at) THEN Called \cup {at} ELSE Called
  <2>1. first .. (at + 1) - 1 = (first .. at - 1) \cup {at}
    BY <1>2
  <2>2. log' = log
    BY <1>1
  <2> QED
    BY <1>1, <2>1, <2>2 DEF Called, IsCall
<1>7. CallsArePassedOn'
  <2>1. /\ \A p \in Called : p \in Nat /\ p < at
        /\ Cardinality(Called') = IF IsCall(at) THEN Cardinality(Called) + 1 ELSE Cardinality(Called)
    <3>1. \A p \in Called : p \in Nat /\ p < at
      BY <1>2 DEF Called
    <3>2. IsFiniteSet(Called)
      <4>1. IsFiniteSet(first .. at - 1)
        BY <1>2, FS_Interval
      <4> QED
        BY <4>1, FS_Subset DEF Called
    <3> QED
      BY <1>6, <3>1, <3>2, FS_AddElement
  <2>2. CallsArePassedOn
    BY DEF EInv
  <2>3. CASE IsCall(at)
    <3>1. Len(captured)' = Cardinality(Called)'
      BY <1>5, <2>1, <2>2, <2>3 DEF CallsArePassedOn
    <3>2. ASSUME NEW k \in 1 .. Len(captured')
          PROVE  captured'[k] \in Called' /\ \A j \in 1 .. k - 1 : captured'[j] < captured'[k]
      <4>1. CASE k = Len(captured')
        <5>1. captured'[k] = at /\ \A j \in 1 .. k - 1 : j \in 1 .. Len(captured)
          BY <1>2, <1>5, <2>3, <4>1
        <5>2. \A j \in 1 .. Len(captured) : captured[j] \in Called
          BY <2>2 DEF CallsArePassedOn
        <5> QED
          BY <1>5, <1>6, <2>1, <2>3, <5>1, <5>2
      <4>2. CASE k # Len(captured')
        BY <1>2, <1>5, <1>6, <2>2, <2>3, <4>2 DEF CallsArePassedOn
      <4> QED
        BY <4>1, <4>2
    <3>3. ASSUME NEW p \in Called'
          PROVE  \E k \in 1 .. Len(captured') : captured'[k] = p
      BY <1>2, <1>5, <1>6, <2>2, <2>3 DEF CallsArePassedOn
    <3> QED
      BY <3>1, <3>2, <3>3 DEF CallsArePassedOn
  <2>4. CASE ~IsCall(at)
    BY <1>5, <1>6, <2>2, <2>4 DEF CallsArePassedOn
  <2> QED
    BY <2>3, <2>4
<1>8. ConsumerFollows'
  <2>1. /\ read \in Nat \ {0} /\ read <= Len(captured) + 1 /\ Len(got) \in Nat /\ missed \in Nat
        /\ got \in Seq(Nat) /\ Len(got) <= read - 1
    BY <1>2 DEF EInv, TypeOK, ConsumerFollows
  <2>2. heard = FALSE
    BY <1>1 DEF EInv, TypeOK, ConsumerFollows
  <2>3. \A k \in 1 .. Len(got) : k \in 1 .. Len(captured)
    BY <1>2, <2>1
  <2>4. \A j \in 1 .. read - 1 : j \in 1 .. Len(captured)
    BY <1>2, <2>1
  <2>5. UNCHANGED <<read, got, missed, heard>>
    BY <1>1
  <2>6. ConsumerFollows
    BY DEF EInv
  <2>7. read <= Len(captured') + 1 /\ Len(got) + missed = read - 1
    BY <1>2, <1>5, <2>1, <2>6 DEF ConsumerFollows
  <2>8. ASSUME NEW k \in 1 .. Len(got)
        PROVE  /\ \E j \in 1 .. read - 1 : got[k] = captured'[j]
               /\ \A j \in 1 .. k - 1 : got[j] < got[k]
               /\ missed = 0 => got[k] = captured'[k]
    BY <1>5, <2>3, <2>4, <2>6, <2>8 DEF ConsumerFollows
  <2> QED
    BY <2>2, <2>5, <2>7, <2>8 DEF ConsumerFollows
<1> QED
  BY <1>1, <1>3, <1>4, <1>7, <1>8, CaptureMoves

LEMMA CaptureEndsEInv ==
  ASSUME EInv, CaptureEnds
  PROVE  EInv'
<1>1. /\ capture = "on" /\ capture' = "ended"
      /\ UNCHANGED <<client, browser, waiters, first, at, captured, consumer>>
  BY DEF CaptureEnds
<1>2. TypeOK' /\ CapturePlaced'
  BY <1>1 DEF EInv, TypeOK, ReceiversMoveForward, CapturePlaced, End
<1>3. CallsArePassedOn' /\ ConsumerFollows'
  BY <1>1 DEF EInv, CallsArePassedOn, Called, IsCall, ConsumerFollows
<1> QED
  BY <1>1, <1>2, <1>3, CaptureMoves

\* A step of the user of capture_console.
LEMMA ConsumerMoves ==
  ASSUME EInv, TypeOK', ConsumerFollows', UNCHANGED <<client, browser, waiters, task>>
  PROVE  EInv'
<1>1. CapturePlaced' /\ CallsArePassedOn'
  BY DEF EInv, ReceiversMoveForward, CapturePlaced, End, CallsArePassedOn, Called, IsCall
<1> QED
  BY <1>1, CaptureMoves

LEMMA OldestCallBounds ==
  ASSUME EInv
  PROVE  /\ OldestCall \in Nat /\ OldestCall >= 1 /\ Len(captured) \in Nat
         /\ OldestCall <= Len(captured) + 1
BY EventsAssumption DEF EInv, TypeOK, OldestCall

LEMMA ConsumeCallEInv ==
  ASSUME EInv, ConsumeCall
  PROVE  EInv'
<1>1. /\ read \in OldestCall .. Len(captured) /\ read' = read + 1
      /\ got' = Append(got, captured[read])
      /\ UNCHANGED <<client, browser, waiters, task, missed, heard>>
  BY DEF ConsumeCall
<1>2. /\ Len(captured) \in Nat /\ read \in 1 .. Len(captured) /\ read \in Nat
      /\ captured \in Seq(Nat) /\ got \in Seq(Nat) /\ Len(got) \in Nat /\ missed \in Nat
  BY <1>1, OldestCallBounds DEF EInv, TypeOK
<1>3. ConsumerFollows /\ CallsArePassedOn
  BY DEF EInv
<1>4. /\ Len(got') = Len(got) + 1 /\ got'[Len(got) + 1] = captured[read]
      /\ \A k \in 1 .. Len(got) : got'[k] = got[k]
  BY <1>1, <1>2
<1>5. TypeOK'
  <2>1. captured[read] \in Nat
    BY <1>2
  <2>2. got' \in Seq(Nat) /\ read' \in Nat \ {0}
    BY <1>1, <1>2, <2>1
  <2> QED
    BY <1>1, <2>2 DEF EInv, TypeOK
<1>6. \A k \in 1 .. Len(got) : \E j \in 1 .. read - 1 : got[k] = captured[j]
  BY <1>3 DEF ConsumerFollows
<1>7. \A k \in 1 .. Len(got) : got[k] < captured[read]
  <2>1. \A j \in 1 .. read - 1 : captured[j] < captured[read]
    BY <1>2, <1>3 DEF CallsArePassedOn
  <2> QED
    BY <1>6, <2>1
<1>8. missed = 0 => Len(got) = read - 1
  BY <1>2, <1>3 DEF ConsumerFollows
<1>9. ASSUME NEW k \in 1 .. Len(got')
      PROVE  /\ \E j \in 1 .. read' - 1 : got'[k] = captured[j]
             /\ \A j \in 1 .. k - 1 : got'[j] < got'[k]
             /\ missed = 0 => got'[k] = captured[k]
  <2>1. CASE k = Len(got) + 1
    <3>1. got'[k] = captured[read] /\ read \in 1 .. read' - 1
      BY <1>1, <1>2, <1>4, <2>1
    <3>2. \A j \in 1 .. k - 1 : got'[j] < got'[k]
      BY <1>2, <1>4, <1>7, <2>1, <3>1
    <3>3. missed = 0 => k = read
      BY <1>2, <1>8, <2>1
    <3> QED
      BY <3>1, <3>2, <3>3
  <2>2. CASE k # Len(got) + 1
    <3>1. k \in 1 .. Len(got) /\ \A j \in 1 .. k - 1 : j \in 1 .. Len(got)
      BY <1>2, <1>4, <2>2
    <3>2. \A j \in 1 .. read - 1 : j \in 1 .. read' - 1
      BY <1>1, <1>2
    <3> QED
      BY <1>3, <1>4, <3>1, <3>2 DEF ConsumerFollows
  <2> QED
    BY <2>1, <2>2
<1>10. ConsumerFollows'
  <2>1. read' <= Len(captured) + 1 /\ Len(got') + missed = read' - 1
    BY <1>1, <1>2, <1>3, <1>4 DEF ConsumerFollows
  <2>2. heard = FALSE
    BY <1>2, <1>3 DEF ConsumerFollows, EInv, TypeOK
  <2> QED
    BY <1>1, <1>9, <2>1, <2>2 DEF ConsumerFollows
<1> QED
  BY <1>1, <1>5, <1>10, ConsumerMoves

LEMMA ConsumeLagEInv ==
  ASSUME EInv, ConsumeLag
  PROVE  EInv'
<1>1. /\ read < OldestCall /\ read' = OldestCall /\ missed' = missed + (OldestCall - read)
      /\ UNCHANGED <<client, browser, waiters, task, got, heard>>
  BY DEF ConsumeLag
<1>2. /\ Len(captured) \in Nat /\ OldestCall \in Nat /\ OldestCall <= Len(captured) + 1
      /\ read \in Nat \ {0} /\ missed \in Nat /\ Len(got) \in Nat
  BY OldestCallBounds DEF EInv, TypeOK
<1>3. TypeOK'
  BY <1>1, <1>2 DEF EInv, TypeOK
<1>4. missed' # 0 /\ \A j \in 1 .. read - 1 : j \in 1 .. read' - 1
  BY <1>1, <1>2
<1>5. read' <= Len(captured) + 1 /\ Len(got) + missed' = read' - 1
  BY <1>1, <1>2 DEF EInv, ConsumerFollows
<1>6. heard = FALSE
  BY <1>1, <1>2 DEF EInv, TypeOK, ConsumerFollows
<1>7. ConsumerFollows'
  BY <1>1, <1>4, <1>5, <1>6 DEF EInv, ConsumerFollows
<1> QED
  BY <1>1, <1>3, <1>7, ConsumerMoves

LEMMA ConsumeEndEInv ==
  ASSUME EInv, ConsumeEnd
  PROVE  EInv'
<1>1. /\ capture = "ended" /\ read > Len(captured) /\ heard' = TRUE
      /\ UNCHANGED <<client, browser, waiters, task, read, got, missed>>
  BY DEF ConsumeEnd
<1>2. TypeOK' /\ ConsumerFollows'
  BY <1>1 DEF EInv, TypeOK, ConsumerFollows
<1> QED
  BY <1>1, <1>2, ConsumerMoves

LEMMA DropClientEInv ==
  ASSUME EInv, DropClient
  PROVE  EInv'
<1>1. alive' = FALSE /\ UNCHANGED <<reader, publishing, log, browser, waiters, console>>
  BY DEF DropClient
<1>2. TypeOK' /\ CapturePlaced'
  BY <1>1 DEF EInv, TypeOK, ReceiversMoveForward, CapturePlaced, End
<1>3. CallsArePassedOn' /\ ConsumerFollows'
  BY <1>1 DEF EInv, CallsArePassedOn, Called, IsCall, ConsumerFollows
<1> QED
  BY <1>1, <1>2, <1>3, CaptureMoves

-----------------------------------------------------------------------------
(* The invariant.                                                          *)

LEMMA InitEInv == Init => EInv
<1> SUFFICES ASSUME Init PROVE EInv
  OBVIOUS
<1> USE DEF Init
<1>1. TypeOK
  <2>1. /\ log \in [Channels -> Seq(Event)] /\ frames \in Seq(Frame) /\ raised \in 0 .. MaxEvents
        /\ wish \in [Waiters -> [from : Targets, method : Methods]]
    BY EventsAssumption DEF Channels, Targets, Methods
  <2>2. captured \in Seq(Nat) /\ got \in Seq(Nat) /\ read \in Nat \ {0} /\ missed \in Nat
    OBVIOUS
  <2> QED
    BY <2>1, <2>2, EventsAssumption DEF TypeOK, Outcomes
<1>2. /\ Len(frames) = 0 /\ Len(log["events"]) = 0
  BY DEF Channels
<1>3. TargetEventsAreMain /\ LoadsHaveCauses /\ LoadIsNeverMissed
  BY <1>2 DEF TargetEventsAreMain, LoadsHaveCauses, LoadIsNeverMissed
<1>4. ReceiversMoveForward /\ EventsAreReceived /\ NothingReadableIsSkipped
  BY DEF ReceiversMoveForward, EventsAreReceived, NothingReadableIsSkipped
<1>5. NavigationsAreAwaited
  BY DEF NavigationsAreAwaited, Waiters
<1>6. CallsArePassedOn /\ ConsumerFollows
  <2>1. Called = {} /\ Cardinality({}) = 0
    BY FS_EmptySet DEF Called
  <2> QED
    BY <2>1 DEF CallsArePassedOn, ConsumerFollows
<1> QED
  BY <1>1, <1>3, <1>4, <1>5, <1>6 DEF EInv

LEMMA NextEInv == EInv /\ [Next]_vars => EInv'
<1> SUFFICES ASSUME EInv, [Next]_vars PROVE EInv'
  OBVIOUS
<1>1. CASE Reader \/ ReaderEnds
  BY <1>1, PublishEInv, PublishToTargetEInv, RouteReplyEInv, ReaderEndsEInv DEF Reader
<1>2. CASE Capturing \/ Consuming \/ CaptureConsole \/ DropClient
  BY <1>2, CaptureReceiveEInv, CaptureEndsEInv, ConsumeCallEInv, ConsumeLagEInv, ConsumeEndEInv,
     CaptureConsoleEInv, DropClientEInv DEF Capturing, Consuming
<1>3. ASSUME NEW w \in Watchers, NEW t \in Targets, NEW m \in Methods, WaitForEvent(w, t, m)
      PROVE  EInv'
  BY <1>3, SubscribeEInv, EventsAssumption DEF WaitForEvent, Waiters
<1>4. ASSUME NEW w \in Waiters, Waiting(w)
      PROVE  EInv'
  BY <1>4, SkipLagEInv, ReceiveEInv, GiveUpEInv DEF Waiting
<1>5. ASSUME NEW w \in Navigators, NavigateAndWait(w)
      PROVE  EInv'
  BY <1>5, SubscribeEInv DEF NavigateAndWait, Waiters, Targets, Methods
<1>6. ASSUME NEW w \in Navigators,
             \/ SendNavigate(w) \/ NavigationStarted(w)
             \/ NavigationRefused(w) \/ NavigationFails(w)
      PROVE  EInv'
  BY <1>6, SendNavigateEInv, NavigationEInv
<1>7. ASSUME NEW w \in Navigators, FireLoad(w) \/ \E ok \in BOOLEAN : AnswerNavigate(w, ok)
      PROVE  EInv'
  BY <1>7, FireLoadEInv, AnswerNavigateEInv
<1>8. ASSUME NEW t \in Targets, NEW m \in Methods, RaiseEvent(t, m)
      PROVE  EInv'
  BY <1>8, RaiseEventEInv
<1>9. CASE UNCHANGED vars
  <2>1. TypeOK' /\ LogGrows
    BY <1>9, LogStays DEF EInv, TypeOK
  <2> QED
    BY <1>9, <2>1, CaptureStays, CaptureMoves
<1> QED
  BY <1>1, <1>2, <1>3, <1>4, <1>5, <1>6, <1>7, <1>8, <1>9 DEF Next

\* EInv is the inductive invariant of the event path.
THEOREM InductiveInvariant == Spec => []EInv
<1>1. Init => EInv
  BY InitEInv
<1>2. EInv /\ [Next]_vars => EInv'
  BY NextEInv
<1> QED
  BY <1>1, <1>2, PTL DEF Spec

-----------------------------------------------------------------------------
(* What follows from it.                                                   *)

\* The types of the event path's state.
THEOREM TypeCorrect == Spec => []TypeOK
<1>1. EInv => TypeOK
  BY DEF EInv
<1> QED
  BY <1>1, InductiveInvariant, PTL

\* wait_for_event and navigate_and_wait return an event only of the target and method
\* they wait for, published after they subscribed.
THEOREM WaitersWakeForTheirTargetHolds == Spec => []WaitersWakeForTheirTarget
<1>1. EInv => WaitersWakeForTheirTarget
  <2> SUFFICES ASSUME EInv, NEW w \in Waiters, result[w] = "event"
               PROVE  /\ next[w] - 1 >= start[w]
                      /\ log[Channel(w)][next[w] - 1].from = wish[w].from
                      /\ log[Channel(w)][next[w] - 1].method = wish[w].method
    BY DEF WaitersWakeForTheirTarget
  <2> DEFINE p == next[w] - 1
  <2>1. pc[w] = "done" /\ next[w] > start[w] /\ Matches(w, log[Channel(w)][p])
    BY DEF EInv, EventsAreReceived
  <2>2. /\ start[w] \in 1 .. next[w] /\ next[w] \in 1 .. End(Channel(w))
        /\ start[w] \in Nat /\ next[w] \in Nat /\ Len(log[Channel(w)]) \in Nat
    BY <2>1, LogTypes, ChannelTypes DEF EInv, ReceiversMoveForward, TypeOK
  <2>3. p \in 1 .. Len(log[Channel(w)]) /\ p >= start[w]
    BY <2>1, <2>2 DEF End
  <2>4. CASE wish[w].from = Main
    BY <2>1, <2>3, <2>4 DEF EInv, TargetEventsAreMain, Channel, Matches
  <2>5. CASE wish[w].from # Main
    BY <2>1, <2>3, <2>5 DEF Matches
  <2> QED
    BY <2>4, <2>5, <2>1, <2>3 DEF Matches
<1> QED
  BY <1>1, InductiveInvariant, PTL

\* The recv loops pass over a matching event only where the ring had dropped it.
THEOREM NothingReadableIsSkippedHolds == Spec => []NothingReadableIsSkipped
<1>1. EInv => NothingReadableIsSkipped
  BY DEF EInv
<1> QED
  BY <1>1, InductiveInvariant, PTL

\* navigate_and_wait subscribes before it navigates, so its load comes after.
THEOREM LoadIsNeverMissedHolds == Spec => []LoadIsNeverMissed
<1>1. EInv => LoadIsNeverMissed
  BY DEF EInv
<1> QED
  BY <1>1, InductiveInvariant, PTL

\* The user of capture_console gets the console calls in order, with no gap it is not told
\* of, whatever the size of the channel in between.
THEOREM CaptureHasNoGapsHolds == Spec => []CaptureHasNoGaps
<1>1. EInv => CaptureHasNoGaps
  <2> SUFFICES ASSUME EInv PROVE CaptureHasNoGaps
    OBVIOUS
  <2>1. /\ captured \in Seq(Nat) /\ got \in Seq(Nat) /\ Len(captured) \in Nat /\ Len(got) \in Nat
        /\ read \in Nat \ {0} /\ missed \in Nat
    BY DEF EInv, TypeOK
  <2>2. ConsumerFollows /\ CallsArePassedOn
    BY DEF EInv
  <2>3. /\ read <= Len(captured) + 1 /\ Len(got) + missed = read - 1
        /\ \A j \in 1 .. read - 1 : j \in 1 .. Len(captured)
        /\ \A k \in 1 .. Len(got) : k \in 1 .. Len(captured)
    BY <2>1, <2>2 DEF ConsumerFollows
  <2>4. \A k \in 1 .. Len(got) : got[k] \in Called /\ \A j \in 1 .. k - 1 : got[j] < got[k]
    BY <2>2, <2>3 DEF ConsumerFollows, CallsArePassedOn
  <2>5. ASSUME missed = 0, NEW k \in 1 .. Len(got), NEW p \in Called, p <= got[k]
        PROVE  \E j \in 1 .. k : got[j] = p
    <3>1. PICK j \in 1 .. Len(captured) : captured[j] = p
      BY <2>2 DEF CallsArePassedOn
    <3>2. got[k] = captured[k] /\ k \in 1 .. Len(captured)
      BY <2>2, <2>3, <2>5 DEF ConsumerFollows
    <3>3. j <= k
      <4>1. CASE j > k
        <5>1. captured[k] < captured[j] /\ captured[k] \in Nat /\ captured[j] \in Nat
          BY <2>1, <2>2, <3>2, <4>1 DEF CallsArePassedOn
        <5> QED
          BY <2>5, <3>1, <3>2, <5>1
      <4> QED
        BY <2>1, <4>1
    <3>4. j \in 1 .. k /\ j \in 1 .. Len(got)
      BY <2>1, <3>3
    <3> QED
      BY <2>2, <2>5, <3>1, <3>4 DEF ConsumerFollows
  <2>6. heard \/ read > Len(captured) => Len(got) + missed = Cardinality(Called)
    BY <2>1, <2>2, <2>3 DEF ConsumerFollows, CallsArePassedOn
  <2> QED
    BY <2>4, <2>5, <2>6 DEF CaptureHasNoGaps
<1> QED
  BY <1>1, InductiveInvariant, PTL
===============================================================================
