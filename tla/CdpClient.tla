------------------------------ MODULE CdpClient ------------------------------
(***************************************************************************)
(* The command path of CdpClient: the futures of send_command_on, the      *)
(* pending map they share with the reader task, the unbounded queue that   *)
(* feeds the writer task, and the WebSocket to a browser that may answer   *)
(* late, out of order or never, or stop reading, and whose link may end at *)
(* any moment.                                                             *)
(*                                                                         *)
(* One element of Calls is one call of send_command_on.  A future runs     *)
(* from one await to the next without giving up its thread, but on a       *)
(* multi-threaded runtime the other tasks run at the same time, so there   *)
(* is one step per access to shared state.                                 *)
(*                                                                         *)
(* Frames that carry no id (events) touch nothing here.                    *)
(***************************************************************************)
EXTENDS Integers, Sequences, FiniteSets

CONSTANTS Calls,        \* the calls of send_command_on
          Cancellable,  \* those whose future the caller may drop
          Replies,      \* what the browser may answer: results and rejections
          Durations     \* arguments of set_command_timeout, in microseconds

Empty    == "empty"     \* no reply yet, no outcome yet
Closed   == "closed"    \* CdpError::Protocol("connection closed")
TimedOut == "timed out" \* CdpError::Timeout
Refused  == "refused"   \* CdpError::Protocol: the queue has no receiver left

ASSUME CallsAssumption ==
    /\ Cancellable \subseteq Calls
    /\ Replies \cap {Empty, Closed, TimedOut, Refused} = {}
    /\ Durations \subseteq Nat

VARIABLES
    alive,      \* the CdpClient value has not been dropped
    nextId,     \* the id the next command takes
    timeoutMs,  \* command_timeout_ms; 0 disables the timeout
    pc,         \* where each future is
    id,         \* the id it took, 0 before
    timed,      \* whether its wait is bounded by the timeout
    slot,       \* its oneshot channel: Empty, a reply, or Closed
    outcome,    \* what it returned
    pending,    \* the pending map: id -> the call whose sender it holds
    outgoing,   \* the queue of frames for the writer, each named by its id
    writer,     \* the writer task: "running" or "ended"
    reader,     \* the reader task: "reading", "abandoning" or "ended"
    link,       \* the socket: "up", "stalled" once the browser stops reading, or "down"
    received,   \* commands the browser has and has not answered
    answer,     \* id -> what the browser answered
    frames      \* replies on their way to the reader

handle  == <<alive, nextId, timeoutMs>>
futures == <<pc, id, timed, slot, outcome>>
browser == <<received, answer, frames>>
vars    == <<handle, futures, pending, outgoing, writer, reader, link, browser>>

States == {"idle", "allocated", "registered", "waiting",
           "refused", "expired", "done", "cancelled"}

TypeOK ==
    /\ alive \in BOOLEAN
    /\ nextId \in Nat \ {0}
    /\ timeoutMs \in Nat
    /\ pc \in [Calls -> States]
    /\ id \in [Calls -> Nat]
    /\ timed \in [Calls -> BOOLEAN]
    /\ slot \in [Calls -> Replies \cup {Empty, Closed}]
    /\ outcome \in [Calls -> Replies \cup {Empty, Closed, TimedOut, Refused}]
    /\ DOMAIN pending \subseteq Nat /\ pending \in [DOMAIN pending -> Calls]
    /\ outgoing \in Seq(Nat)
    /\ writer \in {"running", "ended"}
    /\ reader \in {"reading", "abandoning", "ended"}
    /\ link \in {"up", "stalled", "down"}
    /\ received \subseteq Nat
    /\ DOMAIN answer \subseteq Nat /\ answer \in [DOMAIN answer -> Replies]
    /\ frames \in Seq([id : Nat, reply : Replies])

\* connect: both tasks spawned, ids start at 1, the default timeout is 30 s.
Init ==
    /\ alive = TRUE
    /\ nextId = 1
    /\ timeoutMs = 30000
    /\ pc = [c \in Calls |-> "idle"]
    /\ id = [c \in Calls |-> 0]
    /\ timed = [c \in Calls |-> FALSE]
    /\ slot = [c \in Calls |-> Empty]
    /\ outcome = [c \in Calls |-> Empty]
    /\ pending = << >>
    /\ outgoing = << >>
    /\ writer = "running"
    /\ reader = "reading"
    /\ link = "up"
    /\ received = {}
    /\ answer = << >>
    /\ frames = << >>

-----------------------------------------------------------------------------
(* The pending map and the oneshot channels.                               *)

\* HashMap::insert and HashMap::remove.
Insert(map, i, x) == [j \in DOMAIN map \cup {i} |-> IF j = i THEN x ELSE map[j]]
Remove(map, i)    == [j \in DOMAIN map \ {i} |-> map[j]]

\* The future still holds its receiver, so a send reaches it.
Listening(c) == pc[c] \in {"registered", "waiting"}

\* The caller is inside send_command_on.
Active(c) == pc[c] \in {"allocated", "registered", "waiting", "refused", "expired"}
Over(c)   == pc[c] \in {"done", "cancelled"}

-----------------------------------------------------------------------------
(* send_command_on, one action per access to shared state.                 *)

\* Mutation: the frame is queued before the sender is registered.
AllocateAndSend(c) ==
    /\ alive /\ pc[c] = "idle"
    /\ pc' = [pc EXCEPT ![c] = "allocated"]
    /\ id' = [id EXCEPT ![c] = nextId]
    /\ nextId' = nextId + 1
    /\ outgoing' = Append(outgoing, nextId)
    /\ UNCHANGED <<alive, timeoutMs, timed, slot, outcome, pending, writer,
                   reader, link, browser>>

\* next_id.fetch_add: the call takes an id before it touches the map.
Allocate(c) ==
    /\ alive /\ pc[c] = "idle"
    /\ pc' = [pc EXCEPT ![c] = "allocated"]
    /\ id' = [id EXCEPT ![c] = nextId]
    /\ nextId' = nextId + 1
    /\ UNCHANGED <<alive, timeoutMs, timed, slot, outcome, pending, outgoing,
                   writer, reader, link, browser>>

\* The sender goes in the map, under its lock.
Register(c) ==
    /\ pc[c] = "allocated"
    /\ pc' = [pc EXCEPT ![c] = "registered"]
    /\ pending' = Insert(pending, id[c], c)
    /\ UNCHANGED <<handle, id, timed, slot, outcome, outgoing, writer, reader,
                   link, browser>>

\* Mutation: a bounded queue that refuses a frame while one is waiting.
EnqueueBounded(c) ==
    /\ pc[c] = "registered"
    /\ IF writer = "ended" \/ outgoing # << >>
       THEN pc' = [pc EXCEPT ![c] = "refused"] /\ UNCHANGED <<outgoing, timed>>
       ELSE /\ pc' = [pc EXCEPT ![c] = "waiting"]
            /\ outgoing' = Append(outgoing, id[c])
            /\ timed' = [timed EXCEPT ![c] = timeoutMs # 0]
    /\ UNCHANGED <<handle, id, slot, outcome, pending, writer, reader, link,
                   browser>>

\* tx.send fails only when the writer has dropped the receiver.  The timeout
\* that bounds the wait is the one in force once the frame is queued.
Enqueue(c) ==
    /\ pc[c] = "registered"
    /\ \/ /\ writer = "running"
          /\ pc' = [pc EXCEPT ![c] = "waiting"]
          /\ outgoing' = Append(outgoing, id[c])
          /\ timed' = [timed EXCEPT ![c] = timeoutMs # 0]
       \/ /\ writer = "ended"
          /\ pc' = [pc EXCEPT ![c] = "refused"]
          /\ UNCHANGED <<outgoing, timed>>
    /\ UNCHANGED <<handle, id, slot, outcome, pending, writer, reader, link,
                   browser>>

\* The future returns.
Return(c, o) ==
    /\ pc' = [pc EXCEPT ![c] = "done"]
    /\ outcome' = [outcome EXCEPT ![c] = o]

\* The writer is gone: take the entry back out of the map and say so.
Retract(c) ==
    /\ pc[c] = "refused"
    /\ pending' = Remove(pending, id[c])
    /\ Return(c, Refused)
    /\ UNCHANGED <<handle, id, timed, slot, outgoing, writer, reader, link,
                   browser>>

\* The receiver yields what was sent to it.
Resume(c) ==
    /\ pc[c] = "waiting" /\ slot[c] # Empty
    /\ Return(c, slot[c])
    /\ UNCHANGED <<handle, id, timed, slot, pending, outgoing, writer, reader,
                   link, browser>>

\* tokio::time::timeout polls the receiver before the timer, and drops it when
\* the timer wins; the entry is still in the map.
Expire(c) ==
    /\ pc[c] = "waiting" /\ timed[c] /\ slot[c] = Empty
    /\ pc' = [pc EXCEPT ![c] = "expired"]
    /\ UNCHANGED <<handle, id, timed, slot, outcome, pending, outgoing, writer,
                   reader, link, browser>>

\* Mutation: the timed-out command leaves its entry behind.
GiveUpKeepingEntry(c) ==
    /\ pc[c] = "expired"
    /\ Return(c, TimedOut)
    /\ UNCHANGED <<handle, id, timed, slot, pending, outgoing, writer, reader,
                   link, browser>>

\* Mutation: the map's lock is still held from the registration, and the future
\* waits for itself.
GiveUpDeadlocked(c) ==
    /\ FALSE /\ UNCHANGED vars

\* The entry leaves the map, unless a late reply already took it.
GiveUp(c) ==
    /\ pc[c] = "expired"
    /\ pending' = Remove(pending, id[c])
    /\ Return(c, TimedOut)
    /\ UNCHANGED <<handle, id, timed, slot, outgoing, writer, reader, link,
                   browser>>

\* The caller drops the future at one of its awaits: the map's lock (three
\* times) or the receiver.  Nothing cleans up after it.
Cancel(c) ==
    /\ c \in Cancellable
    /\ pc[c] \in {"allocated", "waiting", "refused", "expired"}
    /\ pc' = [pc EXCEPT ![c] = "cancelled"]
    /\ UNCHANGED <<handle, id, timed, slot, outcome, pending, outgoing, writer,
                   reader, link, browser>>

-----------------------------------------------------------------------------
(* The client value.                                                       *)

\* Mutation: the sub-millisecond part is subtracted instead of dropped.
MillisUnderflow(d) == d - 1000

\* Duration::as_millis truncates (its saturation at u64::MAX is not modelled).
Millis(d) == d \div 1000

SetCommandTimeout(d) ==
    /\ alive
    /\ timeoutMs' = Millis(d)
    /\ UNCHANGED <<alive, nextId, futures, pending, outgoing, writer, reader,
                   link, browser>>

\* Futures borrow the client, so it is dropped when none is left.
DropClient ==
    /\ alive /\ \A c \in Calls : ~Active(c)
    /\ alive' = FALSE
    /\ UNCHANGED <<nextId, timeoutMs, futures, pending, outgoing, writer,
                   reader, link, browser>>

-----------------------------------------------------------------------------
(* The writer task.                                                        *)

\* sink.send returns: the browser reads the frame or, once the link is down, the
\* local buffers accept it and it goes nowhere.
WriteFrame ==
    /\ writer = "running" /\ outgoing # << >>
    /\ link # "stalled"
    /\ outgoing' = Tail(outgoing)
    /\ received' = IF link = "up" THEN received \cup {Head(outgoing)} ELSE received
    /\ UNCHANGED <<handle, futures, pending, writer, reader, link, answer, frames>>

\* The browser no longer reads, but there is room for the frame on the way to it.
\* When there is none left sink.send waits, for ever if nothing changes.
BufferFrame ==
    /\ writer = "running" /\ outgoing # << >>
    /\ link = "stalled"
    /\ outgoing' = Tail(outgoing)
    /\ UNCHANGED <<handle, futures, pending, writer, reader, link, browser>>

\* The socket refuses the frame: the task ends and the queue dies with it.
WriteFails ==
    /\ writer = "running" /\ outgoing # << >>
    /\ link = "down"
    /\ writer' = "ended"
    /\ outgoing' = << >>
    /\ UNCHANGED <<handle, futures, pending, reader, link, browser>>

\* Mutation: the task never learns that the client is gone.
WriterNeverDone ==
    /\ FALSE /\ UNCHANGED vars

\* The client is dropped and the queue drained: recv yields None.
WriterDone ==
    /\ writer = "running" /\ outgoing = << >> /\ ~alive
    /\ writer' = "ended"
    /\ UNCHANGED <<handle, futures, pending, outgoing, reader, link, browser>>

-----------------------------------------------------------------------------
(* The browser and the link: code outside the crate.                       *)

\* Commands run in any order, each is answered at most once.
Answer(i, r) ==
    /\ link # "down" /\ i \in received
    /\ received' = received \ {i}
    /\ answer' = Insert(answer, i, r)
    /\ frames' = Append(frames, [id |-> i, reply |-> r])
    /\ UNCHANGED <<handle, futures, pending, outgoing, writer, reader, link>>

\* The browser reads no more and leaves the link open.  (A browser that goes on later
\* has only been slow.)
StopReading ==
    /\ link = "up"
    /\ link' = "stalled"
    /\ UNCHANGED <<handle, futures, pending, outgoing, writer, reader, browser>>

\* The peer closes or the connection breaks; some of the last replies may be lost.
LoseLink ==
    /\ link # "down"
    /\ link' = "down"
    /\ received' = {}
    /\ \E n \in 0 .. Len(frames) : frames' = SubSeq(frames, 1, n)
    /\ UNCHANGED <<handle, futures, pending, outgoing, writer, reader, answer>>

-----------------------------------------------------------------------------
(* The reader task.                                                        *)

\* Mutation: replies are taken to come in the order of their commands.
DeliverInOrder(i, reply) ==
    IF DOMAIN pending # {}
    THEN LET j == CHOOSE k \in DOMAIN pending : \A l \in DOMAIN pending : k <= l IN
         /\ pending' = Remove(pending, j)
         /\ slot' = IF Listening(pending[j])
                    THEN [slot EXCEPT ![pending[j]] = reply] ELSE slot
    ELSE UNCHANGED <<pending, slot>>

\* Hand a reply to whoever waits on its id, if anyone still does.  The map's
\* lock is held from the removal to the send.
Deliver(i, reply) ==
    IF i \in DOMAIN pending
    THEN /\ pending' = Remove(pending, i)
         /\ slot' = IF Listening(pending[i])
                    THEN [slot EXCEPT ![pending[i]] = reply] ELSE slot
    ELSE UNCHANGED <<pending, slot>>

\* A text frame with an id: route hands it to deliver.
ReadReply ==
    /\ reader = "reading" /\ frames # << >>
    /\ frames' = Tail(frames)
    /\ Deliver(Head(frames).id, Head(frames).reply)
    /\ UNCHANGED <<handle, pc, id, timed, outcome, outgoing, writer, reader,
                   link, received, answer>>

\* A close frame, or the end of the stream after everything it carried.
ReadEnd ==
    /\ reader = "reading" /\ frames = << >> /\ link = "down"
    /\ reader' = "abandoning"
    /\ UNCHANGED <<handle, futures, pending, outgoing, writer, link, browser>>

\* A message the stream reports as an error (too large, malformed) ends the task
\* too, with the link still able to carry what the writer sends.
ReadFails ==
    /\ reader = "reading"
    /\ reader' = "abandoning"
    /\ UNCHANGED <<handle, futures, pending, outgoing, writer, link, browser>>

\* Mutation: the task ends without failing anyone.
AbandonNobody ==
    /\ reader = "abandoning"
    /\ reader' = "ended"
    /\ UNCHANGED <<handle, futures, pending, outgoing, writer, link, browser>>

\* Mutation: the map is emptied and the senders dropped unused.
AbandonSilently ==
    /\ reader = "abandoning"
    /\ reader' = "ended"
    /\ pending' = << >>
    /\ UNCHANGED <<handle, futures, outgoing, writer, link, browser>>

\* abandon_pending: under the map's lock, every sender is told and dropped.
AbandonPending ==
    /\ reader = "abandoning"
    /\ reader' = "ended"
    /\ pending' = << >>
    /\ slot' = [c \in Calls |->
                  IF Listening(c) /\ \E i \in DOMAIN pending : pending[i] = c
                  THEN Closed ELSE slot[c]]
    /\ UNCHANGED <<handle, pc, id, timed, outcome, outgoing, writer, link, browser>>

-----------------------------------------------------------------------------
Future(c) == \/ Register(c) \/ Enqueue(c) \/ Retract(c)
             \/ Resume(c) \/ Expire(c) \/ GiveUp(c)
Writer    == WriteFrame \/ WriteFails \/ WriterDone
Reader    == ReadReply \/ ReadEnd \/ AbandonPending

Next ==
    \/ \E c \in Calls : Allocate(c) \/ Future(c) \/ Cancel(c)
    \/ \E d \in Durations : SetCommandTimeout(d)
    \/ DropClient
    \/ Writer \/ BufferFrame
    \/ Reader
    \/ ReadFails
    \/ \E i \in received, r \in Replies : Answer(i, r)
    \/ StopReading \/ LoseLink

Spec == Init /\ [][Next]_vars

\* The runtime polls every ready task, and time passes.  Nothing is asked of the
\* browser, of the link or of the callers: the writer goes on with a frame only while
\* the browser reads or the link is down, whose socket takes or refuses what is sent.
Fairness ==
    /\ WF_vars(Writer)
    /\ WF_vars(Reader)
    /\ \A c \in Calls : WF_vars(Future(c))

FairSpec == Spec /\ Fairness

-----------------------------------------------------------------------------
(* What the client promises.                                               *)

\* A reply reaches the call it answers and no other: what a call returns, if
\* anything of the browser's, is the answer to the id that call took, however
\* the replies were ordered and whoever timed out meanwhile.
RepliesReachTheirCallers ==
    \A c \in Calls : outcome[c] \in Replies =>
        id[c] \in DOMAIN answer /\ answer[id[c]] = outcome[c]

\* A command is in the map before the browser can see it: a reply can never
\* overtake the registration of the call it answers.
RegisteredBeforeSent ==
    \A c \in Calls : pc[c] = "allocated" =>
        /\ \A k \in 1 .. Len(outgoing) : outgoing[k] # id[c]
        /\ id[c] \notin received \cup DOMAIN answer

\* A call that waits with nothing in its channel still has its sender in the map,
\* so the "response channel closed" branches of send_command_on are unreachable.
WaitersAreRegistered ==
    \A c \in Calls : Listening(c) /\ slot[c] = Empty =>
        id[c] \in DOMAIN pending /\ pending[id[c]] = c

\* The map holds only calls that have yet to return: commands that were answered,
\* failed, refused or timed out leave nothing behind (a dropped future does).
NoDanglingEntry ==
    \A i \in DOMAIN pending :
        Active(pending[i]) \/ pc[pending[i]] = "cancelled"

\* The connection can no longer serve everyone: the link or the reader is gone.
Broken == link = "down" \/ reader # "reading"

\* Futures, map, queue and tasks implement the service: each call settles once,
\* with its own answer, a timeout, or an error that is true of the connection.
Phase(c)    == CASE pc[c] = "idle"      -> "new"
                 [] pc[c] = "done"      -> "settled"
                 [] pc[c] = "cancelled" -> "abandoned"
                 [] OTHER               -> "open"
AnswerTo(c) == IF pc[c] # "idle" /\ id[c] \in DOMAIN answer
               THEN answer[id[c]] ELSE Empty

Service == INSTANCE CommandService
             WITH phase   <- [c \in Calls |-> Phase(c)],
                  verdict <- outcome,
                  reply   <- [c \in Calls |-> AnswerTo(c)],
                  broken  <- Broken

ImplementsCommandService == Service!Spec

-----------------------------------------------------------------------------
(* The inductive invariant behind them, proved in CdpClient_proofs.        *)

\* Ids in use are below nextId and belong to one call each.
IdsAreUnique ==
    /\ \A c \in Calls : pc[c] # "idle" => id[c] < nextId
    /\ \A c, d \in Calls :
          pc[c] # "idle" /\ pc[d] # "idle" /\ id[c] = id[d] => c = d

\* An entry is keyed by its call's id, and its sender is still unused.
EntriesAreOwned ==
    \A i \in DOMAIN pending : LET c == pending[i] IN
        /\ id[c] = i
        /\ pc[c] \in {"registered", "waiting", "refused", "expired", "cancelled"}
        /\ Listening(c) => slot[c] = Empty

\* Nothing is in a call's channel before the call is registered, and nothing is
\* returned before it returns.
EarlyCallsAreBlank ==
    \A c \in Calls :
        /\ pc[c] \in {"idle", "allocated"} => slot[c] = Empty
        /\ pc[c] # "done" => outcome[c] = Empty

\* What travels to a caller is what the browser answered to its id.
RepliesAreAuthentic ==
    /\ \A k \in 1 .. Len(frames) :
          frames[k].id \in DOMAIN answer /\ answer[frames[k].id] = frames[k].reply
    /\ \A c \in Calls : slot[c] \in Replies =>
          id[c] \in DOMAIN answer /\ answer[id[c]] = slot[c]

Queued == {outgoing[k] : k \in 1 .. Len(outgoing)}

\* The call may have queued its frame.
Sent(c) == pc[c] \in {"waiting", "expired", "done", "cancelled"}

\* A command is in one place on its way to the browser, and is there only after
\* its call has queued it.
OnceOnTheWire ==
    /\ \A j, k \in 1 .. Len(outgoing) : outgoing[j] = outgoing[k] => j = k
    /\ Queued \cap (received \cup DOMAIN answer) = {}
    /\ received \cap DOMAIN answer = {}
    /\ \A i \in Queued \cup received \cup DOMAIN answer :
          \E c \in Calls : Sent(c) /\ id[c] = i

\* Errors about the connection are told only of a connection that is gone.
ErrorsAreHonest ==
    /\ \A c \in Calls : Active(c) => alive
    /\ writer = "ended" => ~alive \/ link = "down"
    /\ \A c \in Calls : slot[c] = Closed \/ pc[c] = "refused" => Broken

IInv ==
    /\ TypeOK
    /\ IdsAreUnique
    /\ EntriesAreOwned
    /\ WaitersAreRegistered
    /\ EarlyCallsAreBlank
    /\ RepliesAreAuthentic
    /\ RepliesReachTheirCallers
    /\ OnceOnTheWire
    /\ ErrorsAreHonest

-----------------------------------------------------------------------------
(* What must eventually happen, under Fairness.                            *)

\* A call returns unless it waits with no timeout: it is never stuck on the
\* queue, on a writer that ended, or on the way out of a timeout.
TimedCallsReturn ==
    \A c \in Calls :
        Active(c) ~> (Over(c) \/ (pc[c] = "waiting" /\ ~timed[c]))

\* A call in the map when the connection ends returns, timeout or not.
InFlightFailAtTheEnd ==
    \A c \in Calls :
        (/\ reader = "abandoning"
         /\ Listening(c) /\ id[c] \in DOMAIN pending) ~> Over(c)

\* A call whose reply is on its way to a reader that still reads returns, timeout
\* or not, whatever becomes of the reply: if it is lost the reader fails the call.
AnsweredCallsReturn ==
    \A c \in Calls :
        (/\ Active(c) /\ reader = "reading"
         /\ \E k \in 1 .. Len(frames) : frames[k].id = id[c]) ~> Over(c)

\* The writer has a frame that the browser's full socket does not take.
Stalled == link = "stalled" /\ outgoing # << >>

\* Dropping the client ends the writer task once it has sent what was queued.  The one
\* thing that keeps it is a browser that for good neither reads nor lets the link go.
WriterEndsWithClient == ~alive ~> (writer = "ended" \/ []Stalled)

\* connect: its tasks "pump ... for the lifetime of the returned client".
ReaderEndsWithClient == ~alive ~> reader = "ended"

\* read_incoming: however the stream ends, "the commands still in flight are
\* failed rather than left to time out".
NobodyLeftToTimeOut ==
    reader = "ended" =>
        \A c \in Calls : pc[c] = "waiting" => slot[c] # Empty
=============================================================================
