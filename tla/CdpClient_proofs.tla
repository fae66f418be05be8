--------------------------- MODULE CdpClient_proofs ---------------------------
(***************************************************************************)
(* Proofs about CdpClient, for every set of calls, replies and durations.  *)
(***************************************************************************)
EXTENDS CdpClient, QueueLemmas, TLAPS

USE DEF handle, futures, browser, vars

-----------------------------------------------------------------------------
(* Type correctness.                                                       *)

LEMMA InitTypeOK == Init => TypeOK
  BY CallsAssumption DEF Init, TypeOK, States

LEMMA NextTypeOK == TypeOK /\ [Next]_vars => TypeOK'
<1> SUFFICES ASSUME TypeOK, [Next]_vars PROVE TypeOK'
  OBVIOUS
<1> USE CallsAssumption DEF TypeOK, States
<1>1. ASSUME NEW c \in Calls, Allocate(c) PROVE TypeOK'
  BY <1>1 DEF Allocate
<1>2. ASSUME NEW c \in Calls, Register(c) PROVE TypeOK'
  BY <1>2 DEF Register, Insert
<1>3. ASSUME NEW c \in Calls, Enqueue(c) PROVE TypeOK'
  <2>1. outgoing' = outgoing \/ outgoing' = Append(outgoing, id[c])
    BY <1>3 DEF Enqueue
  <2>2. Append(outgoing, id[c]) \in Seq(Nat)
    OBVIOUS
  <2> QED
    BY <1>3, <2>1, <2>2 DEF Enqueue
<1>4. ASSUME NEW c \in Calls, Retract(c) PROVE TypeOK'
  BY <1>4 DEF Retract, Return, Remove
<1>5. ASSUME NEW c \in Calls, Resume(c) PROVE TypeOK'
  BY <1>5 DEF Resume, Return
<1>6. ASSUME NEW c \in Calls, Expire(c) PROVE TypeOK'
  BY <1>6 DEF Expire
<1>7. ASSUME NEW c \in Calls, GiveUp(c) PROVE TypeOK'
  BY <1>7 DEF GiveUp, Return, Remove
<1>8. ASSUME NEW c \in Calls, Cancel(c) PROVE TypeOK'
  BY <1>8 DEF Cancel
<1>9. ASSUME NEW d \in Durations, SetCommandTimeout(d) PROVE TypeOK'
  BY <1>9 DEF SetCommandTimeout, Millis
<1>10. CASE DropClient
  BY <1>10 DEF DropClient
<1>11. CASE WriteFrame
  BY <1>11 DEF WriteFrame
<1>12. CASE WriteFails
  BY <1>12 DEF WriteFails
<1>13. CASE WriterDone
  BY <1>13 DEF WriterDone
<1>14. CASE ReadReply
  <2>1. /\ frames' \in Seq([id : Nat, reply : Replies])
        /\ Head(frames) \in [id : Nat, reply : Replies]
    BY <1>14, HeadTailProperties DEF ReadReply
  <2>2. DOMAIN pending' \subseteq Nat /\ pending' \in [DOMAIN pending' -> Calls]
    BY <1>14 DEF ReadReply, Deliver, Remove
  <2>3. slot' \in [Calls -> Replies \cup {Empty, Closed}]
    BY <1>14, <2>1 DEF ReadReply, Deliver
  <2> QED
    BY <1>14, <2>1, <2>2, <2>3 DEF ReadReply
<1>15. CASE ReadEnd
  BY <1>15 DEF ReadEnd
<1>16. CASE AbandonPending
  BY <1>16 DEF AbandonPending
<1>17. CASE ReadFails
  BY <1>17 DEF ReadFails
<1>18. ASSUME NEW i \in received, NEW r \in Replies, Answer(i, r) PROVE TypeOK'
  BY <1>18 DEF Answer, Insert
<1>19. CASE LoseLink
  <2>1. PICK n \in 0 .. Len(frames) : frames' = SubSeq(frames, 1, n)
    BY <1>19 DEF LoseLink
  <2>2. frames' \in Seq([id : Nat, reply : Replies])
    BY <2>1, PrefixProperties
  <2> QED
    BY <1>19, <2>2 DEF LoseLink
<1>20. CASE BufferFrame
  BY <1>20 DEF BufferFrame
<1>21. CASE StopReading
  BY <1>21 DEF StopReading
<1>22. CASE UNCHANGED vars
  BY <1>22
<1> QED
  BY <1>1, <1>2, <1>3, <1>4, <1>5, <1>6, <1>7, <1>8, <1>9, <1>10, <1>11, <1>12,
     <1>13, <1>14, <1>15, <1>16, <1>17, <1>18, <1>19, <1>20, <1>21, <1>22
     DEF Next, Future, Writer, Reader

\* Every reachable state is well typed: ids, map keys and queue contents stay
\* naturals, and channels hold replies of the browser or the closing error.
THEOREM TypeCorrect == Spec => []TypeOK
  BY InitTypeOK, NextTypeOK, PTL DEF Spec
-----------------------------------------------------------------------------
(* The inductive invariant, action by action.                              *)

LEMMA InitIInv == Init => IInv
<1> SUFFICES ASSUME Init PROVE IInv
  OBVIOUS
<1>1. TypeOK
  BY InitTypeOK
<1>2. OnceOnTheWire
  BY DEF Init, OnceOnTheWire, Queued
<1>3. /\ IdsAreUnique /\ EarlyCallsAreBlank /\ WaitersAreRegistered
  BY DEF Init, IdsAreUnique, EarlyCallsAreBlank, WaitersAreRegistered, Listening
<1>5. RepliesReachTheirCallers
  BY CallsAssumption DEF Init, RepliesReachTheirCallers
<1>6. ErrorsAreHonest
  BY DEF Init, ErrorsAreHonest, Active, Empty, Closed
<1>4. EntriesAreOwned /\ RepliesAreAuthentic
  BY CallsAssumption DEF Init, EntriesAreOwned, RepliesAreAuthentic
<1> QED
  BY <1>1, <1>2, <1>3, <1>4, <1>5, <1>6 DEF IInv

\* A step of a future that queues nothing leaves the wire as it was.
LEMMA WireKept ==
  ASSUME OnceOnTheWire, UNCHANGED <<outgoing, received, answer>>,
         \A c \in Calls : Sent(c) => id'[c] = id[c] /\ Sent(c)'
  PROVE  OnceOnTheWire'
  BY DEF OnceOnTheWire, Queued

\* A step that takes no id and returns nothing new keeps what was returned.
LEMMA VerdictsKept ==
  ASSUME RepliesReachTheirCallers, UNCHANGED <<id, outcome, answer>>
  PROVE  RepliesReachTheirCallers'
  BY DEF RepliesReachTheirCallers

LEMMA AllocateStep ==
  ASSUME IInv, TypeOK', NEW c \in Calls, Allocate(c)
  PROVE  IInv'
<1> USE DEF IInv, TypeOK, Allocate, Listening
<1>1. IdsAreUnique'
  BY DEF IdsAreUnique
<1>2. EntriesAreOwned'
  BY DEF EntriesAreOwned
<1>3. WaitersAreRegistered'
  BY DEF WaitersAreRegistered
<1>4. EarlyCallsAreBlank'
  BY DEF EarlyCallsAreBlank
<1>5. RepliesAreAuthentic'
  BY CallsAssumption DEF RepliesAreAuthentic, EarlyCallsAreBlank
<1>6. RepliesReachTheirCallers'
  BY CallsAssumption DEF RepliesReachTheirCallers, EarlyCallsAreBlank
<1>7. OnceOnTheWire'
  BY WireKept DEF Sent
<1>8. ErrorsAreHonest'
  BY DEF ErrorsAreHonest, Active, Broken
<1> QED
  BY <1>1, <1>2, <1>3, <1>4, <1>5, <1>6, <1>7, <1>8

LEMMA RegisterStep ==
  ASSUME IInv, TypeOK', NEW c \in Calls, Register(c)
  PROVE  IInv'
<1> USE DEF IInv, TypeOK, Register, Listening
<1>1. IdsAreUnique'
  BY DEF IdsAreUnique
<1>2. EntriesAreOwned'
  BY DEF EntriesAreOwned, EarlyCallsAreBlank, Insert
<1>3. WaitersAreRegistered'
  BY DEF WaitersAreRegistered, IdsAreUnique, Insert
<1>4. EarlyCallsAreBlank'
  BY DEF EarlyCallsAreBlank
<1>5. RepliesAreAuthentic'
  BY DEF RepliesAreAuthentic
<1>6. RepliesReachTheirCallers'
  BY VerdictsKept
<1>7. OnceOnTheWire'
  BY WireKept DEF Sent
<1>8. ErrorsAreHonest'
  BY DEF ErrorsAreHonest, Active, Broken
<1> QED
  BY <1>1, <1>2, <1>3, <1>4, <1>5, <1>6, <1>7, <1>8

LEMMA EnqueueStep ==
  ASSUME IInv, TypeOK', NEW c \in Calls, Enqueue(c)
  PROVE  IInv'
<1> USE DEF IInv, TypeOK, Listening
<1>0. /\ pc[c] = "registered"
      /\ \A d \in Calls \ {c} : pc'[d] = pc[d]
      /\ pc'[c] \in {"waiting", "refused"}
      /\ pc'[c] = "refused" => writer = "ended"
      /\ UNCHANGED <<handle, id, slot, outcome, pending, writer, reader, link, browser>>
  BY DEF Enqueue
<1>1. IdsAreUnique'
  BY <1>0 DEF IdsAreUnique
<1>2. EntriesAreOwned'
  BY <1>0 DEF EntriesAreOwned
<1>3. WaitersAreRegistered'
  BY <1>0 DEF WaitersAreRegistered
<1>4. EarlyCallsAreBlank'
  BY <1>0 DEF EarlyCallsAreBlank
<1>5. RepliesAreAuthentic'
  BY <1>0 DEF RepliesAreAuthentic
<1>6. RepliesReachTheirCallers'
  BY <1>0, VerdictsKept
<1>7. OnceOnTheWire'
  <2>1. CASE outgoing' = outgoing
    BY <1>0, <2>1, WireKept DEF Sent
  <2>2. CASE outgoing' = Append(outgoing, id[c]) /\ pc'[c] = "waiting"
    <3>1. id[c] \notin Queued \cup received \cup DOMAIN answer
      BY <1>0 DEF OnceOnTheWire, Sent, IdsAreUnique
    <3>2. Queued = Elements(outgoing) /\ Queued' = Elements(outgoing')
      BY DEF Queued, Elements
    <3>3. /\ outgoing \in Seq(Nat) /\ id[c] \in Nat
          /\ HasNoDuplicates(outgoing) /\ id[c] \notin Elements(outgoing)
      BY <3>1, <3>2 DEF OnceOnTheWire, HasNoDuplicates
    <3>4. Queued' = Queued \cup {id[c]} /\ HasNoDuplicates(outgoing')
      BY <2>2, <3>2, <3>3, AppendElements
    <3>5. \A d \in Calls : Sent(d) => Sent(d)'
      BY <1>0 DEF Sent
    <3>6. Sent(c)' /\ id'[c] = id[c]
      BY <1>0, <2>2 DEF Sent
    <3> QED
      BY <1>0, <3>1, <3>4, <3>5, <3>6 DEF OnceOnTheWire, HasNoDuplicates
  <2> QED
    BY <2>1, <2>2 DEF Enqueue
<1>8. ErrorsAreHonest'
  BY <1>0 DEF ErrorsAreHonest, Active, Broken
<1> QED
  BY <1>1, <1>2, <1>3, <1>4, <1>5, <1>6, <1>7, <1>8

\* A call that leaves with its entry: Retract and GiveUp.
LEMMA LeaveStep ==
  ASSUME IInv, TypeOK', NEW c \in Calls, pc[c] \in {"refused", "expired"},
         NEW o \in {Refused, TimedOut}, Return(c, o),
         pending' = Remove(pending, id[c]),
         UNCHANGED <<handle, id, timed, slot, outgoing, writer, reader, link, browser>>
  PROVE  IInv'
<1> USE DEF IInv, TypeOK, Listening, Return
<1>1. IdsAreUnique'
  BY DEF IdsAreUnique
<1>2. EntriesAreOwned'
  BY DEF EntriesAreOwned, Remove
<1>3. WaitersAreRegistered'
  <2> SUFFICES ASSUME NEW d \in Calls, Listening(d)', slot'[d] = Empty
               PROVE  id'[d] \in DOMAIN pending' /\ pending'[id'[d]] = d
    BY DEF WaitersAreRegistered
  <2>1. d # c /\ Listening(d) /\ id[d] # id[c]
    BY DEF IdsAreUnique
  <2> QED
    BY <2>1 DEF WaitersAreRegistered, Remove
<1>4. EarlyCallsAreBlank'
  BY DEF EarlyCallsAreBlank
<1>5. RepliesAreAuthentic'
  BY DEF RepliesAreAuthentic
<1>6. RepliesReachTheirCallers'
  BY CallsAssumption DEF RepliesReachTheirCallers
<1>7. OnceOnTheWire'
  BY WireKept DEF Sent
<1>8. ErrorsAreHonest'
  BY DEF ErrorsAreHonest, Active, Broken
<1> QED
  BY <1>1, <1>2, <1>3, <1>4, <1>5, <1>6, <1>7, <1>8

LEMMA ResumeStep ==
  ASSUME IInv, TypeOK', NEW c \in Calls, Resume(c)
  PROVE  IInv'
<1> USE DEF IInv, TypeOK, Resume, Return, Listening
<1>1. IdsAreUnique'
  BY DEF IdsAreUnique
<1>2. EntriesAreOwned'
  BY DEF EntriesAreOwned
<1>3. WaitersAreRegistered'
  BY DEF WaitersAreRegistered
<1>4. EarlyCallsAreBlank'
  BY DEF EarlyCallsAreBlank
<1>5. RepliesAreAuthentic'
  BY DEF RepliesAreAuthentic
<1>6. RepliesReachTheirCallers'
  BY DEF RepliesReachTheirCallers, RepliesAreAuthentic
<1>7. OnceOnTheWire'
  BY WireKept DEF Sent
<1>8. ErrorsAreHonest'
  BY DEF ErrorsAreHonest, Active, Broken
<1> QED
  BY <1>1, <1>2, <1>3, <1>4, <1>5, <1>6, <1>7, <1>8

\* A future that stops listening and returns nothing: Expire and Cancel.
LEMMA StopListeningStep ==
  ASSUME IInv, TypeOK', NEW c \in Calls, Active(c),
         NEW s \in {"expired", "cancelled"}, pc' = [pc EXCEPT ![c] = s],
         UNCHANGED <<handle, id, timed, slot, outcome, pending, outgoing,
                     writer, reader, link, browser>>
  PROVE  IInv'
<1> USE DEF IInv, TypeOK, Active, Listening
<1>1. IdsAreUnique'
  BY DEF IdsAreUnique
<1>2. EntriesAreOwned'
  BY DEF EntriesAreOwned
<1>3. WaitersAreRegistered'
  BY DEF WaitersAreRegistered
<1>4. EarlyCallsAreBlank'
  BY DEF EarlyCallsAreBlank
<1>5. RepliesAreAuthentic'
  BY DEF RepliesAreAuthentic
<1>6. RepliesReachTheirCallers'
  BY VerdictsKept
<1>7. OnceOnTheWire'
  BY WireKept DEF Sent
<1>8. ErrorsAreHonest'
  BY DEF ErrorsAreHonest, Broken
<1> QED
  BY <1>1, <1>2, <1>3, <1>4, <1>5, <1>6, <1>7, <1>8

\* Steps that touch neither the futures nor the map nor the replies: the client
\* value, the writer that ends, the reader that stops reading.
LEMMA HandleStep ==
  ASSUME IInv, TypeOK', UNCHANGED <<nextId, futures, pending, browser>>,
         outgoing' \in {outgoing, << >>}, ErrorsAreHonest'
  PROVE  IInv'
<1> USE DEF IInv
<1>1. UNCHANGED <<IdsAreUnique, EntriesAreOwned, WaitersAreRegistered,
                  EarlyCallsAreBlank, RepliesAreAuthentic>>
  BY DEF IdsAreUnique, EntriesAreOwned, WaitersAreRegistered,
         EarlyCallsAreBlank, RepliesAreAuthentic, Listening
<1>2. RepliesReachTheirCallers'
  BY VerdictsKept
<1>3. OnceOnTheWire'
  <2>1. CASE outgoing' = outgoing
    BY <2>1, WireKept DEF Sent
  <2>2. CASE outgoing' = << >>
    BY <2>2 DEF OnceOnTheWire, Queued, Sent
  <2> QED
    BY <2>1, <2>2
<1> QED
  BY <1>1, <1>2, <1>3

LEMMA WriteFrameStep ==
  ASSUME IInv, TypeOK', WriteFrame \/ BufferFrame
  PROVE  IInv'
<1> USE DEF IInv
<1>0. /\ UNCHANGED <<handle, futures, pending, writer, reader, link, answer, frames>>
      /\ outgoing # << >> /\ outgoing' = Tail(outgoing)
      /\ received' \in {received, received \cup {Head(outgoing)}}
  BY DEF WriteFrame, BufferFrame
<1>1. UNCHANGED <<IdsAreUnique, EntriesAreOwned, WaitersAreRegistered,
                  EarlyCallsAreBlank, RepliesAreAuthentic>>
  BY <1>0 DEF IdsAreUnique, EntriesAreOwned, WaitersAreRegistered,
              EarlyCallsAreBlank, RepliesAreAuthentic, Listening
<1>2. RepliesReachTheirCallers'
  BY <1>0, VerdictsKept
<1>3. ErrorsAreHonest'
  BY <1>0 DEF ErrorsAreHonest, Active, Broken
<1>4. OnceOnTheWire'
  <2>1. outgoing \in Seq(Nat) /\ HasNoDuplicates(outgoing)
    BY DEF TypeOK, OnceOnTheWire, HasNoDuplicates
  <2>2. Queued = Elements(outgoing) /\ Queued' = Elements(outgoing')
    BY DEF Queued, Elements
  <2>3. /\ Queued = Queued' \cup {Head(outgoing)}
        /\ Head(outgoing) \notin Queued'
        /\ HasNoDuplicates(outgoing')
    BY <1>0, <2>1, <2>2, TailElements
  <2>4. UNCHANGED id /\ \A c \in Calls : Sent(c)' = Sent(c)
    BY <1>0 DEF Sent
  <2> QED
    BY <1>0, <2>3, <2>4 DEF OnceOnTheWire, HasNoDuplicates
<1> QED
  BY <1>1, <1>2, <1>3, <1>4

LEMMA AnswerStep ==
  ASSUME IInv, TypeOK', NEW i \in received, NEW r \in Replies, Answer(i, r)
  PROVE  IInv'
<1> USE DEF IInv
<1>0. /\ UNCHANGED <<handle, futures, pending, outgoing, writer, reader, link>>
      /\ received' = received \ {i}
      /\ DOMAIN answer' = DOMAIN answer \cup {i}
      /\ answer'[i] = r
      /\ \A j \in DOMAIN answer : answer'[j] = answer[j]
      /\ frames' = Append(frames, [id |-> i, reply |-> r])
      /\ i \notin DOMAIN answer
  BY DEF Answer, Insert, OnceOnTheWire
<1>1. UNCHANGED <<IdsAreUnique, EntriesAreOwned, WaitersAreRegistered,
                  EarlyCallsAreBlank, ErrorsAreHonest>>
  BY <1>0 DEF IdsAreUnique, EntriesAreOwned, WaitersAreRegistered,
              EarlyCallsAreBlank, ErrorsAreHonest, Listening, Active, Broken
<1>2. RepliesReachTheirCallers'
  BY <1>0 DEF RepliesReachTheirCallers
<1>3. RepliesAreAuthentic'
  <2>1. /\ Len(frames') = Len(frames) + 1
        /\ \A k \in 1 .. Len(frames) : frames'[k] = frames[k]
        /\ frames'[Len(frames) + 1] = [id |-> i, reply |-> r]
        /\ Len(frames) \in Nat
    BY <1>0 DEF TypeOK
  <2> QED
    BY <1>0, <2>1 DEF RepliesAreAuthentic
<1>4. OnceOnTheWire'
  BY <1>0 DEF OnceOnTheWire, Queued, Sent
<1> QED
  BY <1>1, <1>2, <1>3, <1>4

LEMMA LoseLinkStep ==
  ASSUME IInv, TypeOK', LoseLink
  PROVE  IInv'
<1> USE DEF IInv
<1>0. /\ UNCHANGED <<handle, futures, pending, outgoing, writer, reader, answer>>
      /\ received' = {} /\ link' = "down"
  BY DEF LoseLink
<1>1. UNCHANGED <<IdsAreUnique, EntriesAreOwned, WaitersAreRegistered,
                  EarlyCallsAreBlank>>
  BY <1>0 DEF IdsAreUnique, EntriesAreOwned, WaitersAreRegistered,
              EarlyCallsAreBlank, Listening
<1>2. RepliesReachTheirCallers'
  BY <1>0, VerdictsKept
<1>3. RepliesAreAuthentic'
  <2>1. PICK n \in 0 .. Len(frames) : frames' = SubSeq(frames, 1, n)
    BY DEF LoseLink
  <2>2. Len(frames') = n /\ \A k \in 1 .. n : frames'[k] = frames[k]
    BY <2>1, PrefixProperties DEF TypeOK
  <2> QED
    BY <1>0, <2>2 DEF RepliesAreAuthentic
<1>4. OnceOnTheWire'
  BY <1>0 DEF OnceOnTheWire, Queued, Sent
<1>5. ErrorsAreHonest'
  BY <1>0 DEF ErrorsAreHonest, Active, Broken
<1> QED
  BY <1>1, <1>2, <1>3, <1>4, <1>5

LEMMA ReadReplyStep ==
  ASSUME IInv, TypeOK', ReadReply
  PROVE  IInv'
<1> USE DEF IInv
<1> DEFINE i == Head(frames).id
           r == Head(frames).reply
<1>0. /\ UNCHANGED <<handle, pc, id, timed, outcome, outgoing, writer, reader,
                     link, received, answer>>
      /\ frames # << >> /\ frames' = Tail(frames)
      /\ Deliver(i, r)
  BY DEF ReadReply
<1>1. i \in DOMAIN answer /\ answer[i] = r /\ r \in Replies
  <2>1. Len(frames) \in Nat \ {0} /\ Head(frames) = frames[1]
    BY <1>0 DEF TypeOK
  <2>2. /\ frames[1].id \in DOMAIN answer
        /\ answer[frames[1].id] = frames[1].reply
    BY <2>1 DEF RepliesAreAuthentic
  <2> QED
    BY <2>1, <2>2 DEF TypeOK
<1> HIDE DEF i, r
<1>2. UNCHANGED IdsAreUnique
  BY <1>0 DEF IdsAreUnique
<1>3. RepliesReachTheirCallers' /\ OnceOnTheWire'
  BY <1>0, VerdictsKept, WireKept DEF Sent
<1>4. \A k \in 1 .. Len(frames') :
         frames'[k].id \in DOMAIN answer /\ answer[frames'[k].id] = frames'[k].reply
  <2>1. /\ Len(frames') = Len(frames) - 1
        /\ \A k \in 1 .. Len(frames') : frames'[k] = frames[k + 1]
        /\ Len(frames) \in Nat
    BY <1>0, HeadTailProperties DEF TypeOK
  <2> QED
    BY <2>1 DEF RepliesAreAuthentic
<1>5. CASE i \notin DOMAIN pending
  <2>1. UNCHANGED <<pending, slot>>
    BY <1>0, <1>5 DEF Deliver
  <2>2. EntriesAreOwned' /\ WaitersAreRegistered' /\ EarlyCallsAreBlank'
    BY <1>0, <2>1 DEF EntriesAreOwned, WaitersAreRegistered, EarlyCallsAreBlank, Listening
  <2>3. RepliesAreAuthentic' /\ ErrorsAreHonest'
    BY <1>0, <1>4, <2>1 DEF RepliesAreAuthentic, ErrorsAreHonest, Active, Broken
  <2> QED
    BY <1>2, <1>3, <2>2, <2>3
<1>6. CASE i \in DOMAIN pending
  <2> DEFINE c == pending[i]
  <2>1. /\ pending' = Remove(pending, i)
        /\ slot' \in {slot, [slot EXCEPT ![c] = r]}
        /\ ~Listening(c) => slot' = slot
        /\ Listening(c) => slot' = [slot EXCEPT ![c] = r]
    BY <1>0, <1>6 DEF Deliver
  <2>2. c \in Calls /\ id[c] = i /\ slot \in [Calls -> Replies \cup {Empty, Closed}]
    BY <1>6 DEF TypeOK, EntriesAreOwned
  <2> HIDE DEF c
  <2>3. r # Empty /\ r # Closed
    BY <1>1, CallsAssumption
  <2>4. /\ slot'[c] = slot[c] \/ slot'[c] = r
        /\ Listening(c) => slot'[c] = r
        /\ \A d \in Calls \ {c} : slot'[d] = slot[d]
    BY <2>1, <2>2
  <2>5. EntriesAreOwned'
    <3> SUFFICES ASSUME NEW j \in DOMAIN pending', NEW d, d = pending'[j]
                 PROVE  /\ id'[d] = j
                        /\ pc'[d] \in {"registered", "waiting", "refused",
                                       "expired", "cancelled"}
                        /\ pc'[d] \in {"registered", "waiting"} => slot'[d] = Empty
      BY DEF EntriesAreOwned, Listening
    <3>1. j \in DOMAIN pending /\ j # i /\ d = pending[j]
      BY <2>1 DEF Remove
    <3>2. d \in Calls /\ id[d] = j /\ d # c
      BY <2>2, <3>1 DEF EntriesAreOwned, TypeOK
    <3> QED
      BY <1>0, <2>4, <3>1, <3>2 DEF EntriesAreOwned, Listening
  <2>6. WaitersAreRegistered'
    <3> SUFFICES ASSUME NEW d \in Calls, Listening(d)', slot'[d] = Empty
                 PROVE  id'[d] \in DOMAIN pending' /\ pending'[id'[d]] = d
      BY DEF WaitersAreRegistered
    <3>1. Listening(d) /\ d # c
      BY <1>0, <2>3, <2>4 DEF Listening
    <3>2. id[d] \in DOMAIN pending /\ pending[id[d]] = d
      BY <2>4, <3>1 DEF WaitersAreRegistered
    <3>3. id[d] # i
      BY <2>2, <3>1, <3>2 DEF EntriesAreOwned, c
    <3> QED
      BY <1>0, <2>1, <3>2, <3>3 DEF Remove
  <2>7. EarlyCallsAreBlank'
    BY <1>0, <1>6, <2>1, <2>4 DEF EarlyCallsAreBlank, EntriesAreOwned, c
  <2>8. RepliesAreAuthentic'
    BY <1>0, <1>1, <1>4, <2>2, <2>4 DEF RepliesAreAuthentic
  <2>9. ErrorsAreHonest'
    BY <1>0, <2>3, <2>4 DEF ErrorsAreHonest, Active, Broken
  <2> QED
    BY <1>2, <1>3, <2>5, <2>6, <2>7, <2>8, <2>9
<1> QED
  BY <1>5, <1>6

LEMMA AbandonPendingStep ==
  ASSUME IInv, TypeOK', AbandonPending
  PROVE  IInv'
<1> USE DEF IInv
<1>0. /\ UNCHANGED <<handle, pc, id, timed, outcome, outgoing, writer, link, browser>>
      /\ reader = "abandoning" /\ reader' = "ended"
      /\ pending' = << >>
      /\ \A c \in Calls :
           /\ slot'[c] \in {slot[c], Closed}
           /\ ~Listening(c) => slot'[c] = slot[c]
           /\ Listening(c) /\ (\E j \in DOMAIN pending : pending[j] = c) => slot'[c] = Closed
  BY DEF AbandonPending
<1>1. Closed # Empty /\ Closed \notin Replies
  BY CallsAssumption DEF Closed, Empty
<1>2. IdsAreUnique' /\ RepliesReachTheirCallers' /\ OnceOnTheWire'
  BY <1>0, VerdictsKept, WireKept DEF IdsAreUnique, Sent
<1>3. EntriesAreOwned'
  BY <1>0 DEF EntriesAreOwned
<1>4. WaitersAreRegistered'
  <2>1. ASSUME NEW c \in Calls, Listening(c) PROVE slot'[c] # Empty
    BY <1>0, <1>1, <2>1 DEF WaitersAreRegistered
  <2> QED
    BY <1>0, <2>1 DEF WaitersAreRegistered, Listening
<1>5. EarlyCallsAreBlank'
  BY <1>0 DEF EarlyCallsAreBlank, Listening
<1>6. RepliesAreAuthentic'
  BY <1>0, <1>1 DEF RepliesAreAuthentic
<1>7. ErrorsAreHonest'
  BY <1>0 DEF ErrorsAreHonest, Active, Broken
<1> QED
  BY <1>2, <1>3, <1>4, <1>5, <1>6, <1>7

LEMMA NextIInv == IInv /\ [Next]_vars => IInv'
<1> SUFFICES ASSUME IInv, [Next]_vars PROVE IInv'
  OBVIOUS
<1>0. TypeOK'
  BY NextTypeOK DEF IInv
<1>1. ASSUME NEW c \in Calls, Allocate(c) \/ Register(c) \/ Enqueue(c) \/ Resume(c)
      PROVE  IInv'
  BY <1>0, <1>1, AllocateStep, RegisterStep, EnqueueStep, ResumeStep
<1>2. ASSUME NEW c \in Calls, Retract(c) \/ GiveUp(c)
      PROVE  IInv'
  BY <1>0, <1>2, LeaveStep DEF Retract, GiveUp
<1>3. ASSUME NEW c \in Calls, Expire(c) \/ Cancel(c)
      PROVE  IInv'
  BY <1>0, <1>3, StopListeningStep DEF Expire, Cancel, Active
<1>4. ASSUME NEW d \in Durations, SetCommandTimeout(d) PROVE IInv'
  <2>1. ErrorsAreHonest'
    BY <1>4 DEF SetCommandTimeout, IInv, ErrorsAreHonest, Active, Broken
  <2> QED
    BY <1>0, <1>4, <2>1, HandleStep DEF SetCommandTimeout
<1>5. CASE DropClient
  <2>1. ErrorsAreHonest'
    BY <1>5 DEF DropClient, IInv, ErrorsAreHonest, Active, Broken
  <2> QED
    BY <1>0, <1>5, <2>1, HandleStep DEF DropClient
<1>6. CASE WriteFrame \/ BufferFrame
  BY <1>0, <1>6, WriteFrameStep
<1>7. CASE WriteFails
  <2>1. ErrorsAreHonest'
    BY <1>7 DEF WriteFails, IInv, ErrorsAreHonest, Active, Broken
  <2> QED
    BY <1>0, <1>7, <2>1, HandleStep DEF WriteFails
<1>8. CASE WriterDone
  <2>1. ErrorsAreHonest'
    BY <1>8 DEF WriterDone, IInv, ErrorsAreHonest, Active, Broken
  <2> QED
    BY <1>0, <1>8, <2>1, HandleStep DEF WriterDone
<1>9. CASE ReadReply
  BY <1>0, <1>9, ReadReplyStep
<1>10. CASE ReadEnd \/ ReadFails
  <2>1. ErrorsAreHonest'
    BY <1>10 DEF ReadEnd, ReadFails, IInv, ErrorsAreHonest, Active, Broken
  <2> QED
    BY <1>0, <1>10, <2>1, HandleStep DEF ReadEnd, ReadFails
<1>11. CASE AbandonPending
  BY <1>0, <1>11, AbandonPendingStep
<1>12. ASSUME NEW i \in received, NEW r \in Replies, Answer(i, r) PROVE IInv'
  BY <1>0, <1>12, AnswerStep
<1>13. CASE LoseLink
  BY <1>0, <1>13, LoseLinkStep
<1>14. CASE StopReading \/ UNCHANGED vars
  <2>1. ErrorsAreHonest'
    BY <1>14 DEF StopReading, IInv, ErrorsAreHonest, Active, Broken
  <2> QED
    BY <1>0, <1>14, <2>1, HandleStep DEF StopReading
<1> QED
  BY <1>1, <1>2, <1>3, <1>4, <1>5, <1>6, <1>7, <1>8, <1>9, <1>10, <1>11, <1>12,
     <1>13, <1>14 DEF Next, Future, Writer, Reader

\* The inductive invariant holds of every reachable state.
THEOREM InductiveInvariant == Spec => []IInv
  BY InitIInv, NextIInv, PTL DEF Spec

-----------------------------------------------------------------------------
(* The safety properties the runs check, for every value of the constants. *)

\* What a call returns of the browser's is the answer to its own command.
THEOREM RepliesAreDeliveredToTheirCallers == Spec => []RepliesReachTheirCallers
<1>1. IInv => RepliesReachTheirCallers
  BY DEF IInv
<1> QED
  BY <1>1, InductiveInvariant, PTL

\* No reply can overtake the registration of the call it answers.
THEOREM RegistrationPrecedesSending == Spec => []RegisteredBeforeSent
<1>1. IInv => RegisteredBeforeSent
  <2> SUFFICES ASSUME IInv, NEW c \in Calls, pc[c] = "allocated"
               PROVE  id[c] \notin Queued \cup received \cup DOMAIN answer
    BY DEF RegisteredBeforeSent, Queued
  <2>1. \A d \in Calls : Sent(d) => id[d] # id[c]
    BY DEF IInv, IdsAreUnique, Sent
  <2> QED
    BY <2>1 DEF IInv, OnceOnTheWire
<1> QED
  BY <1>1, InductiveInvariant, PTL

\* No call waits on a channel whose sender is lost.
THEOREM NoWaiterIsForgotten == Spec => []WaitersAreRegistered
<1>1. IInv => WaitersAreRegistered
  BY DEF IInv
<1> QED
  BY <1>1, InductiveInvariant, PTL

\* A call that has returned leaves no entry in the pending map.
THEOREM TheMapIsClean == Spec => []NoDanglingEntry
<1>1. IInv => NoDanglingEntry
  BY DEF IInv, EntriesAreOwned, NoDanglingEntry, Active
<1> QED
  BY <1>1, InductiveInvariant, PTL

-----------------------------------------------------------------------------
(* CdpClient implements CommandService.                                    *)

\* The mapped variables, named so that steps can be stated about them.
phaseBar == [c \in Calls |-> Phase(c)]
replyBar == [c \in Calls |-> AnswerTo(c)]

LEMMA InitRefines == Init => Service!Init
<1> SUFFICES ASSUME Init PROVE Service!Init
  OBVIOUS
<1>1. phaseBar = [c \in Calls |-> "new"]
  BY DEF Init, phaseBar, Phase
<1>2. replyBar = [c \in Calls |-> Empty]
  BY DEF Init, replyBar, AnswerTo
<1>3. ~Broken /\ Broken \in BOOLEAN
  BY DEF Init, Broken
<1> QED
  BY <1>1, <1>2, <1>3 DEF Init, Service!Init, phaseBar, replyBar

\* A step of one future changes the phase of its call and no other.
LEMMA PhaseStep ==
  ASSUME TypeOK, NEW c \in Calls, NEW s \in States, pc' = [pc EXCEPT ![c] = s]
  PROVE  phaseBar' = [phaseBar EXCEPT ![c] =
                        CASE s = "idle"      -> "new"
                          [] s = "done"      -> "settled"
                          [] s = "cancelled" -> "abandoned"
                          [] OTHER           -> "open"]
  BY DEF TypeOK, phaseBar, Phase

\* The mapped replies depend on ids and answers, and on pc only through "idle".
LEMMA ReplyKept ==
  ASSUME UNCHANGED <<id, answer>>,
         \A c \in Calls : pc[c] = "idle" <=> pc'[c] = "idle"
  PROVE  replyBar' = replyBar
  BY DEF replyBar, AnswerTo

\* A future that returns settles its call, with a verdict the service allows.
LEMMA SettleStep ==
  ASSUME IInv, NEW c \in Calls, NEW o, Return(c, o), Active(c),
         UNCHANGED <<id, answer, link, reader>>,
         \/ o = TimedOut
         \/ o \in Replies /\ id[c] \in DOMAIN answer /\ answer[id[c]] = o
         \/ o \in {Closed, Refused} /\ Broken
  PROVE  Service!Settle(c)
<1>1. phaseBar[c] = "open" /\ phaseBar' = [phaseBar EXCEPT ![c] = "settled"]
  <2>1. "done" \in States /\ pc' = [pc EXCEPT ![c] = "done"]
    BY DEF Return, States
  <2> QED
    BY <2>1, PhaseStep DEF IInv, Active, phaseBar, Phase
<1>2. UNCHANGED replyBar
  BY ReplyKept DEF Return, IInv, TypeOK, Active
<1>3. UNCHANGED Broken
  BY DEF Broken
<1>4. o \in Service!Verdicts(c)
  BY DEF Service!Verdicts, AnswerTo, Active
<1> QED
  BY <1>1, <1>2, <1>3, <1>4 DEF Service!Settle, Return, phaseBar, replyBar

\* Steps below the service: it sees at most the connection break.
LEMMA HiddenStep ==
  ASSUME UNCHANGED <<phaseBar, replyBar, outcome>>, Broken => Broken'
  PROVE  [Service!Next]_(Service!vars)
<1>1. CASE Broken' = Broken
  BY <1>1 DEF Service!vars, phaseBar, replyBar
<1>2. CASE Broken' # Broken
  <2>1. ~Broken /\ Broken' /\ Broken' = TRUE
    BY <1>2 DEF Broken
  <2>2. Service!Break
    BY <2>1 DEF Service!Break, phaseBar, replyBar
  <2> QED
    BY <2>2 DEF Service!Next
<1> QED
  BY <1>1, <1>2

LEMMA AllocateRefines ==
  ASSUME IInv, NEW c \in Calls, Allocate(c)
  PROVE  Service!Begin(c)
<1>1. "allocated" \in States /\ pc' = [pc EXCEPT ![c] = "allocated"] /\ pc[c] = "idle"
  BY DEF Allocate, States
<1>2. phaseBar[c] = "new" /\ phaseBar' = [phaseBar EXCEPT ![c] = "open"]
  BY <1>1, PhaseStep DEF IInv, phaseBar, Phase
<1>3. nextId \notin DOMAIN answer
  <2>1. \A i \in DOMAIN answer : \E d \in Calls : Sent(d) /\ id[d] = i
    BY DEF IInv, OnceOnTheWire
  <2>2. \A d \in Calls : Sent(d) => id[d] < nextId
    BY DEF IInv, IdsAreUnique, Sent
  <2>3. nextId \in Nat
    BY DEF IInv, TypeOK
  <2> QED
    BY <2>1, <2>2, <2>3
<1>4. UNCHANGED replyBar
  BY <1>1, <1>3 DEF Allocate, IInv, TypeOK, replyBar, AnswerTo
<1>5. UNCHANGED Broken
  BY DEF Allocate, Broken
<1> QED
  BY <1>2, <1>4, <1>5 DEF Allocate, Service!Begin, phaseBar, replyBar

LEMMA AnswerRefines ==
  ASSUME IInv, NEW i \in received, NEW r \in Replies, Answer(i, r)
  PROVE  \E c \in Calls : Service!Reply(c, r)
<1>1. PICK c \in Calls : Sent(c) /\ id[c] = i
  BY DEF IInv, OnceOnTheWire
<1>2. i \notin DOMAIN answer
  BY DEF IInv, OnceOnTheWire
<1>3. phaseBar[c] # "new" /\ replyBar[c] = Empty
  BY <1>1, <1>2 DEF Sent, phaseBar, replyBar, Phase, AnswerTo
<1>4. replyBar' = [replyBar EXCEPT ![c] = r]
  <2>1. \A d \in Calls : pc[d] # "idle" /\ id[d] = i => d = c
    BY <1>1 DEF IInv, IdsAreUnique, Sent
  <2>2. AnswerTo(c)' = r
    BY <1>1 DEF Answer, AnswerTo, Insert, Sent
  <2>3. \A d \in Calls \ {c} : AnswerTo(d)' = AnswerTo(d)
    BY <2>1 DEF Answer, AnswerTo, Insert
  <2> QED
    BY <2>2, <2>3 DEF replyBar
<1>5. UNCHANGED <<phaseBar, outcome, Broken>>
  BY DEF Answer, phaseBar, Phase, Broken
<1> QED
  BY <1>3, <1>4, <1>5 DEF Service!Reply, phaseBar, replyBar

LEMMA NextRefines == IInv /\ [Next]_vars => [Service!Next]_(Service!vars)
<1> SUFFICES ASSUME IInv, [Next]_vars PROVE [Service!Next]_(Service!vars)
  OBVIOUS
<1>1. ASSUME NEW c \in Calls, Allocate(c) PROVE Service!Next
  BY <1>1, AllocateRefines DEF Service!Next
<1>2. ASSUME NEW c \in Calls, Register(c) \/ Enqueue(c) \/ Expire(c)
      PROVE  [Service!Next]_(Service!vars)
  <2>1. /\ UNCHANGED <<id, answer, outcome, link, reader>>
        /\ \A d \in Calls \ {c} : pc'[d] = pc[d]
        /\ pc[c] \in {"allocated", "registered", "waiting"}
        /\ pc'[c] \in {"registered", "waiting", "refused", "expired"}
    BY <1>2 DEF Register, Enqueue, Expire, IInv, TypeOK
  <2>2. UNCHANGED <<phaseBar, replyBar, Broken>>
    BY <2>1, ReplyKept DEF phaseBar, Phase, Broken
  <2> QED
    BY <2>1, <2>2, HiddenStep
<1>3. ASSUME NEW c \in Calls, Retract(c) PROVE Service!Next
  <2>1. Active(c) /\ Broken
    BY <1>3 DEF Retract, IInv, ErrorsAreHonest, Active
  <2>2. Service!Settle(c)
    BY <1>3, <2>1, SettleStep DEF Retract
  <2> QED
    BY <2>2 DEF Service!Next
<1>4. ASSUME NEW c \in Calls, Resume(c) PROVE Service!Next
  <2>1. Active(c) /\ slot[c] \in Replies \cup {Closed}
    BY <1>4 DEF Resume, IInv, TypeOK, Active
  <2>2. \/ slot[c] \in Replies /\ id[c] \in DOMAIN answer /\ answer[id[c]] = slot[c]
        \/ slot[c] \in {Closed, Refused} /\ Broken
    BY <2>1 DEF IInv, RepliesAreAuthentic, ErrorsAreHonest
  <2>3. Service!Settle(c)
    BY <1>4, <2>1, <2>2, SettleStep DEF Resume
  <2> QED
    BY <2>3 DEF Service!Next
<1>5. ASSUME NEW c \in Calls, GiveUp(c) PROVE Service!Next
  <2>1. Active(c)
    BY <1>5 DEF GiveUp, Active
  <2>2. Service!Settle(c)
    BY <1>5, <2>1, SettleStep DEF GiveUp
  <2> QED
    BY <2>2 DEF Service!Next
<1>6. ASSUME NEW c \in Calls, Cancel(c) PROVE Service!Next
  <2>1. /\ "cancelled" \in States /\ pc' = [pc EXCEPT ![c] = "cancelled"]
        /\ pc[c] \in {"allocated", "waiting", "refused", "expired"}
    BY <1>6 DEF Cancel, States
  <2>2. phaseBar[c] = "open" /\ phaseBar' = [phaseBar EXCEPT ![c] = "abandoned"]
    BY <2>1, PhaseStep DEF IInv, phaseBar, Phase
  <2>3. UNCHANGED <<replyBar, outcome, Broken>>
    BY <1>6, <2>1, ReplyKept DEF Cancel, IInv, TypeOK, Broken
  <2>4. Service!Abandon(c)
    BY <2>2, <2>3 DEF Service!Abandon, phaseBar, replyBar
  <2> QED
    BY <2>4 DEF Service!Next
<1>7. ASSUME NEW d \in Durations, SetCommandTimeout(d) PROVE [Service!Next]_(Service!vars)
  BY <1>7, HiddenStep DEF SetCommandTimeout, phaseBar, replyBar, Phase, AnswerTo, Broken
<1>8. CASE DropClient
  BY <1>8, HiddenStep DEF DropClient, phaseBar, replyBar, Phase, AnswerTo, Broken
<1>9. CASE WriteFrame \/ BufferFrame \/ WriteFails \/ WriterDone
  BY <1>9, HiddenStep DEF WriteFrame, BufferFrame, WriteFails, WriterDone, phaseBar, replyBar,
                          Phase, AnswerTo, Broken
<1>10. CASE ReadReply
  BY <1>10, HiddenStep DEF ReadReply, phaseBar, replyBar, Phase, AnswerTo, Broken
<1>11. CASE ReadEnd \/ ReadFails \/ AbandonPending
  BY <1>11, HiddenStep DEF ReadEnd, ReadFails, AbandonPending, phaseBar, replyBar,
                           Phase, AnswerTo, Broken
<1>12. ASSUME NEW i \in received, NEW r \in Replies, Answer(i, r) PROVE Service!Next
  BY <1>12, AnswerRefines DEF Service!Next
<1>13. CASE StopReading \/ LoseLink
  BY <1>13, HiddenStep DEF StopReading, LoseLink, phaseBar, replyBar, Phase, AnswerTo, Broken
<1>14. CASE UNCHANGED vars
  BY <1>14, HiddenStep DEF phaseBar, replyBar, Phase, AnswerTo, Broken
<1> QED
  BY <1>1, <1>2, <1>3, <1>4, <1>5, <1>6, <1>7, <1>8, <1>9, <1>10, <1>11, <1>12,
     <1>13, <1>14 DEF Next, Future, Writer, Reader

\* Every behaviour of the client is one the service allows: a call settles once,
\* with its own answer, a timeout, or an error that is true of the connection.
THEOREM ClientImplementsService == Spec => ImplementsCommandService
  BY InitRefines, NextRefines, InductiveInvariant, PTL
     DEF Spec, ImplementsCommandService, Service!Spec

=============================================================================
