---------------------------- MODULE CommandService ----------------------------
(***************************************************************************)
(* What a user of CdpClient may rely on, with no ids, map, queue or tasks: *)
(* a call is open until it settles, once, with the browser's answer to     *)
(* that very call, with a timeout, or with an error that says the          *)
(* connection is gone, and that only if it is.                             *)
(***************************************************************************)
CONSTANTS Calls, Replies, Empty, Closed, TimedOut, Refused

VARIABLES phase,    \* "new", "open", "settled" or "abandoned"
          verdict,  \* what each call returned
          reply,    \* what the browser answered to it
          broken    \* the connection has ended

vars == <<phase, verdict, reply, broken>>

Init ==
    /\ phase = [c \in Calls |-> "new"]
    /\ verdict = [c \in Calls |-> Empty]
    /\ reply = [c \in Calls |-> Empty]
    /\ broken = FALSE

\* The caller issues the command.
Begin(c) ==
    /\ phase[c] = "new"
    /\ phase' = [phase EXCEPT ![c] = "open"]
    /\ UNCHANGED <<verdict, reply, broken>>

\* The browser answers it, perhaps after the caller has stopped waiting.
Reply(c, r) ==
    /\ phase[c] # "new" /\ reply[c] = Empty
    /\ reply' = [reply EXCEPT ![c] = r]
    /\ UNCHANGED <<phase, verdict, broken>>

\* How an open call may end.
Verdicts(c) ==
    {TimedOut} \cup ({reply[c]} \cap Replies)
               \cup (IF broken THEN {Closed, Refused} ELSE {})

Settle(c) ==
    /\ phase[c] = "open"
    /\ phase' = [phase EXCEPT ![c] = "settled"]
    /\ \E v \in Verdicts(c) : verdict' = [verdict EXCEPT ![c] = v]
    /\ UNCHANGED <<reply, broken>>

\* The caller stops caring.
Abandon(c) ==
    /\ phase[c] = "open"
    /\ phase' = [phase EXCEPT ![c] = "abandoned"]
    /\ UNCHANGED <<verdict, reply, broken>>

Break ==
    /\ ~broken
    /\ broken' = TRUE
    /\ UNCHANGED <<phase, verdict, reply>>

Next ==
    \/ \E c \in Calls : \/ Begin(c) \/ Settle(c) \/ Abandon(c)
                        \/ \E r \in Replies : Reply(c, r)
    \/ Break

Spec == Init /\ [][Next]_vars
=============================================================================
