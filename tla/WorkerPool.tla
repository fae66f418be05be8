------------------------------ MODULE WorkerPool ------------------------------
(***************************************************************************)
(* What a user of either worker pool may rely on, with no word of how it   *)
(* is done: a pool is a set of workers, each free or leased to one client. *)
(* Permits, queues, mutexes, retries and the order of the Vec are left to  *)
(* Cluster and NodeCluster, which implement this specification.            *)
(***************************************************************************)
CONSTANTS Workers,  \* the tabs of the pool
          Clients,  \* executions of a task, or of a batch of actions
          NoWorker  \* stands for no worker, and is none of them

VARIABLES
    stage,  \* "opening", "failed" or "open"
    free,   \* workers nobody has
    closed, \* workers whose tab was told to close
    client, \* each client: "idle", "asking", "leased", "served", "gone"
             \* or "refused"
    lease   \* the worker it has

vars == <<stage, free, closed, client, lease>>

Init ==
    /\ stage = "opening"
    /\ free = {}
    /\ closed = {}
    /\ client = [c \in Clients |-> "idle"]
    /\ lease = [c \in Clients |-> NoWorker]

\* Workers of the open pool that left it with their client.
Lost == Workers \ (free \cup {lease[c] : c \in Clients})

-----------------------------------------------------------------------------
(* Opening: all the workers come up, or the pool is none.                  *)

Open(w) ==
    /\ stage = "opening" /\ w \notin free
    /\ free' = free \cup {w}
    /\ UNCHANGED <<stage, closed, client, lease>>

Ready ==
    /\ stage = "opening" /\ free = Workers
    /\ stage' = "open"
    /\ UNCHANGED <<free, closed, client, lease>>

Fail ==
    /\ stage = "opening"
    /\ stage' = "failed"
    /\ free' = {}
    /\ UNCHANGED <<closed, client, lease>>

-----------------------------------------------------------------------------
(* Leasing.                                                                *)

Ask(c) ==
    /\ stage = "open" /\ client[c] = "idle"
    /\ client' = [client EXCEPT ![c] = "asking"]
    /\ UNCHANGED <<stage, free, closed, lease>>

Lease(c, w) ==
    /\ client[c] = "asking" /\ w \in free
    /\ client' = [client EXCEPT ![c] = "leased"]
    /\ lease' = [lease EXCEPT ![c] = w]
    /\ free' = free \ {w}
    /\ UNCHANGED <<stage, closed>>

Return(c) ==
    /\ client[c] = "leased"
    /\ client' = [client EXCEPT ![c] = "served"]
    /\ lease' = [lease EXCEPT ![c] = NoWorker]
    /\ free' = free \cup {lease[c]}
    /\ UNCHANGED <<stage, closed>>

\* A client goes away and what it has is lost.
Leave(c) ==
    /\ client[c] \in {"asking", "leased", "served"}
    /\ client' = [client EXCEPT ![c] = "gone"]
    /\ lease' = [lease EXCEPT ![c] = NoWorker]
    /\ UNCHANGED <<stage, free, closed>>

\* A client is turned away, which takes a worker that is lost.
Refuse(c) ==
    /\ client[c] = "asking" /\ Lost # {}
    /\ client' = [client EXCEPT ![c] = "refused"]
    /\ UNCHANGED <<stage, free, closed, lease>>

\* A worker is closed while nobody has it.
Close(w) ==
    /\ w \in free
    /\ closed' = closed \cup {w}
    /\ UNCHANGED <<stage, free, client, lease>>

-----------------------------------------------------------------------------
Next ==
    \/ Ready \/ Fail
    \/ \E w \in Workers : Open(w) \/ Close(w)
    \/ \E c \in Clients : Ask(c) \/ Return(c) \/ Leave(c) \/ Refuse(c)
    \/ \E c \in Clients, w \in Workers : Lease(c, w)

Spec == Init /\ [][Next]_vars

-----------------------------------------------------------------------------
(* What follows from it, for a pool of any size.                           *)

\* Types of the variables.
TypeOK ==
    /\ stage \in {"opening", "failed", "open"}
    /\ free \subseteq Workers
    /\ closed \subseteq Workers
    /\ client \in [Clients -> {"idle", "asking", "leased", "served", "gone", "refused"}]
    /\ lease \in [Clients -> Workers \cup {NoWorker}]

\* A client has a worker exactly while it is leased one, and asks only an open pool.
ClientsAreConsistent ==
    \A c \in Clients :
        /\ lease[c] \in (IF client[c] = "leased" THEN Workers ELSE {NoWorker})
        /\ client[c] # "idle" => stage = "open"

\* A worker is free or with one client, never both and never with two.
LeasesAreExclusive ==
    \A c \in Clients :
        lease[c] # NoWorker =>
            /\ lease[c] \notin free
            /\ \A d \in Clients \ {c} : lease[d] # lease[c]

\* A worker of an open pool is lost, and a client turned away, only after some client
\* went away: while all behave, everyone who asks can be served.
RefusalsHaveACause ==
    (stage = "open" /\ Lost # {}) \/ (\E c \in Clients : client[c] = "refused")
        => \E c \in Clients : client[c] = "gone"

\* No worker is closed under a client that has it.
CloseSparesTheLeased ==
    [][\A c \in Clients : lease[c] \in closed' => lease[c] \in closed]_vars

\* The inductive invariant.
LeaseInv == TypeOK /\ ClientsAreConsistent /\ LeasesAreExclusive /\ RefusalsHaveACause
=============================================================================
