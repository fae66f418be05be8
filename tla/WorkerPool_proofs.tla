--------------------------- MODULE WorkerPool_proofs ---------------------------
(***************************************************************************)
(* What WorkerPool promises whoever leases: proofs for any number of       *)
(* workers and clients, which Cluster and NodeCluster take over with it.   *)
(***************************************************************************)
EXTENDS WorkerPool, TLAPS

\* At first nothing is open and nobody asked.
LEMMA InitLeaseInv == Init => LeaseInv
  BY DEF Init, LeaseInv, TypeOK, ClientsAreConsistent, LeasesAreExclusive,
         RefusalsHaveACause

\* The type invariant and the state of each client are kept by every step.
LEMMA NextConsistent ==
  ASSUME NoWorker \notin Workers, LeaseInv, [Next]_vars
  PROVE  TypeOK' /\ ClientsAreConsistent'
<1> USE DEF LeaseInv, TypeOK, ClientsAreConsistent
<1>1. CASE Ready
  BY <1>1 DEF Ready
<1>2. CASE Fail
  BY <1>2 DEF Fail
<1>3. ASSUME NEW w \in Workers, Open(w) \/ Close(w)
      PROVE  TypeOK' /\ ClientsAreConsistent'
  BY <1>3 DEF Open, Close
<1>4. ASSUME NEW c \in Clients, Ask(c) PROVE TypeOK' /\ ClientsAreConsistent'
  BY <1>4 DEF Ask
<1>5. ASSUME NEW c \in Clients, Return(c) PROVE TypeOK' /\ ClientsAreConsistent'
  BY <1>5 DEF Return
<1>6. ASSUME NEW c \in Clients, Leave(c) PROVE TypeOK' /\ ClientsAreConsistent'
  BY <1>6 DEF Leave
<1>7. ASSUME NEW c \in Clients, Refuse(c) PROVE TypeOK' /\ ClientsAreConsistent'
  BY <1>7 DEF Refuse
<1>8. ASSUME NEW c \in Clients, NEW w \in Workers, Lease(c, w)
      PROVE  TypeOK' /\ ClientsAreConsistent'
  BY <1>8 DEF Lease
<1>9. CASE UNCHANGED vars
  BY <1>9 DEF vars
<1> QED
  BY <1>1, <1>2, <1>3, <1>4, <1>5, <1>6, <1>7, <1>8, <1>9 DEF Next

\* Leases stay exclusive: Lease takes a free worker, which nobody has, and Open adds
\* one before anybody has any.
LEMMA NextExclusive ==
  ASSUME NoWorker \notin Workers, LeaseInv, [Next]_vars
  PROVE  LeasesAreExclusive'
<1> USE DEF LeaseInv, TypeOK, ClientsAreConsistent, LeasesAreExclusive
<1>1. CASE Ready
  BY <1>1 DEF Ready
<1>2. CASE Fail
  BY <1>2 DEF Fail
<1>3. ASSUME NEW w \in Workers, Open(w) PROVE LeasesAreExclusive'
  <2>1. \A c \in Clients : lease[c] = NoWorker
    BY <1>3 DEF Open
  <2> QED
    BY <2>1, <1>3 DEF Open
<1>4. ASSUME NEW w \in Workers, Close(w) PROVE LeasesAreExclusive'
  BY <1>4 DEF Close
<1>5. ASSUME NEW c \in Clients, Ask(c) \/ Refuse(c) PROVE LeasesAreExclusive'
  BY <1>5 DEF Ask, Refuse
<1>6. ASSUME NEW c \in Clients, Return(c) PROVE LeasesAreExclusive'
  BY <1>6 DEF Return
<1>7. ASSUME NEW c \in Clients, Leave(c) PROVE LeasesAreExclusive'
  BY <1>7 DEF Leave
<1>8. ASSUME NEW c \in Clients, NEW w \in Workers, Lease(c, w)
      PROVE  LeasesAreExclusive'
  <2>1. \A d \in Clients : lease[d] # w
    BY <1>8 DEF Lease
  <2> QED
    BY <2>1, <1>8 DEF Lease
<1>9. CASE UNCHANGED vars
  BY <1>9 DEF vars
<1> QED
  BY <1>1, <1>2, <1>3, <1>4, <1>5, <1>6, <1>7, <1>8, <1>9 DEF Next

\* Only Leave loses workers of an open pool: Lease and Return move one between the
\* free and the leased, and the pool opens with all of them free.
LEMMA NextCaused ==
  ASSUME NoWorker \notin Workers, LeaseInv, [Next]_vars
  PROVE  RefusalsHaveACause'
<1> USE DEF LeaseInv, TypeOK, ClientsAreConsistent, RefusalsHaveACause
<1>1. CASE Ready
  BY <1>1 DEF Ready, Lost
<1>2. CASE Fail
  BY <1>2 DEF Fail
<1>3. ASSUME NEW w \in Workers, Open(w) PROVE RefusalsHaveACause'
  BY <1>3 DEF Open
<1>4. ASSUME NEW w \in Workers, Close(w) PROVE RefusalsHaveACause'
  BY <1>4 DEF Close, Lost
<1>5. ASSUME NEW c \in Clients, Ask(c) PROVE RefusalsHaveACause'
  BY <1>5 DEF Ask, Lost
<1>6. ASSUME NEW c \in Clients, Return(c) PROVE RefusalsHaveACause'
  <2>1. Lost' \subseteq Lost
    BY <1>6 DEF Return, Lost
  <2>2. \A d \in Clients : client'[d] = "refused" => client[d] = "refused"
    BY <1>6 DEF Return
  <2>3. \A d \in Clients : client[d] = "gone" => client'[d] = "gone"
    BY <1>6 DEF Return
  <2> QED
    BY <2>1, <2>2, <2>3, <1>6 DEF Return
<1>7. ASSUME NEW c \in Clients, Leave(c) PROVE RefusalsHaveACause'
  BY <1>7 DEF Leave
<1>8. ASSUME NEW c \in Clients, Refuse(c) PROVE RefusalsHaveACause'
  <2>1. PICK d \in Clients : client[d] = "gone"
    BY <1>8 DEF Refuse
  <2> QED
    BY <2>1, <1>8 DEF Refuse
<1>9. ASSUME NEW c \in Clients, NEW w \in Workers, Lease(c, w)
      PROVE  RefusalsHaveACause'
  <2>1. Lost' \subseteq Lost
    BY <1>9 DEF Lease, Lost
  <2>2. \A d \in Clients : client'[d] = "refused" => client[d] = "refused"
    BY <1>9 DEF Lease
  <2>3. \A d \in Clients : client[d] = "gone" => client'[d] = "gone"
    BY <1>9 DEF Lease
  <2> QED
    BY <2>1, <2>2, <2>3, <1>9 DEF Lease
<1>10. CASE UNCHANGED vars
  BY <1>10 DEF vars, Lost
<1> QED
  BY <1>1, <1>2, <1>3, <1>4, <1>5, <1>6, <1>7, <1>8, <1>9, <1>10 DEF Next

\* LeaseInv holds in every reachable state of the abstract pool.
THEOREM InductiveInvariant ==
  ASSUME NoWorker \notin Workers
  PROVE  Spec => []LeaseInv
<1>1. Init => LeaseInv
  BY InitLeaseInv
<1>2. LeaseInv /\ [Next]_vars => LeaseInv'
  BY NextConsistent, NextExclusive, NextCaused DEF LeaseInv
<1> QED
  BY <1>1, <1>2, PTL DEF Spec

\* A worker is free or with one client: what both pools inherit as "a tab serves one
\* task, or one batch, at a time".
THEOREM LeasesAreExclusiveHolds ==
  ASSUME NoWorker \notin Workers
  PROVE  Spec => []LeasesAreExclusive
<1>1. LeaseInv => LeasesAreExclusive
  BY DEF LeaseInv
<1> QED
  BY <1>1, InductiveInvariant, PTL

\* Nobody is turned away, and no worker missing, before some client went away with
\* one: the panic of expect("worker missing") has that one cause.
THEOREM RefusalsHaveACauseHolds ==
  ASSUME NoWorker \notin Workers
  PROVE  Spec => []RefusalsHaveACause
<1>1. LeaseInv => RefusalsHaveACause
  BY DEF LeaseInv
<1> QED
  BY <1>1, InductiveInvariant, PTL

\* close() tells no tab to close that a task or batch has at the time.
THEOREM CloseSparesTheLeasedHolds ==
  ASSUME NoWorker \notin Workers
  PROVE  Spec => CloseSparesTheLeased
<1> DEFINE Spares == \A c \in Clients : lease[c] \in closed' => lease[c] \in closed
<1>1. LeaseInv /\ [Next]_vars => [Spares]_vars
  <2> SUFFICES ASSUME LeaseInv, [Next]_vars PROVE Spares
    OBVIOUS
  <2>1. ASSUME NEW w \in Workers, Close(w) PROVE Spares
    BY <2>1 DEF Close, LeaseInv, TypeOK, LeasesAreExclusive
  <2>2. ASSUME UNCHANGED closed PROVE Spares
    BY <2>2
  <2> QED
    BY <2>1, <2>2
       DEF Next, vars, Ready, Fail, Open, Ask, Return, Leave, Refuse, Lease
<1> QED
  BY <1>1, InductiveInvariant, PTL DEF Spec, CloseSparesTheLeased
=============================================================================
