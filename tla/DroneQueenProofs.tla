-------------------------- MODULE DroneQueenProofs --------------------------
(* Proofs about the drone queen, for every number of drones, DUTs and        *)
(* concurrent ReportDrone handlers, every lease duration, every bound on the *)
(* clock and every choice of crons.                                          *)
EXTENDS DroneQueen, FiniteSetTheorems, TLAPS

-----------------------------------------------------------------------------
(* One step of a ReportDrone handler leaves the state well typed.            *)
LEMMA ReportTypeOK ==
    ASSUME TypeOK, NEW h \in Handlers, ReportStep(h)
    PROVE  TypeOK'
<1>1. /\ report[h] \in ReportType
      /\ report \in [Handlers -> ReportType]
  BY DEF TypeOK
<1>2. ASSUME NEW d \in Drones, NEW c \in Capacities, ReportNew(h, d, c)
      PROVE  TypeOK'
  <2>1. [report[h] EXCEPT !.pc = "refresh", !.drone = d, !.capacity = c]
            \in ReportType
    BY <1>1 DEF ReportType
  <2>2. report' \in [Handlers -> ReportType]
    BY <1>1, <1>2, <2>1 DEF ReportNew
  <2>3. expiration' \in [Drones -> Times]
    BY <1>2, QueenAssumption DEF ReportNew, TypeOK, Times
  <2> QED
    BY <1>2, <2>2, <2>3 DEF ReportNew, TypeOK, crons
<1>3. ASSUME NEW d \in Drones, NEW c \in Capacities, ReportKnown(h, d, c)
      PROVE  TypeOK'
  <2>1. [report[h] EXCEPT !.pc = "refresh", !.drone = d, !.capacity = c]
            \in ReportType
    BY <1>1 DEF ReportType
  <2>2. report' \in [Handlers -> ReportType]
    BY <1>1, <1>3, <2>1 DEF ReportKnown
  <2> QED
    BY <1>3, <2>2 DEF ReportKnown, TypeOK, store, crons
<1>4. 0 \in Times /\ 0 \in 0 .. MaxTime
  BY QueenAssumption DEF Times
<1>5. IdleReport \in ReportType
  BY QueenAssumption DEF IdleReport, ReportType, Times
<1>6. CASE ReportRead(h)
  <2> DEFINE d == report[h].drone
  <2>1. ASSUME d \in drones
        PROVE  [report[h] EXCEPT !.pc = "commit", !.now = clock,
                                 !.seen = expiration[d]] \in ReportType
    <3>1. expiration[d] \in Times /\ clock \in 0 .. MaxTime
      BY <2>1 DEF TypeOK
    <3> QED
      BY <1>1, <3>1 DEF ReportType
  <2>2. report' \in [Handlers -> ReportType]
    BY <1>1, <1>5, <1>6, <2>1 DEF ReportRead
  <2> QED
    BY <1>6, <2>2 DEF ReportRead, TypeOK, store, crons
<1>7. CASE ReportCommit(h)
  <2>1. [report[h] EXCEPT !.pc = "assign", !.seen = 0] \in ReportType
    BY <1>1, <1>4 DEF ReportType
  <2>2. report' \in [Handlers -> ReportType]
    BY <1>1, <1>7, <2>1 DEF ReportCommit
  <2>3. report[h].now + Duration \in Times
    BY <1>1, QueenAssumption DEF ReportType, Times
  <2>4. expiration' \in [Drones -> Times]
    BY <1>7, <2>3 DEF ReportCommit, TypeOK
  <2> QED
    BY <1>7, <2>2, <2>4 DEF ReportCommit, TypeOK, crons
<1>8. CASE ReportConflict(h)
  <2>1. [report[h] EXCEPT !.pc = "refresh", !.now = 0, !.seen = 0]
            \in ReportType
    BY <1>1, <1>4 DEF ReportType
  <2>2. report' \in [Handlers -> ReportType]
    BY <1>1, <1>8, <2>1 DEF ReportConflict
  <2> QED
    BY <1>8, <2>2 DEF ReportConflict, TypeOK, store, crons
<1>9. CASE ReportAssign(h)
  <2>1. report[h].drone \in Drones \cup {NoDrone}
    BY <1>1 DEF ReportType
  <2>2. assigned' \in [DUTs -> Drones \cup {NoDrone}]
    BY <1>9, <2>1 DEF ReportAssign, TypeOK
  <2>3. report' \in [Handlers -> ReportType]
    BY <1>1, <1>5, <1>9 DEF ReportAssign
  <2> QED
    BY <1>9, <2>2, <2>3 DEF ReportAssign, TypeOK, crons
<1>10. CASE ReportFail(h)
  <2>1. report' \in [Handlers -> ReportType]
    BY <1>1, <1>5, <1>10 DEF ReportFail
  <2> QED
    BY <1>10, <2>1 DEF ReportFail, TypeOK, store, crons
<1> QED
  BY <1>2, <1>3, <1>6, <1>7, <1>8, <1>9, <1>10 DEF ReportStep

(* So does one step of a cron job.                                           *)
LEMMA CronTypeOK ==
    ASSUME TypeOK, FreeRun \/ PruneDronesRun \/ PruneDUTsRun \/ CronAbort
    PROVE  TypeOK'
<1> USE QueenAssumption DEF TypeOK, FreeType, IdleFree, store
<1>1. CASE FreeStart
  BY <1>1 DEF FreeStart
<1>2. CASE FreeSnapshot
  BY <1>2 DEF FreeSnapshot, ValidDrones
<1>3. ASSUME NEW u \in DUTs, FreeOne(u)
      PROVE  TypeOK'
  BY <1>3 DEF FreeOne
<1>4. CASE FreeDone \/ FreeMissing \/ FreeAbort
  BY <1>4 DEF FreeDone, FreeMissing, FreeAbort
<1>5. CASE PruneDronesStart
  BY <1>5 DEF PruneDronesStart, ExpiredDrones
<1>6. ASSUME NEW d \in Drones, PruneDrone(d)
      PROVE  TypeOK'
  BY <1>6 DEF PruneDrone
<1>7. CASE PruneDUTsStart
  BY <1>7 DEF PruneDUTsStart, DrainedDUTs
<1>8. ASSUME NEW u \in DUTs, PruneDUT(u)
      PROVE  TypeOK'
  BY <1>8 DEF PruneDUT
<1>9. CASE PruneDronesAbort \/ PruneDUTsAbort
  BY <1>9 DEF PruneDronesAbort, PruneDUTsAbort
<1> QED
  BY <1>1, <1>2, <1>3, <1>4, <1>5, <1>6, <1>7, <1>8, <1>9
  DEF FreeRun, PruneDronesRun, PruneDUTsRun, CronAbort

(* Every reachable state of the queen is well typed; in particular a Drone   *)
(* entity always bears a UUID that was issued, and only DUTs that exist can  *)
(* be draining.                                                              *)
THEOREM QueenTypeOK == Spec => []TypeOK
<1>1. Init => TypeOK
  BY QueenAssumption
  DEF Init, TypeOK, ReportType, FreeType, Times, IdleReport, IdleFree
<1>2. TypeOK /\ [Next]_vars => TypeOK'
  <2> SUFFICES ASSUME TypeOK, [Next]_vars
               PROVE  TypeOK'
    OBVIOUS
  <2>1. CASE Tick
    BY <2>1, QueenAssumption DEF Tick, TypeOK, store, crons
  <2>2. ASSUME NEW h \in Handlers, ReportStep(h)
        PROVE  TypeOK'
    BY <2>2, ReportTypeOK
  <2>3. ASSUME NEW d \in Drones, NEW u \in DUTs, ReleaseDut(d, u)
        PROVE  TypeOK'
    BY <2>3 DEF ReleaseDut, TypeOK, crons
  <2>4. ASSUME NEW S \in SUBSET DUTs, DeclareDuts(S)
        PROVE  TypeOK'
    BY <2>4 DEF DeclareDuts, TypeOK, crons
  <2>5. CASE FreeRun \/ PruneDronesRun \/ PruneDUTsRun \/ CronAbort
    BY <2>5, CronTypeOK
  <2>6. CASE UNCHANGED vars
    BY <2>6 DEF vars, store, crons, TypeOK
  <2> QED
    BY <2>1, <2>2, <2>3, <2>4, <2>5, <2>6 DEF Next
<1> QED
  BY <1>1, <1>2, PTL DEF Spec

-----------------------------------------------------------------------------
(* The inductive invariant about leases.                                     *)

(* A call in progress bears an issued UUID and a capacity it was given; what *)
(* it read of the clock is past, and what it read of the entity is no later  *)
(* than what it will write.                                                  *)
CallInv ==
    \A h \in Handlers :
        /\ report[h].now <= clock
        /\ report[h].pc # "idle" => report[h].drone \in issued
        /\ report[h].pc # "idle" => report[h].capacity \in Capacities
        /\ report[h].pc = "commit" => report[h].seen <= report[h].now + Duration

(* An entity's lease ends at most one duration from now, and if it is over,  *)
(* that is on record.                                                        *)
EntityInv ==
    \A d \in drones :
        /\ expiration[d] <= clock + Duration
        /\ expiration[d] <= clock => d \in lapsed

(* The drones a cron is about to harm have a lapsed lease.                   *)
CronInv ==
    /\ free.now <= clock
    /\ free.known \ free.valid \subseteq lapsed
    /\ pruneDrones \subseteq lapsed

LeaseInv ==
    /\ TypeOK
    /\ CallInv
    /\ EntityInv
    /\ CronInv
    /\ PromisedLeaseHeld

(* A step of a ReportDrone handler keeps it.                                 *)
LEMMA ReportLeaseInv ==
    ASSUME LeaseInv, TypeOK', NEW h \in Handlers, ReportStep(h)
    PROVE  LeaseInv'
<1>1. /\ report[h] \in ReportType
      /\ report \in [Handlers -> ReportType]
      /\ clock \in Nat /\ Duration \in Nat
      /\ expiration \in [Drones -> Nat]
      /\ drones \subseteq issued /\ issued \subseteq Drones
      /\ \A g \in Handlers : report[g].now \in Nat /\ report[g].seen \in Nat
  BY QueenAssumption DEF LeaseInv, TypeOK, ReportType, Times
<1>2. ASSUME NEW d \in Drones, NEW c \in Capacities, ReportNew(h, d, c)
      PROVE  LeaseInv'
  <2>1. \A g \in Handlers \ {h} : report'[g] = report[g]
    BY <1>1, <1>2 DEF ReportNew
  <2>2. /\ report'[h].pc = "refresh" /\ report'[h].drone = d
        /\ report'[h].capacity = c /\ report'[h].now = report[h].now
    BY <1>1, <1>2 DEF ReportNew, ReportType
  <2>3. CallInv'
    BY <1>2, <2>1, <2>2 DEF LeaseInv, CallInv, ReportNew
  <2>4. EntityInv'
    BY <1>1, <1>2, QueenAssumption DEF LeaseInv, EntityInv, ReportNew
  <2>5. PromisedLeaseHeld'
    BY <1>1, <1>2, <2>1, <2>2
    DEF LeaseInv, CallInv, PromisedLeaseHeld, ReportNew
  <2> QED
    BY <1>2, <2>3, <2>4, <2>5 DEF LeaseInv, CronInv, ReportNew, crons
<1>3. ASSUME NEW d \in Drones, NEW c \in Capacities, ReportKnown(h, d, c)
      PROVE  LeaseInv'
  <2>1. \A g \in Handlers \ {h} : report'[g] = report[g]
    BY <1>1, <1>3 DEF ReportKnown
  <2>2. /\ report'[h].pc = "refresh" /\ report'[h].drone = d
        /\ report'[h].capacity = c /\ report'[h].now = report[h].now
    BY <1>1, <1>3 DEF ReportKnown, ReportType
  <2>3. CallInv'
    BY <1>3, <2>1, <2>2 DEF LeaseInv, CallInv, ReportKnown, store
  <2>4. PromisedLeaseHeld'
    BY <1>3, <2>1, <2>2 DEF LeaseInv, PromisedLeaseHeld, ReportKnown, store
  <2> QED
    BY <1>3, <2>3, <2>4
    DEF LeaseInv, EntityInv, CronInv, ReportKnown, store, crons
<1>4. ASSUME report' = [report EXCEPT ![h] = IdleReport],
             UNCHANGED <<clock, issued, drones, expiration, crons, lapsed>>
      PROVE  LeaseInv'
  <2>1. \A g \in Handlers \ {h} : report'[g] = report[g]
    BY <1>1, <1>4
  <2>2. report'[h].pc = "idle" /\ report'[h].now = 0
    BY <1>1, <1>4 DEF IdleReport
  <2>3. CallInv'
    BY <1>1, <1>4, <2>1, <2>2 DEF LeaseInv, CallInv
  <2>4. PromisedLeaseHeld'
    BY <1>4, <2>1, <2>2 DEF LeaseInv, PromisedLeaseHeld
  <2> QED
    BY <1>4, <2>3, <2>4 DEF LeaseInv, EntityInv, CronInv, crons
<1>5. CASE ReportRead(h)
  <2>1. CASE report' = [report EXCEPT ![h] = IdleReport]
    BY <1>4, <1>5, <2>1 DEF ReportRead, store
  <2>2. CASE report' # [report EXCEPT ![h] = IdleReport]
    <3> DEFINE d == report[h].drone
    <3>1. d \in drones /\ clock <= expiration[d]
      BY <1>5, <2>2 DEF ReportRead
    <3>2. report' = [report EXCEPT
                       ![h] = [@ EXCEPT !.pc = "commit", !.now = clock,
                                        !.seen = expiration[d]]]
      BY <1>5, <3>1 DEF ReportRead
    <3>3. \A g \in Handlers \ {h} : report'[g] = report[g]
      BY <1>1, <3>2
    <3>4. /\ report'[h].pc = "commit" /\ report'[h].drone = d
          /\ report'[h].capacity = report[h].capacity
          /\ report'[h].now = clock /\ report'[h].seen = expiration[d]
      BY <1>1, <3>2 DEF ReportType
    <3>5. report[h].pc = "refresh"
      BY <1>5 DEF ReportRead
    <3>6. expiration[d] <= clock + Duration
      BY <3>1 DEF LeaseInv, EntityInv
    <3>7. CallInv'
      BY <1>1, <1>5, <3>3, <3>4, <3>5, <3>6
      DEF LeaseInv, CallInv, ReportRead, store
    <3>8. PromisedLeaseHeld'
      BY <1>5, <3>3, <3>4 DEF LeaseInv, PromisedLeaseHeld, ReportRead, store
    <3> QED
      BY <1>5, <3>7, <3>8
      DEF LeaseInv, EntityInv, CronInv, ReportRead, store, crons
  <2> QED
    BY <2>1, <2>2
<1>6. CASE ReportCommit(h)
  <2> DEFINE d == report[h].drone
  <2>1. /\ report[h].pc = "commit" /\ d \in drones
        /\ expiration[d] = report[h].seen
        /\ expiration' = [expiration EXCEPT ![d] = report[h].now + Duration]
        /\ UNCHANGED <<clock, issued, drones, crons, lapsed>>
    BY <1>6 DEF ReportCommit, EntityUnchanged
  <2>2. \A g \in Handlers \ {h} : report'[g] = report[g]
    BY <1>1, <1>6 DEF ReportCommit
  <2>3. /\ report'[h].pc = "assign" /\ report'[h].drone = d
        /\ report'[h].capacity = report[h].capacity
        /\ report'[h].now = report[h].now
    BY <1>1, <1>6 DEF ReportCommit, ReportType
  <2>4. /\ expiration'[d] = report[h].now + Duration
        /\ expiration[d] <= expiration'[d]
        /\ \A e \in Drones \ {d} : expiration'[e] = expiration[e]
    BY <1>1, <2>1 DEF LeaseInv, CallInv
  <2>5. CallInv'
    BY <2>1, <2>2, <2>3 DEF LeaseInv, CallInv
  <2>6. EntityInv'
    BY <1>1, <2>1, <2>4 DEF LeaseInv, EntityInv, CallInv
  <2>7. PromisedLeaseHeld'
    <3> SUFFICES ASSUME NEW g \in Handlers,
                        report'[g].pc = "assign", report'[g].drone \in drones
                 PROVE  report'[g].now + Duration <= expiration'[report'[g].drone]
      BY <2>1 DEF PromisedLeaseHeld
    <3>1. CASE g = h
      BY <1>1, <2>3, <2>4, <3>1
    <3>2. CASE g # h
      <4>1. report'[g] = report[g]
        BY <2>2, <3>2
      <4>2. report[g].now + Duration <= expiration[report[g].drone]
        BY <4>1 DEF LeaseInv, PromisedLeaseHeld
      <4>3. expiration[report[g].drone] <= expiration'[report[g].drone]
        BY <1>1, <2>4, <4>1
      <4>4. expiration'[report[g].drone] \in Nat
        BY <1>1, <2>4, <4>1
      <4> QED
        BY <1>1, <4>1, <4>2, <4>3, <4>4
    <3> QED
      BY <3>1, <3>2
  <2> QED
    BY <2>1, <2>5, <2>6, <2>7 DEF LeaseInv, CronInv, crons
<1>7. CASE ReportConflict(h)
  <2>1. \A g \in Handlers \ {h} : report'[g] = report[g]
    BY <1>1, <1>7 DEF ReportConflict
  <2>2. /\ report'[h].pc = "refresh" /\ report'[h].drone = report[h].drone
        /\ report'[h].capacity = report[h].capacity /\ report'[h].now = 0
    BY <1>1, <1>7 DEF ReportConflict, ReportType
  <2>3. CallInv'
    BY <1>1, <1>7, <2>1, <2>2 DEF LeaseInv, CallInv, ReportConflict, store
  <2>4. PromisedLeaseHeld'
    BY <1>7, <2>1, <2>2 DEF LeaseInv, PromisedLeaseHeld, ReportConflict, store
  <2> QED
    BY <1>7, <2>3, <2>4
    DEF LeaseInv, EntityInv, CronInv, ReportConflict, store, crons
<1>8. CASE ReportAssign(h)
  BY <1>4, <1>8 DEF ReportAssign
<1>9. CASE ReportFail(h)
  BY <1>4, <1>9 DEF ReportFail, store
<1> QED
  BY <1>2, <1>3, <1>5, <1>6, <1>7, <1>8, <1>9 DEF ReportStep

(* A step of a cron job keeps it.                                            *)
LEMMA CronLeaseInv ==
    ASSUME LeaseInv, TypeOK',
           FreeRun \/ PruneDronesRun \/ PruneDUTsRun \/ CronAbort
    PROVE  LeaseInv'
<1>1. /\ clock \in Nat /\ free.now \in Nat
      /\ expiration \in [Drones -> Nat] /\ drones \subseteq Drones
  BY QueenAssumption DEF LeaseInv, TypeOK, FreeType, Times
<1>2. ASSUME UNCHANGED <<clock, issued, expiration, report, lapsed>>,
             drones' \subseteq drones, CronInv'
      PROVE  LeaseInv'
  BY <1>2 DEF LeaseInv, CallInv, EntityInv, PromisedLeaseHeld
<1>3. CASE FreeStart
  <2>1. free' = [free EXCEPT !.pc = "keys", !.now = clock, !.todo = duts]
    BY <1>3 DEF FreeStart
  <2>2. /\ free'.now = clock /\ free'.known = free.known
        /\ free'.valid = free.valid
    BY <2>1 DEF LeaseInv, TypeOK, FreeType
  <2>3. CronInv'
    BY <1>1, <1>3, <2>2 DEF LeaseInv, CronInv, FreeStart
  <2> QED
    BY <1>2, <1>3, <2>3 DEF FreeStart, store
<1>4. CASE FreeSnapshot
  <2>1. /\ free'.now = free.now /\ free'.known = drones
        /\ free'.valid = {d \in drones : expiration[d] > free.now}
    BY <1>4 DEF LeaseInv, TypeOK, FreeType, FreeSnapshot, ValidDrones
  <2>2. CronInv'
    BY <1>1, <1>4, <2>1 DEF LeaseInv, CronInv, EntityInv, FreeSnapshot
  <2> QED
    BY <1>2, <1>4, <2>2 DEF FreeSnapshot, store
<1>5. ASSUME NEW u \in DUTs, FreeOne(u)
      PROVE  LeaseInv'
  <2>1. /\ free'.now = free.now /\ free'.known = free.known
        /\ free'.valid = free.valid
    BY <1>5 DEF LeaseInv, TypeOK, FreeType, FreeOne
  <2>2. CronInv'
    BY <1>5, <2>1 DEF LeaseInv, CronInv, FreeOne
  <2> QED
    BY <1>2, <1>5, <2>2 DEF FreeOne
<1>6. CASE FreeDone \/ FreeMissing \/ FreeAbort
  <2>1. /\ free' = IdleFree
        /\ UNCHANGED <<clock, store, report, pruneDrones, pruneDUTs, lapsed>>
    BY <1>6 DEF FreeDone, FreeMissing, FreeAbort
  <2>2. CronInv'
    BY <1>1, <2>1 DEF LeaseInv, CronInv, IdleFree
  <2> QED
    BY <1>2, <2>1, <2>2 DEF store
<1>7. CASE PruneDronesStart
  <2>1. CronInv'
    BY <1>7 DEF LeaseInv, CronInv, EntityInv, PruneDronesStart, ExpiredDrones
  <2> QED
    BY <1>2, <1>7, <2>1 DEF PruneDronesStart, store
<1>8. ASSUME NEW d \in Drones, PruneDrone(d)
      PROVE  LeaseInv'
  <2>1. CronInv'
    BY <1>8 DEF LeaseInv, CronInv, PruneDrone
  <2> QED
    BY <1>2, <1>8, <2>1 DEF PruneDrone
<1>9. CASE PruneDronesAbort \/ PruneDUTsStart \/ PruneDUTsAbort
  <2>1. CronInv'
    BY <1>9
    DEF LeaseInv, CronInv, PruneDronesAbort, PruneDUTsStart, PruneDUTsAbort
  <2> QED
    BY <1>2, <1>9, <2>1
    DEF PruneDronesAbort, PruneDUTsStart, PruneDUTsAbort, store
<1>10. ASSUME NEW u \in DUTs, PruneDUT(u)
       PROVE  LeaseInv'
  <2>1. CronInv'
    BY <1>10 DEF LeaseInv, CronInv, PruneDUT
  <2> QED
    BY <1>2, <1>10, <2>1 DEF PruneDUT
<1> QED
  BY <1>3, <1>4, <1>5, <1>6, <1>7, <1>8, <1>9, <1>10
  DEF FreeRun, PruneDronesRun, PruneDUTsRun, CronAbort

(* The lease invariant holds in every reachable state.                       *)
THEOREM LeaseInvariant == Spec => []LeaseInv
<1>1. Init => LeaseInv
  <2> SUFFICES ASSUME Init
               PROVE  LeaseInv
    OBVIOUS
  <2>1. TypeOK
    BY QueenAssumption
    DEF Init, TypeOK, ReportType, FreeType, Times, IdleReport, IdleFree
  <2> QED
    BY <2>1 DEF Init, LeaseInv, CallInv, EntityInv, CronInv, PromisedLeaseHeld,
                IdleReport, IdleFree
<1>2. LeaseInv /\ TypeOK' /\ [Next]_vars => LeaseInv'
  <2> SUFFICES ASSUME LeaseInv, TypeOK', [Next]_vars
               PROVE  LeaseInv'
    OBVIOUS
  <2>1. CASE Tick
    <3>1. /\ clock \in Nat /\ clock' = clock + 1 /\ Duration \in Nat
          /\ expiration \in [Drones -> Nat] /\ drones \subseteq Drones
          /\ \A h \in Handlers : report[h].now \in Nat
          /\ free.now \in Nat
      BY <2>1, QueenAssumption
      DEF Tick, LeaseInv, TypeOK, Times, ReportType, FreeType
    <3>2. CallInv'
      BY <2>1, <3>1 DEF LeaseInv, CallInv, Tick, store
    <3>3. EntityInv'
      BY <2>1, <3>1 DEF LeaseInv, EntityInv, Tick, store
    <3> QED
      BY <2>1, <3>1, <3>2, <3>3
      DEF LeaseInv, CronInv, PromisedLeaseHeld, Tick, store, crons
  <2>2. ASSUME NEW h \in Handlers, ReportStep(h)
        PROVE  LeaseInv'
    BY <2>2, ReportLeaseInv
  <2>3. CASE \/ \E d \in Drones, u \in DUTs : ReleaseDut(d, u)
             \/ \E S \in SUBSET DUTs : DeclareDuts(S)
             \/ UNCHANGED vars
    BY <2>3 DEF ReleaseDut, DeclareDuts, vars, store, crons, LeaseInv, CallInv,
                EntityInv, CronInv, PromisedLeaseHeld
  <2>4. CASE FreeRun \/ PruneDronesRun \/ PruneDUTsRun \/ CronAbort
    BY <2>4, CronLeaseInv
  <2> QED
    BY <2>1, <2>2, <2>3, <2>4 DEF Next
<1> QED
  BY <1>1, <1>2, QueenTypeOK, PTL DEF Spec

(* The expiration in a response is never later than the entity's, whatever   *)
(* other calls of the drone commit in between.                               *)
THEOREM PromisedLeaseHeldThm == Spec => []PromisedLeaseHeld
<1>1. LeaseInv => PromisedLeaseHeld
  BY DEF LeaseInv
<1> QED
  BY <1>1, LeaseInvariant, PTL

(* Concurrent refreshes never move an expiration back, and none brings back  *)
(* a pruned Drone.                                                           *)
THEOREM LeaseMonotoneThm == Spec => LeaseMonotone
<1> DEFINE Grows == \A d \in issued : d \in drones' =>
                        d \in drones /\ expiration[d] <= expiration'[d]
<1>1. LeaseInv /\ [Next]_vars => [Grows]_vars
  <2> SUFFICES ASSUME LeaseInv, [Next]_vars
               PROVE  Grows
    OBVIOUS
  <2>1. /\ expiration \in [Drones -> Nat]
        /\ drones \subseteq issued /\ issued \subseteq Drones
        /\ Duration \in Nat
    BY QueenAssumption DEF LeaseInv, TypeOK, Times
  <2>2. CASE drones' \subseteq drones /\ expiration' = expiration
    BY <2>1, <2>2
  <2>3. ASSUME NEW h \in Handlers, ReportStep(h)
        PROVE  Grows
    <3>1. ASSUME NEW d \in Drones, NEW c \in Capacities, ReportNew(h, d, c)
          PROVE  Grows
      BY <2>1, <3>1 DEF ReportNew
    <3>2. CASE ReportCommit(h)
      <4> DEFINE d == report[h].drone
      <4>1. /\ d \in drones /\ drones' = drones
            /\ expiration[d] = report[h].seen
            /\ expiration' = [expiration EXCEPT
                                ![d] = report[h].now + Duration]
        BY <3>2 DEF ReportCommit, EntityUnchanged
      <4>2. report[h].seen <= report[h].now + Duration
        BY <3>2 DEF ReportCommit, LeaseInv, CallInv
      <4> QED
        BY <2>1, <4>1, <4>2
    <3> QED
      BY <2>2, <2>3, <3>1, <3>2
      DEF ReportStep, ReportKnown, ReportRead, ReportConflict, ReportAssign,
          ReportFail, store
  <2> QED
    BY <2>2, <2>3
    DEF Next, Tick, ReleaseDut, DeclareDuts, FreeRun, PruneDronesRun,
        PruneDUTsRun, CronAbort, FreeStart, FreeSnapshot, FreeOne, FreeDone,
        FreeMissing, FreeAbort, PruneDronesStart, PruneDrone,
        PruneDronesAbort, PruneDUTsStart, PruneDUT, PruneDUTsAbort, vars, store
<1> QED
  BY <1>1, LeaseInvariant, PTL DEF Spec, LeaseMonotone

(* The free-invalid-duts cron takes no DUT from a drone it saw registered    *)
(* and that has never let its lease lapse.                                   *)
THEOREM EstablishedDroneKeepsDUTsThm == Spec => EstablishedDroneKeepsDUTs
<1> DEFINE Keeps ==
      \A u \in DUTs :
          (free' # free /\ assigned[u] # NoDrone /\ assigned'[u] # assigned[u])
            => assigned[u] \in lapsed \/ assigned[u] \notin free.known
<1>1. LeaseInv /\ [Next]_vars => [Keeps]_vars
  <2> SUFFICES ASSUME LeaseInv, [Next]_vars
               PROVE  Keeps
    OBVIOUS
  <2>1. CASE UNCHANGED free \/ UNCHANGED assigned
    BY <2>1
  <2>2. ASSUME NEW u \in DUTs, FreeOne(u)
        PROVE  Keeps
    <3>1. \A v \in DUTs : assigned'[v] # assigned[v]
                            => v = u /\ assigned[u] \notin free.valid
      BY <2>2 DEF FreeOne, ToFree, LeaseInv, TypeOK
    <3> QED
      BY <3>1 DEF LeaseInv, CronInv
  <2> QED
    BY <2>1, <2>2
    DEF Next, Tick, ReleaseDut, DeclareDuts, FreeRun, PruneDronesRun,
        PruneDUTsRun, CronAbort, FreeStart, FreeSnapshot, FreeDone,
        FreeMissing, FreeAbort, PruneDronesStart, PruneDrone,
        PruneDronesAbort, PruneDUTsStart, PruneDUT, PruneDUTsAbort,
        ReportStep, ReportNew, ReportKnown, ReportRead, ReportCommit,
        ReportConflict, ReportAssign, ReportFail, vars, store, crons
<1> QED
  BY <1>1, LeaseInvariant, PTL DEF Spec, EstablishedDroneKeepsDUTs

(* The prune-expired-drones cron deletes only drones whose lease has been    *)
(* over at some time, and nothing else deletes one.                          *)
THEOREM OnlyLapsedDronesDeletedThm == Spec => OnlyLapsedDronesDeleted
<1>1. LeaseInv /\ [Next]_vars => [drones \ drones' \subseteq lapsed]_vars
  <2> SUFFICES ASSUME LeaseInv, [Next]_vars
               PROVE  drones \ drones' \subseteq lapsed
    OBVIOUS
  <2>1. CASE drones \subseteq drones'
    BY <2>1
  <2>2. ASSUME NEW d \in Drones, PruneDrone(d)
        PROVE  drones \ drones' \subseteq lapsed
    BY <2>2 DEF PruneDrone, LeaseInv, CronInv
  <2> QED
    BY <2>1, <2>2
    DEF Next, Tick, ReleaseDut, DeclareDuts, FreeRun, PruneDronesRun,
        PruneDUTsRun, CronAbort, FreeStart, FreeSnapshot, FreeOne, FreeDone,
        FreeMissing, FreeAbort, PruneDronesStart,
        PruneDronesAbort, PruneDUTsStart, PruneDUT, PruneDUTsAbort,
        ReportStep, ReportNew, ReportKnown, ReportRead, ReportCommit,
        ReportConflict, ReportAssign, ReportFail, vars, store, crons
<1> QED
  BY <1>1, LeaseInvariant, PTL DEF Spec, OnlyLapsedDronesDeleted

-----------------------------------------------------------------------------
(* Capacity.                                                                 *)

Held(d) == {u \in DUTs : assigned[u] = d}

(* Only DUTs that exist are assigned, so the ancestor query of AssignNewDUTs *)
(* finds all that a drone holds.                                             *)
CapacityInv ==
    /\ \A u \in DUTs : assigned[u] # NoDrone => u \in duts
    /\ CapacityRespected

(* What a drone holds only shrinks when no other step than an assignment is  *)
(* taken.                                                                    *)
LEMMA HeldShrinks ==
    ASSUME CapacityInv, duts \subseteq duts' \/ duts' \subseteq duts,
           \A u \in DUTs : assigned'[u] \in {assigned[u], NoDrone},
           \A u \in duts \ duts' : assigned'[u] = NoDrone,
           duts \subseteq DUTs
    PROVE  CapacityInv'
<1>1. \A u \in DUTs : assigned'[u] # NoDrone => u \in duts'
  BY DEF CapacityInv
<1>2. ASSUME NEW d \in Drones
      PROVE  \E c \in Capacities : Cardinality(Held(d)') <= c
  <2>1. Held(d)' \subseteq Held(d)
    BY QueenAssumption DEF Held
  <2>2. IsFiniteSet(Held(d))
    BY FS_Subset, QueenAssumption DEF Held
  <2>3. PICK c \in Capacities : Cardinality(Held(d)) <= c
    BY DEF CapacityInv, CapacityRespected, Held
  <2>4. Cardinality(Held(d)') <= Cardinality(Held(d))
    BY <2>1, <2>2, FS_Subset
  <2>5. /\ Cardinality(Held(d)') \in Nat /\ Cardinality(Held(d)) \in Nat
        /\ c \in Nat
    BY <2>1, <2>2, FS_Subset, FS_CardinalityType, QueenAssumption
  <2> QED
    BY <2>3, <2>4, <2>5
<1> QED
  BY <1>1, <1>2 DEF CapacityInv, CapacityRespected, Held

(* An assignment respects the capacity the call was made with, although the  *)
(* subtraction is truncated to an int32.                                     *)
LEMMA AssignCapacity ==
    ASSUME TypeOK, CallInv, CapacityInv, NEW h \in Handlers, ReportAssign(h)
    PROVE  CapacityInv'
<1>1. PICK d \in Drones, cap \in Capacities :
         /\ d = report[h].drone
         /\ cap = report[h].capacity
         /\ cap \in 0 .. 2 * MaxInt32 + 1
  BY QueenAssumption DEF ReportAssign, CallInv, TypeOK
<1> DEFINE k == Cardinality(DroneDUTs(d))
<1>2. Held(d) = DroneDUTs(d)
  BY <1>1, QueenAssumption DEF Held, DroneDUTs, CapacityInv, TypeOK
<1>3. IsFiniteSet(Held(d)) /\ k \in Nat
  BY <1>2, FS_Subset, FS_CardinalityType, QueenAssumption DEF Held
<1>4. PICK new \in SUBSET DUTs :
         /\ IsLimited(new, UnassignedDUTs, ToInt32(cap - k))
         /\ assigned' = [u \in DUTs |-> IF u \in new THEN d ELSE assigned[u]]
  BY <1>1 DEF ReportAssign
<1>5. new \subseteq UnassignedDUTs
  BY <1>4 DEF IsLimited
<1>6. duts' = duts
  BY DEF ReportAssign
<1>7. \A u \in DUTs : assigned'[u] # NoDrone => u \in duts'
  BY <1>4, <1>5, <1>6 DEF CapacityInv, UnassignedDUTs
<1>8. Cardinality(Held(d)') = k + Cardinality(new)
  <2>1. Held(d)' = Held(d) \cup new
    BY <1>4, <1>5 DEF Held, UnassignedDUTs
  <2>2. Held(d) \cap new = {}
    BY <1>1, <1>5, QueenAssumption DEF Held, UnassignedDUTs
  <2>3. IsFiniteSet(new)
    BY FS_Subset, QueenAssumption
  <2>4. Cardinality(Held(d) \cap new) = 0
    BY <2>2, FS_EmptySet
  <2>5. /\ Cardinality(Held(d) \cup new)
              = Cardinality(Held(d)) + Cardinality(new)
                - Cardinality(Held(d) \cap new)
    BY <1>3, <2>3, FS_Union
  <2>6. Cardinality(new) \in Nat
    BY <2>3, FS_CardinalityType
  <2>7. Cardinality(Held(d)) = k
    BY <1>2
  <2>8. Cardinality(Held(d)') = Cardinality(Held(d) \cup new)
    BY <2>1
  <2> HIDE DEF k
  <2> QED
    BY <1>3, <2>4, <2>5, <2>6, <2>7, <2>8
<1>9. \E c \in Capacities : Cardinality(Held(d)') <= c
  <2>1. CASE new = {}
    <3>1. Cardinality(Held(d)') = Cardinality(Held(d))
      BY <1>2, <1>3, <1>8, <2>1, FS_EmptySet
    <3> QED
      BY <1>1, <3>1 DEF CapacityInv, CapacityRespected, Held
  <2>2. CASE new # {}
    <3>1. Cardinality(new) \in Nat
      BY FS_Subset, FS_CardinalityType, QueenAssumption
    <3>2. ToInt32(cap - k) >= 0
      BY <1>1, <1>3, <1>4, <2>2, QueenAssumption DEF IsLimited, ToInt32
    <3>3. ToInt32(cap - k) = cap - k
      BY <1>1, <1>3, <3>2, QueenAssumption DEF ToInt32
    <3>4. Cardinality(new) <= cap - k
      BY <1>1, <1>3, <1>4, <3>1, <3>2, <3>3 DEF IsLimited
    <3> QED
      BY <1>1, <1>3, <1>8, <3>1, <3>4
  <2> QED
    BY <2>1, <2>2
<1>10. ASSUME NEW e \in Drones
       PROVE  \E c \in Capacities : Cardinality(Held(e)') <= c
  <2>1. CASE e = d
    BY <1>9, <2>1
  <2>2. CASE e # d
    <3>1. Held(e)' = Held(e)
      BY <1>4, <1>5, <2>2, QueenAssumption DEF Held, UnassignedDUTs
    <3> QED
      BY <3>1 DEF CapacityInv, CapacityRespected, Held
  <2> QED
    BY <2>1, <2>2
<1> QED
  BY <1>7, <1>10 DEF CapacityInv, CapacityRespected, Held

(* A drone never holds more DUTs than the largest capacity that reports      *)
(* name, whatever its concurrent and stale reports and the crons do.         *)
THEOREM CapacityRespectedThm == Spec => []CapacityRespected
<1>1. Init => CapacityInv
  <2> SUFFICES ASSUME Init
               PROVE  CapacityInv
    OBVIOUS
  <2>1. \A u \in DUTs : assigned[u] = NoDrone
    BY DEF Init
  <2>2. ASSUME NEW d \in Drones
        PROVE  \E c \in Capacities : Cardinality(Held(d)) <= c
    <3>1. Held(d) = {}
      BY <2>1, QueenAssumption DEF Held
    <3>2. \A c \in Capacities : 0 <= c
      BY QueenAssumption
    <3>3. Capacities # {}
      BY QueenAssumption
    <3> QED
      BY <3>1, <3>2, <3>3, FS_EmptySet
  <2> QED
    BY <2>1, <2>2 DEF CapacityInv, CapacityRespected, Held
<1>2. CapacityInv /\ LeaseInv /\ [Next]_vars => CapacityInv'
  <2> SUFFICES ASSUME CapacityInv, LeaseInv, [Next]_vars
               PROVE  CapacityInv'
    OBVIOUS
  <2>1. /\ TypeOK /\ CallInv
        /\ assigned \in [DUTs -> Drones \cup {NoDrone}] /\ duts \subseteq DUTs
    BY DEF LeaseInv, TypeOK
  <2>2. CASE UNCHANGED <<duts, assigned>>
    BY <2>1, <2>2, HeldShrinks
  <2>3. ASSUME NEW h \in Handlers, ReportStep(h)
        PROVE  CapacityInv'
    <3>1. CASE ReportAssign(h)
      BY <2>1, <3>1, AssignCapacity
    <3> QED
      BY <2>2, <2>3, <3>1
      DEF ReportStep, ReportNew, ReportKnown, ReportRead, ReportCommit,
          ReportConflict, ReportFail, store
  <2>4. ASSUME NEW d \in Drones, NEW u \in DUTs, ReleaseDut(d, u)
        PROVE  CapacityInv'
    BY <2>1, <2>4, HeldShrinks DEF ReleaseDut
  <2>5. ASSUME NEW S \in SUBSET DUTs, DeclareDuts(S)
        PROVE  CapacityInv'
    BY <2>1, <2>5, HeldShrinks DEF DeclareDuts
  <2>6. ASSUME NEW u \in DUTs, FreeOne(u)
        PROVE  CapacityInv'
    BY <2>1, <2>6, HeldShrinks DEF FreeOne
  <2>7. ASSUME NEW u \in DUTs, PruneDUT(u)
        PROVE  CapacityInv'
    <3>1. duts' \subseteq duts /\ \A v \in duts \ duts' : assigned'[v] = NoDrone
      BY <2>1, <2>7 DEF PruneDUT
    <3>2. \A v \in DUTs : assigned'[v] \in {assigned[v], NoDrone}
      BY <2>1, <2>7 DEF PruneDUT
    <3> QED
      BY <2>1, <3>1, <3>2, HeldShrinks
  <2> QED
    BY <2>2, <2>3, <2>4, <2>5, <2>6, <2>7
    DEF Next, Tick, FreeRun, PruneDronesRun,
        PruneDUTsRun, CronAbort, FreeStart, FreeSnapshot, FreeDone,
        FreeMissing, FreeAbort, PruneDronesStart, PruneDrone,
        PruneDronesAbort, PruneDUTsStart, PruneDUTsAbort, vars, store
<1>3. CapacityInv => CapacityRespected
  BY DEF CapacityInv
<1> QED
  BY <1>1, <1>2, <1>3, LeaseInvariant, PTL DEF Spec
=============================================================================
