----------------------------- MODULE DroneQueen -----------------------------
(* The drone queen (appengine/drone-queen): an App Engine service that hands *)
(* out DUTs, devices under test, to drones under leases.  Its state is two   *)
(* kinds of datastore entities:                                              *)
(*                                                                           *)
(*   Drone  ID, Expiration            entity groups of their own             *)
(*   DUT    ID, AssignedDrone, Draining    one entity group for all of them  *)
(*                                                                           *)
(* It is driven by concurrent request handlers (ReportDrone, ReleaseDuts,    *)
(* DeclareDuts) and by three cron jobs.  A datastore transaction that does   *)
(* not read the clock is one action.  The refresh transaction of ReportDrone *)
(* reads the clock before it commits, so it is two actions, with the         *)
(* datastore's optimistic concurrency check in the second one.  Everything   *)
(* the crons do outside a transaction (a query, then one write per result)   *)
(* is one action per datastore operation.                                    *)
EXTENDS Integers, FiniteSets

CONSTANTS
    Drones,        \* drone UUIDs the service may generate
    DUTs,          \* DUT IDs the inventory may declare
    Handlers,      \* ReportDrone calls being served at the same time
    NoDrone,       \* the empty drone ID ""
    Duration,      \* config.AssignmentDuration, in clock ticks
    MaxTime,       \* bound on the clock
    Capacities,    \* values of LoadIndicators.dut_capacity (uint32)
    MaxInt32,      \* the largest int32
    Crons          \* the cron jobs that App Engine runs (cron.yaml)

(* The assignment duration is positive, "" is no UUID, and a uint32 is at    *)
(* most twice the largest int32 plus one.                                    *)
ASSUME QueenAssumption ==
    /\ Duration \in Nat \ {0}
    /\ MaxTime \in Nat
    /\ NoDrone \notin Drones
    /\ IsFiniteSet(DUTs)
    /\ MaxInt32 \in Nat
    /\ Capacities \subseteq 0 .. 2 * MaxInt32 + 1
    /\ Capacities # {}
    /\ Crons \subseteq {"free-invalid-duts", "prune-expired-drones",
                        "prune-drained-duts"}

VARIABLES
    clock,       \* the time every server reads
    issued,      \* UUIDs generated so far
    drones,      \* Drone entities in the datastore
    expiration,  \* Drone.Expiration
    duts,        \* DUT entities in the datastore
    assigned,    \* DUT.AssignedDrone
    draining,    \* DUTs whose Draining is set
    report,      \* the ReportDrone handlers
    free,        \* the free-invalid-duts cron
    pruneDrones, \* drones the prune-expired-drones cron has still to delete
    pruneDUTs,   \* DUTs the prune-drained-duts cron has still to delete
    lapsed       \* history: drones whose lease was over at some time

store == <<issued, drones, expiration, duts, assigned, draining>>
crons == <<free, pruneDrones, pruneDUTs>>
vars  == <<clock, store, report, crons, lapsed>>

-----------------------------------------------------------------------------
IdleReport ==
    [pc |-> "idle", drone |-> NoDrone, capacity |-> 0, now |-> 0, seen |-> 0]

IdleFree == [pc |-> "idle", now |-> 0, todo |-> {}, known |-> {}, valid |-> {}]

Times == 0 .. MaxTime + Duration

ReportType ==
    [pc : {"idle", "refresh", "commit", "assign"},
     drone : Drones \cup {NoDrone}, capacity : Capacities \cup {0},
     now : 0 .. MaxTime, seen : Times]

FreeType ==
    [pc : {"idle", "keys", "loop"}, now : 0 .. MaxTime, todo : SUBSET DUTs,
     known : SUBSET Drones, valid : SUBSET Drones]

TypeOK ==
    /\ clock \in 0 .. MaxTime
    /\ issued \subseteq Drones
    /\ drones \subseteq issued
    /\ expiration \in [Drones -> Times]
    /\ duts \subseteq DUTs
    /\ assigned \in [DUTs -> Drones \cup {NoDrone}]
    /\ draining \subseteq duts
    /\ report \in [Handlers -> ReportType]
    /\ free \in FreeType
    /\ pruneDrones \subseteq Drones
    /\ pruneDUTs \subseteq DUTs
    /\ lapsed \subseteq Drones

Init ==
    /\ clock = 0
    /\ issued = {} /\ drones = {}
    /\ expiration = [d \in Drones |-> 0]
    /\ duts = {} /\ draining = {}
    /\ assigned = [u \in DUTs |-> NoDrone]
    /\ report = [h \in Handlers |-> IdleReport]
    /\ free = IdleFree
    /\ pruneDrones = {} /\ pruneDUTs = {}
    /\ lapsed = {}

-----------------------------------------------------------------------------
(* Time passes.  A lease is over for the crons as soon as its expiration is  *)
(* not after the clock; the drones this befalls are recorded.                *)
Tick ==
    /\ clock < MaxTime
    /\ clock' = clock + 1
    /\ lapsed' = lapsed \cup {d \in drones : expiration[d] <= clock'}
    /\ UNCHANGED <<store, report, crons>>

-----------------------------------------------------------------------------
(* ReportDrone.                                                              *)

(* Variant: the draining DUTs of a drone do not count against its capacity.  *)
ActiveDroneDUTs(d) == {u \in duts \ draining : assigned[u] = d}

DroneDUTs(d) == {u \in duts : assigned[u] = d}

UnassignedDUTs == {u \in duts \ draining : assigned[u] = NoDrone}

(* The conversion of an int to an int32.                                     *)
ToInt32(n) == IF n > MaxInt32 THEN n - 2 * (MaxInt32 + 1) ELSE n

(* S is a possible result of a query for members of T with limit n.          *)
IsLimited(S, T, n) ==
    /\ S \subseteq T
    /\ n < 0 => S = {}
    /\ n >= 0 => \/ Cardinality(S) = n
                 \/ S = T /\ Cardinality(S) <= n

(* A report without a UUID creates a Drone under a UUID never seen before.   *)
(* The time comes from before the transaction: the lease may be over at once.*)
ReportNew(h, d, c) == \E t \in 0 .. clock :
    /\ report[h].pc = "idle"
    /\ d \notin issued
    /\ issued' = issued \cup {d}
    /\ drones' = drones \cup {d}
    /\ expiration' = [expiration EXCEPT ![d] = t + Duration]
    /\ lapsed' = lapsed \cup {e \in {d} : t + Duration <= clock}
    /\ report' = [report EXCEPT ![h] = [@ EXCEPT !.pc = "refresh", !.drone = d,
                                                 !.capacity = c]]
    /\ UNCHANGED <<clock, duts, assigned, draining, crons>>

(* A report of a drone that was given its UUID earlier.                      *)
ReportKnown(h, d, c) ==
    /\ report[h].pc = "idle"
    /\ d \in issued
    /\ report' = [report EXCEPT ![h] = [@ EXCEPT !.pc = "refresh", !.drone = d,
                                                 !.capacity = c]]
    /\ UNCHANGED <<clock, store, crons, lapsed>>

(* The refresh transaction reads the entity and the clock: a drone that is   *)
(* missing or past its expiration is answered UNKNOWN_UUID.                  *)
ReportRead(h) ==
    LET d == report[h].drone
        known == d \in drones /\ clock <= expiration[d]
    IN  /\ report[h].pc = "refresh"
        /\ report' = IF known
                     THEN [report EXCEPT
                             ![h] = [@ EXCEPT !.pc = "commit", !.now = clock,
                                              !.seen = expiration[d]]]
                     ELSE [report EXCEPT ![h] = IdleReport]
        /\ UNCHANGED <<clock, store, crons, lapsed>>

(* Variant: the transaction only finds out whether the entity still exists.  *)
EntityPresent(h) == report[h].drone \in drones

(* The entity has not been written since the transaction read it.            *)
EntityUnchanged(h) ==
    LET d == report[h].drone
    IN  d \in drones /\ expiration[d] = report[h].seen

(* Variant: the Drone is written outside a transaction.                      *)
ReportPut(h) ==
    LET d == report[h].drone
    IN  /\ report[h].pc = "commit"
        /\ drones' = drones \cup {d}
        /\ expiration' = [expiration EXCEPT ![d] = report[h].now + Duration]
        /\ report' = [report EXCEPT ![h] = [@ EXCEPT !.pc = "assign",
                                                     !.seen = 0]]
        /\ UNCHANGED <<clock, issued, duts, assigned, draining, crons, lapsed>>

(* The refresh transaction commits, or is retried on a conflict.             *)
ReportCommit(h) ==
    LET d == report[h].drone
    IN  /\ report[h].pc = "commit"
        /\ EntityUnchanged(h)
        /\ expiration' = [expiration EXCEPT ![d] = report[h].now + Duration]
        /\ report' = [report EXCEPT ![h] = [@ EXCEPT !.pc = "assign",
                                                     !.seen = 0]]
        /\ UNCHANGED <<clock, issued, drones, duts, assigned, draining, crons,
                       lapsed>>

ReportConflict(h) ==
    /\ report[h].pc = "commit"
    /\ ~EntityUnchanged(h)
    /\ report' = [report EXCEPT ![h] = [@ EXCEPT !.pc = "refresh", !.now = 0,
                                                 !.seen = 0]]
    /\ UNCHANGED <<clock, store, crons, lapsed>>

(* The second transaction gives the drone DUTs up to the capacity it         *)
(* reported; it does not look at the Drone again.  The response names the    *)
(* DUTs the drone has now and the expiration now + Duration.                 *)
ReportAssign(h) ==
    LET d == report[h].drone
        needed == ToInt32(report[h].capacity - Cardinality(DroneDUTs(d)))
    IN  /\ report[h].pc = "assign"
        /\ \E new \in SUBSET DUTs :
              /\ IsLimited(new, UnassignedDUTs, needed)
              /\ assigned' = [u \in DUTs |-> IF u \in new THEN d
                                                          ELSE assigned[u]]
        /\ report' = [report EXCEPT ![h] = IdleReport]
        /\ UNCHANGED <<clock, issued, drones, expiration, duts, draining,
                       crons, lapsed>>

(* A datastore error, a request deadline or the loss of the instance ends    *)
(* the call between two transactions; the caller sees an error.              *)
ReportFail(h) ==
    /\ report[h].pc # "idle"
    /\ report' = [report EXCEPT ![h] = IdleReport]
    /\ UNCHANGED <<clock, store, crons, lapsed>>

-----------------------------------------------------------------------------
(* ReleaseDuts runs one transaction per DUT it names.                        *)
ReleaseDut(d, u) ==
    /\ u \in duts
    /\ assigned[u] = d
    /\ assigned' = [assigned EXCEPT ![u] = NoDrone]
    /\ UNCHANGED <<clock, issued, drones, expiration, duts, draining, report,
                   crons, lapsed>>

(* Variant: the draining mark is computed for DUTs that do not exist yet.    *)
DeclareAnyDuts(S) ==
    /\ duts' = duts \cup S
    /\ draining' = DUTs \ S
    /\ UNCHANGED <<clock, issued, drones, expiration, assigned, report, crons,
                   lapsed>>

(* DeclareDuts drains every DUT that is not declared, undrains those that    *)
(* are and adds the new ones, in one transaction.                            *)
DeclareDuts(S) ==
    /\ duts' = duts \cup S
    /\ draining' = duts \ S
    /\ UNCHANGED <<clock, issued, drones, expiration, assigned, report, crons,
                   lapsed>>

-----------------------------------------------------------------------------
(* The free-invalid-duts cron: the time, then the keys of all DUTs ...       *)
FreeStart ==
    /\ "free-invalid-duts" \in Crons
    /\ free.pc = "idle"
    /\ free' = [free EXCEPT !.pc = "keys", !.now = clock, !.todo = duts]
    /\ UNCHANGED <<clock, store, report, pruneDrones, pruneDUTs, lapsed>>

(* Variant: the comparison the wrong way round.                              *)
StaleDrones(t) == {d \in drones : expiration[d] < t}

ValidDrones(t) == {d \in drones : expiration[d] > t}

(* ... then the drones that are valid at that time ...                       *)
FreeSnapshot ==
    /\ free.pc = "keys"
    /\ free' = [free EXCEPT !.pc = "loop", !.known = drones,
                            !.valid = ValidDrones(free.now)]
    /\ UNCHANGED <<clock, store, report, pruneDrones, pruneDUTs, lapsed>>

(* Variants: a drone that is missing is skipped like a valid one; a DUT that *)
(* drains is left to its drone.                                              *)
ToFreeKnown(u) == assigned[u] \in free.known \ free.valid

ToFreeActive(u) == assigned[u] \notin free.valid /\ u \notin draining

ToFree(u) == assigned[u] \notin free.valid

(* ... then one transaction per DUT, judged by that snapshot.                *)
FreeOne(u) ==
    /\ free.pc = "loop"
    /\ u \in free.todo \cap duts
    /\ assigned' = IF ToFree(u) THEN [assigned EXCEPT ![u] = NoDrone]
                                ELSE assigned
    /\ free' = [free EXCEPT !.todo = @ \ {u}]
    /\ UNCHANGED <<clock, issued, drones, expiration, duts, draining, report,
                   pruneDrones, pruneDUTs, lapsed>>

FreeDone ==
    /\ free.pc = "loop"
    /\ free.todo = {}
    /\ free' = IdleFree
    /\ UNCHANGED <<clock, store, report, pruneDrones, pruneDUTs, lapsed>>

(* A DUT of the list that is gone by now ends the run with an error: the     *)
(* DUTs that follow wait for the next run.                                   *)
FreeMissing ==
    /\ free.pc = "loop"
    /\ free.todo \ duts # {}
    /\ free' = IdleFree
    /\ UNCHANGED <<clock, store, report, pruneDrones, pruneDUTs, lapsed>>

(* So does a datastore error or a deadline, anywhere in the run.             *)
FreeAbort ==
    /\ free.pc = "keys" \/ free.todo # {}
    /\ free' = IdleFree
    /\ UNCHANGED <<clock, store, report, pruneDrones, pruneDUTs, lapsed>>

-----------------------------------------------------------------------------
(* The prune-expired-drones cron: one query, then one unconditional Delete   *)
(* per result.                                                               *)
(* Variant: a lease counts as over one tick early.                           *)
ExpiringDrones == {d \in drones : expiration[d] <= clock + 1}

ExpiredDrones == {d \in drones : expiration[d] <= clock}

PruneDronesStart ==
    /\ "prune-expired-drones" \in Crons
    /\ pruneDrones = {}
    /\ pruneDrones' = ExpiredDrones
    /\ UNCHANGED <<clock, store, report, free, pruneDUTs, lapsed>>

PruneDrone(d) ==
    /\ d \in pruneDrones
    /\ drones' = drones \ {d}
    /\ pruneDrones' = pruneDrones \ {d}
    /\ UNCHANGED <<clock, issued, expiration, duts, assigned, draining, report,
                   free, pruneDUTs, lapsed>>

PruneDronesAbort ==
    /\ pruneDrones # {}
    /\ pruneDrones' = {}
    /\ UNCHANGED <<clock, store, report, free, pruneDUTs, lapsed>>

(* The prune-drained-duts cron works the same way.                           *)
DrainedDUTs == {u \in draining : assigned[u] = NoDrone}

PruneDUTsStart ==
    /\ "prune-drained-duts" \in Crons
    /\ pruneDUTs = {}
    /\ pruneDUTs' = DrainedDUTs
    /\ UNCHANGED <<clock, store, report, free, pruneDrones, lapsed>>

PruneDUT(u) ==
    /\ u \in pruneDUTs
    /\ duts' = duts \ {u}
    /\ draining' = draining \ {u}
    /\ assigned' = [assigned EXCEPT ![u] = NoDrone]
    /\ pruneDUTs' = pruneDUTs \ {u}
    /\ UNCHANGED <<clock, issued, drones, expiration, report, free,
                   pruneDrones, lapsed>>

PruneDUTsAbort ==
    /\ pruneDUTs # {}
    /\ pruneDUTs' = {}
    /\ UNCHANGED <<clock, store, report, free, pruneDrones, lapsed>>

-----------------------------------------------------------------------------
ReportStep(h) ==
    \/ \E d \in Drones, c \in Capacities : ReportNew(h, d, c)
    \/ \E d \in Drones, c \in Capacities : ReportKnown(h, d, c)
    \/ ReportRead(h)
    \/ ReportCommit(h)
    \/ ReportConflict(h)
    \/ ReportAssign(h)
    \/ ReportFail(h)

FreeRun == FreeStart \/ FreeSnapshot \/ (\E u \in DUTs : FreeOne(u)) \/ FreeDone
           \/ FreeMissing

PruneDronesRun == PruneDronesStart \/ \E d \in Drones : PruneDrone(d)

PruneDUTsRun == PruneDUTsStart \/ \E u \in DUTs : PruneDUT(u)

CronAbort == FreeAbort \/ PruneDronesAbort \/ PruneDUTsAbort

Next ==
    \/ Tick
    \/ \E h \in Handlers : ReportStep(h)
    \/ \E d \in Drones, u \in DUTs : ReleaseDut(d, u)
    \/ \E S \in SUBSET DUTs : DeclareDuts(S)
    \/ FreeRun
    \/ PruneDronesRun
    \/ PruneDUTsRun
    \/ CronAbort

Spec == Init /\ [][Next]_vars

(* App Engine starts every cron again and again, and a run that is not cut   *)
(* short goes on to its end.  Nothing is assumed of drones, of the           *)
(* inventory, of handlers or of the clock.                                   *)
FairSpec ==
    /\ Spec
    /\ WF_vars(FreeRun)
    /\ WF_vars(PruneDronesRun)
    /\ WF_vars(PruneDUTsRun)

-----------------------------------------------------------------------------
(* Safety.                                                                   *)

(* A drone never has more DUTs than the largest capacity a report names,     *)
(* however its reports, stale or concurrent, interleave with one another     *)
(* and with the crons (AssignNewDUTs counts inside its transaction).         *)
CapacityRespected ==
    \A d \in Drones : \E c \in Capacities :
        Cardinality({u \in DUTs : assigned[u] = d}) <= c

(* The expiration a response will carry is one the Drone entity honours: it  *)
(* is never later than the entity's, whatever other reports of the drone     *)
(* commit in between (ReportDrone fills the response from the first          *)
(* transaction after the second has ended).                                  *)
PromisedLeaseHeld ==
    \A h \in Handlers :
        (report[h].pc = "assign" /\ report[h].drone \in drones)
            => report[h].now + Duration <= expiration[report[h].drone]

(* Leases only grow: concurrent refreshes of one drone never move its        *)
(* expiration back, and a refresh in flight never brings back a Drone that   *)
(* was pruned meanwhile.                                                     *)
LeaseMonotone ==
    [][\A d \in issued : d \in drones' =>
            d \in drones /\ expiration[d] <= expiration'[d]]_vars

(* A drone that has never let its lease lapse keeps its DUTs when the        *)
(* free-invalid-duts cron runs, if the cron saw it registered.               *)
EstablishedDroneKeepsDUTs ==
    [][\A u \in DUTs :
          (free' # free /\ assigned[u] # NoDrone /\ assigned'[u] # assigned[u])
            => assigned[u] \in lapsed \/ assigned[u] \notin free.known]_vars

(* Only drones whose lease has been over at some time lose their entity to   *)
(* the prune-expired-drones cron, in spite of its unconditional Deletes.     *)
OnlyLapsedDronesDeleted == [][drones \ drones' \subseteq lapsed]_vars

-----------------------------------------------------------------------------
(* Liveness.                                                                 *)

Live(d) == d \in drones /\ clock < expiration[d]

FreeInterrupted == []<><<FreeMissing \/ FreeAbort>>_vars

PruneInterrupted == []<><<PruneDUTsAbort \/ PruneDronesAbort>>_vars

(* A DUT whose drone is gone or past its expiration does not stay with it,   *)
(* unless free-invalid-duts is cut short for ever (a failed run is logged    *)
(* and repeated by the next one): no crash of a drone loses a DUT.           *)
AbandonedDUTsFreed ==
    \/ FreeInterrupted
    \/ \A u \in DUTs, d \in Drones :
          (assigned[u] = d /\ ~Live(d)) ~> (assigned[u] # d \/ Live(d))

(* "DUTs omitted from this list will be drained and deleted"                 *)
(* (api/service.proto): an undeclared DUT that no live drone holds is        *)
(* eventually deleted or declared again, by two crons that never talk to     *)
(* each other.                                                               *)
Abandoned(u) == u \in draining /\ ~Live(assigned[u])

UndeclaredDUTsDeleted ==
    \/ FreeInterrupted
    \/ PruneInterrupted
    \/ \A u \in DUTs : Abandoned(u) ~> ~Abandoned(u)

=============================================================================
