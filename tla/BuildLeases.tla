---------------------------- MODULE BuildLeases ----------------------------
(* A build of a bucket without a swarming config (service.py): build systems *)
(* poll for it, lease it, keep the lease with heartbeats and report what     *)
(* becomes of the build.  A cron takes the build from a client whose lease   *)
(* has expired.  Responses may be lost, and a client that has lost its lease *)
(* does not know it: it goes on using its key.                               *)
EXTENDS BuildEntity

CONSTANTS
    Clients,  \* build systems
    MaxLease  \* errors.MAX_LEASE_DURATION

(* Lease keys are random 32-bit numbers; the model never draws one twice and *)
(* draws them in order.                                                      *)
ASSUME LeaseAssumption ==
    /\ MaxLease \in Nat \ {0}
    /\ MaxKey >= 1

VARIABLES
    drawn,   \* lease keys drawn so far
    held,    \* what each client knows of its last lease
    lost,    \* history: the earliest date that heartbeats under the key of that
             \* lease have set without an answer, if there is one
    forced   \* history: lease keys that an administrator has reset

leaseVars == <<drawn, held, lost, forced>>
vars == <<entityVars, leaseVars>>

NoLease == [key |-> None, exp |-> 0]
Lease == [key : LeaseKeys \cup {None}, exp : Nat]

(* The expiration dates of requests are absolute, chosen by the client and   *)
(* checked against the clock before the transaction of the call, which may   *)
(* be late: what it stores was in the future, by MaxLease at most, when it   *)
(* was checked.  A date that has passed since is represented by now.         *)
ValidDates == (now .. (now + MaxLease)) \ {0}

(* The build has just been created, leased by its creator or not (api put).  *)
Init ==
    /\ now = 0
    /\ \E k \in {None, 1}, e \in ValidDates :
        /\ build = [exists |-> TRUE, status |-> "SCHEDULED", key |-> k,
                    exp |-> IF k = None THEN None ELSE e,
                    task |-> None, steps |-> "none"]
        /\ held \in [Clients -> {NoLease, [key |-> k, exp |-> e]}]
    /\ queue = {} /\ handler = None /\ sent = {} /\ cancels = {}
    /\ drawn = {build.key} \ {None}
    /\ \A c, d \in Clients : held[c] # NoLease => held[c].key # None /\ (held[d] # NoLease => c = d)
    /\ lost = [c \in Clients |-> None]
    /\ forced = {}

-----------------------------------------------------------------------------
HoldsLease(c) == held[c].key # None /\ held[c].key = build.key

\* A client leases the build until some date; the response may be lost.
LeaseBuild(c) == \E k \in LeaseKeys \ drawn, e \in ValidDates :
    /\ \A j \in LeaseKeys \ drawn : k <= j
    /\ build.exists
    /\ build.status = "SCHEDULED" /\ build.key = None
    /\ drawn' = drawn \cup {k}
    /\ build' = [build EXCEPT !.key = k, !.exp = e]
    /\ \/ /\ held' = [held EXCEPT ![c] = [key |-> k, exp |-> e]]
          /\ lost' = [lost EXCEPT ![c] = None]
       \/ UNCHANGED <<held, lost>>
    /\ UNCHANGED <<now, queue, handler, sent, cancels, forced>>

Earliest(d, e) == IF e = None \/ d < e THEN d ELSE e

\* The response to a heartbeat arrives, or it is lost.
HeartbeatSets(c, date) ==
    /\ Live
    /\ HoldsLease(c)
    /\ build' = [build EXCEPT !.exp = date]
    /\ \/ held' = [held EXCEPT ![c].exp = date] /\ UNCHANGED lost
       \/ lost' = [lost EXCEPT ![c] = Earliest(date, @)] /\ UNCHANGED held
    /\ UNCHANGED <<now, queue, handler, sent, cancels, drawn, forced>>

HeartbeatExtends(c) == \E e \in ValidDates :
    e > now /\ HeartbeatSets(c, build.exp + e - now)

(* A client sets the date of the lease, later or earlier than it was: it is  *)
(* not compared with the one that is stored, and a delayed or repeated       *)
(* request may undo a later one.                                             *)
Heartbeat(c) == \E e \in ValidDates : HeartbeatSets(c, e)

\* A client starts the build.  Once it has started only its URL may change.
StartBuild(c) ==
    /\ Live
    /\ build.status = "SCHEDULED"
    /\ HoldsLease(c)
    /\ Put([build EXCEPT !.status = "STARTED"])
    /\ UNCHANGED <<now, handler, sent, cancels, leaseVars>>

\* A client reports the result, whether or not it has started the build.
CompleteBuild(c, s) ==
    /\ Live
    /\ HoldsLease(c)
    /\ Put(Unleased([build EXCEPT !.status = s]))
    /\ UNCHANGED <<now, handler, sent, cancels, leaseVars>>

\* An administrator forcibly unleases the build.
ResetBuild ==
    /\ Live
    /\ Put(Unleased([build EXCEPT !.status = "SCHEDULED"]))
    /\ forced' = forced \cup ({build.key} \ {None})
    /\ UNCHANGED <<now, handler, sent, cancels, drawn, held, lost>>

LeaseExpiresSoon == build.exp # None /\ build.exp <= now + 1

LeaseExpired == build.exp # None /\ build.exp <= now

ExpireScheduledLease ==
    /\ build.exists
    /\ build.status = "SCHEDULED" /\ LeaseExpired
    /\ Put(Unleased([build EXCEPT !.status = "SCHEDULED"]))
    /\ UNCHANGED <<now, handler, sent, cancels, leaseVars>>

\* The cron that runs every minute.
ExpireLease ==
    /\ build.exists
    /\ LeaseExpired
    /\ Put(Unleased([build EXCEPT !.status = "SCHEDULED"]))
    /\ UNCHANGED <<now, handler, sent, cancels, leaseVars>>

-----------------------------------------------------------------------------
ClientStep == \E c \in Clients :
    \/ LeaseBuild(c)
    \/ Heartbeat(c)
    \/ StartBuild(c)
    \/ \E s \in Verdicts : CompleteBuild(c, s)

Next ==
    \/ ClientStep
    \/ ResetBuild
    \/ ExpireLease
    \/ EntityStep /\ UNCHANGED leaseVars

Spec == Init /\ [][Next]_vars

(* App Engine runs the crons every minute, and executes a task again until   *)
(* it succeeds: it may fail, but not forever, hence strong fairness of the   *)
(* call that a task makes.  The clock does not stop.  Clients owe nothing.   *)
Fairness ==
    /\ WF_vars(Tick /\ UNCHANGED leaseVars)
    /\ WF_vars(ExpireLease)
    /\ WF_vars((\E t \in queue : ReadBuild(t)) /\ UNCHANGED leaseVars)
    /\ SF_vars(SendTask /\ UNCHANGED leaseVars)

FairSpec == Spec /\ Fairness

-----------------------------------------------------------------------------
(* The dates that a client must reckon with.                                 *)
Until(c) == {held[c].exp, lost[c]} \ {None}

TypeOK ==
    /\ EntityTypeOK
    /\ drawn \subseteq LeaseKeys
    /\ held \in [Clients -> Lease]
    /\ lost \in [Clients -> Nat \cup {None}]
    /\ forced \subseteq drawn
    /\ build.exp # None => build.exp <= now + MaxLease
    /\ \A c \in Clients : \A d \in Until(c) : d <= now + MaxLease

(* What Build._pre_put_hook and the lease cron assert, and more: an ended    *)
(* build is not leased, a lease has an expiration date, and a started build  *)
(* is leased, or no cron would ever take it from a client that is gone.      *)
LeaseMatchesStatus ==
    /\ IsEnded => build.key = None
    /\ build.key = None <=> build.exp = None
    /\ build.exists /\ build.status = "STARTED" => build.key # None

(* A client has its lease until the date of the last response it got, or the *)
(* earliest of those that it may have set without a response: whatever late, *)
(* repeated and shorter heartbeats make of the date, no cron, lost response  *)
(* or other client takes the build from it before it ends, only an           *)
(* administrator's reset does.                                               *)
LeaseHonoured ==
    \A c \in Clients :
        Live /\ (\A d \in Until(c) : d > now) /\ held[c].key \notin forced
            => build.key = held[c].key

(* The tasks that export a build or finalize its ResultDB invocation never   *)
(* find it deleted, not ended or ended with another result than the one that *)
(* they were enqueued for, whatever stale clients, administrators and crons  *)
(* do: _finalize_invocation dereferences what it has read, the export would  *)
(* retry forever, and completed builds are immutable.                        *)
EndTasksFindEndedBuild ==
    \A t \in queue : t[1] \in {"bq", "finalize"} => build.exists /\ build.status = t[2]

(* A lease that is not kept is taken back: the build becomes leasable again  *)
(* or ends.                                                                  *)
AbandonedLeaseTakenBack ==
    (build.exists /\ LeaseExpired) ~> (~build.exists \/ ~LeaseExpired)
=============================================================================
