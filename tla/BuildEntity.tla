---------------------------- MODULE BuildEntity ----------------------------
(* A build of Buildbucket (appengine/cr-buildbucket): the datastore entity,  *)
(* the transactions of service.py and expiration.py that move it through its *)
(* life, and the tasks that announce each move.  Swarming builds add the     *)
(* processes of module Buildbucket.                                          *)
(*                                                                           *)
(* A datastore transaction is one action: ndb runs it again when it meets a  *)
(* conflict, and it takes its decisions on what it has read inside.  A task  *)
(* enqueued in a transaction exists iff the transaction commits.  What goes  *)
(* on between two transactions (the state of a client, a response that is    *)
(* lost, a task that has read the build and not yet used it) is state of its *)
(* own.                                                                      *)
EXTENDS Integers

CONSTANTS
    Verdicts,       \* statuses that a build system or bbagent reports at the end
    Kinds,          \* announcements that are followed
    MaxKey,         \* bound on the lease keys that are drawn
    TaskIds,        \* IDs of swarming tasks
    BuildTimeout,   \* model.BUILD_TIMEOUT
    MaxTime,        \* bound on the clock
    None            \* no lease key, time, task, status

Ended == {"SUCCESS", "FAILURE", "INFRA_FAILURE", "CANCELED"}
Statuses == {"SCHEDULED", "STARTED"} \cup Ended

ASSUME BuildAssumption ==
    /\ BuildTimeout \in Nat
    /\ MaxTime \in Nat
    /\ Verdicts \subseteq Ended \ {"CANCELED"}
    /\ Kinds \subseteq {"notify", "bq", "finalize"}
    /\ MaxKey \in Nat
    /\ None \notin TaskIds \cup Nat

VARIABLES
    build,      \* the Build entity, with the task ID of its BuildInfra and a
                \* summary of its BuildSteps
    now,        \* the clock; the build was created at time 0
    queue,      \* tasks to announce a status, with that status
    handler,    \* the task being executed, and the status it has read
    sent,       \* announcements of an end made, with the status they carry
    cancels     \* tasks to cancel a swarming task

entityVars == <<build, now, queue, handler, sent, cancels>>

LeaseKeys == 1 .. MaxKey
Build == [exists : BOOLEAN, status : Statuses,
          key : LeaseKeys \cup {None}, exp : Nat \cup {None},
          task : TaskIds \cup {None}, steps : {"none", "incomplete", "complete"}]
Handler == [task : Kinds \X Statuses, seen : Statuses]

IsEnded == build.status \in Ended
Live == build.exists /\ ~IsEnded

\* What events.py enqueues in the transaction that sets the status.
Announce(s) ==
    (IF s \in Ended THEN Kinds ELSE Kinds \cap {"notify"}) \X {s}

Unleased(b) == [b EXCEPT !.key = None, !.exp = None]

\* A transaction that sets the status of the build, perhaps with other fields.
Put(b) ==
    /\ build' = b
    /\ queue' = queue \cup Announce(b.status)

CancelSteps(b) ==
    IF b.steps = "incomplete" THEN [b EXCEPT !.steps = "complete"] ELSE b

-----------------------------------------------------------------------------
(* service.py: users and administrators.                                     *)

ToCancel == {build.task} \ {None}

\* A user cancels the build, and its swarming task if there is one.
CancelBuild ==
    /\ Live
    /\ Put(CancelSteps(Unleased([build EXCEPT !.status = "CANCELED"])))
    /\ cancels' = cancels \cup ToCancel
    /\ UNCHANGED <<now, handler, sent>>

DeleteAnyBuild ==
    /\ build.exists
    /\ build' = [build EXCEPT !.exists = FALSE]
    /\ cancels' = cancels \cup ToCancel
    /\ UNCHANGED <<now, queue, handler, sent>>

\* An administrator deletes the builds with some incomplete status.
DeleteBuild ==
    /\ Live
    /\ build' = [build EXCEPT !.exists = FALSE]
    /\ cancels' = cancels \cup ToCancel
    /\ UNCHANGED <<now, queue, handler, sent>>

-----------------------------------------------------------------------------
(* expiration.py: crons.                                                     *)

ExpireBuildLeased ==
    /\ Live
    /\ now >= BuildTimeout
    /\ Put([build EXCEPT !.status = "INFRA_FAILURE"])
    /\ UNCHANGED <<now, handler, sent, cancels>>

ExpireBuild ==
    /\ Live
    /\ now >= BuildTimeout
    /\ Put(Unleased([build EXCEPT !.status = "INFRA_FAILURE"]))
    /\ UNCHANGED <<now, handler, sent, cancels>>

-----------------------------------------------------------------------------
(* The tasks that announce a status: "notify" publishes it to PubSub, "bq"   *)
(* exports an ended build to BigQuery, "finalize" finalizes its ResultDB     *)
(* invocation.  A task reads the build and then makes a call, and is         *)
(* executed again when that fails.                                           *)

\* A notification of a deleted build is dropped, and so is its export.  The
\* finalizer expects the build to exist.
DropTask(t) ==
    /\ t \in queue /\ t[1] # "finalize"
    /\ ~build.exists
    /\ queue' = queue \ {t}
    /\ UNCHANGED <<build, now, handler, sent, cancels>>

ReadBuild(t) ==
    /\ t \in queue
    /\ handler = None
    /\ build.exists
    /\ t[1] = "bq" => IsEnded
    /\ handler' = [task |-> t, seen |-> build.status]
    /\ UNCHANGED <<build, now, queue, sent, cancels>>

SendTask ==
    /\ handler # None
    /\ queue' = queue \ {handler.task}
    /\ sent' = sent \cup ({handler.task[1]} \X ({handler.seen} \cap Ended))
    /\ handler' = None
    /\ UNCHANGED <<build, now, cancels>>

SendFailsForGood ==
    /\ handler # None
    /\ queue' = queue \ {handler.task}
    /\ handler' = None
    /\ UNCHANGED <<build, now, sent, cancels>>

SendFails ==
    /\ handler # None
    /\ handler' = None
    /\ UNCHANGED <<build, now, queue, sent, cancels>>

Tick ==
    /\ now < MaxTime
    /\ now' = now + 1
    /\ UNCHANGED <<build, queue, handler, sent, cancels>>

-----------------------------------------------------------------------------
Announcing == (\E t \in queue : DropTask(t) \/ ReadBuild(t)) \/ SendTask \/ SendFails

EntityStep ==
    \/ CancelBuild
    \/ DeleteBuild
    \/ ExpireBuild
    \/ Announcing
    \/ Tick

-----------------------------------------------------------------------------
EntityTypeOK ==
    /\ build \in Build
    /\ now \in 0 .. MaxTime
    /\ queue \subseteq Kinds \X Statuses
    /\ handler \in Handler \cup {None}
    /\ sent \subseteq Kinds \X Statuses
    /\ cancels \subseteq TaskIds

(* Whichever way a build ends, its last status reaches PubSub, BigQuery and  *)
(* ResultDB, although tasks fail and may have read an earlier status.        *)
EndAnnounced ==
    (build.exists /\ IsEnded) ~> (\A k \in Kinds : <<k, build.status>> \in sent)
=============================================================================
