---------------------------- MODULE Buildbucket ----------------------------
(* A build that runs on Swarming (swarming.py): a chain of push tasks, the   *)
(* PubSub handler and bbagent, the program that the swarming task runs, all  *)
(* write to the build, next to the users and crons of module BuildEntity.    *)
(*                                                                           *)
(* Push tasks are executed at least once: a worker may fail at any step and  *)
(* leave its task in the queue, and two workers may execute the same one.    *)
(* Swarming is external: a creation request may be answered with the task of *)
(* an earlier request of the same build (they share a request_uuid), may be  *)
(* refused, and may create a task whose ID never reaches the caller.         *)
EXTENDS BuildEntity

CONSTANTS
    Workers,   \* executions of sync tasks at the same time
    Outcomes,  \* how a swarming task may end by itself
    MaxGen     \* bound on the generations of sync tasks: the last one follows
               \* itself

TaskStates == {"PENDING", "RUNNING", "CANCELED", "KILLED"} \cup Outcomes

ASSUME SyncAssumption ==
    /\ MaxGen \in Nat
    /\ Outcomes \subseteq {"COMPLETED", "BOT_DIED", "EXPIRED"}
    /\ None \notin TaskStates

VARIABLES
    tasks,    \* swarming tasks created, with their state
    syncQ,    \* generations of the sync tasks in the queue
    lastGen,  \* the last generation that was enqueued (names are not reused)
    worker,   \* the executions of sync tasks
    notice    \* the task result that the PubSub handler has loaded

syncVars == <<syncQ, lastGen, worker>>
vars == <<entityVars, tasks, syncVars, notice>>

Gens == 0 .. MaxGen
Created == {t \in TaskIds : tasks[t] # None}

Idle == [pc |-> "idle", gen |-> 0, task |-> None, result |-> None, raise |-> FALSE]
Worker == [pc : {"idle", "create", "record", "cancel", "refused", "apply", "enqueue"},
           gen : Gens, task : TaskIds \cup {None}, result : TaskStates \cup {None},
           raise : BOOLEAN]

(* The build has just been created, with its first sync task.                *)
Init ==
    /\ build = [exists |-> TRUE, status |-> "SCHEDULED", key |-> None, exp |-> None,
                task |-> None, steps |-> "none"]
    /\ now = 0
    /\ queue = {} /\ handler = None /\ sent = {} /\ cancels = {}
    /\ tasks = [t \in TaskIds |-> None]
    /\ syncQ = {0}
    /\ lastGen = 0
    /\ worker = [w \in Workers |-> Idle]
    /\ notice = None

-----------------------------------------------------------------------------
(* Swarming, external: what happens to its tasks and to requests about them. *)

SetTask(t, s) == tasks' = [tasks EXCEPT ![t] = s]

\* A request to cancel a task, kill_running set: nothing changes once it ended.
Kill(t) ==
    SetTask(t, CASE tasks[t] = "PENDING" -> "CANCELED"
                 [] tasks[t] = "RUNNING" -> "KILLED"
                 [] OTHER -> tasks[t])

SwarmingStep == \E t \in Created :
    /\ \/ tasks[t] = "PENDING" /\ SetTask(t, "RUNNING")
       \/ tasks[t] = "PENDING" /\ \E s \in Outcomes \cap {"EXPIRED"} : SetTask(t, s)
       \/ tasks[t] = "RUNNING" /\ \E s \in Outcomes \ {"EXPIRED"} : SetTask(t, s)
    /\ UNCHANGED <<entityVars, syncVars, notice>>

-----------------------------------------------------------------------------
(* bbagent calls UpdateBuild (api.py).  The call may arrive after the task   *)
(* has ended.                                                                *)

HasRun(t) == tasks[t] \in {"RUNNING", "COMPLETED", "BOT_DIED", "KILLED"}

\* The status and the steps of a request, None if its update mask has no steps:
\* only then the incomplete ones are cancelled at the end.
Updated(s, st) ==
    LET b == [build EXCEPT !.status = s]
    IN IF st # None THEN [b EXCEPT !.steps = st]
       ELSE IF s \in Ended THEN CancelSteps(b) ELSE b

UpdateBuild(s, st) ==
    /\ Live
    /\ \E t \in Created : HasRun(t)
    /\ s = "SCHEDULED" => st = None
    /\ IF s # build.status
       THEN Put(Updated(s, st))
       ELSE build' = Updated(s, st) /\ UNCHANGED queue
    /\ UNCHANGED <<now, handler, sent, cancels, tasks, syncVars, notice>>

-----------------------------------------------------------------------------
(* _sync_build: one execution of the sync task of a generation.              *)

Goto(w, r) == worker' = [worker EXCEPT ![w] = r]
At(w, pc) == worker[w].pc = pc
Entity == <<now, handler, sent>>

FailDropsTask(w) ==
    /\ ~At(w, "idle")
    /\ syncQ' = syncQ \ {worker[w].gen}
    /\ Goto(w, Idle)
    /\ UNCHANGED <<entityVars, tasks, lastGen, notice>>

\* The execution fails: the task stays in the queue.
Fail(w) ==
    /\ ~At(w, "idle")
    /\ Goto(w, Idle)
    /\ UNCHANGED <<entityVars, tasks, syncQ, lastGen, notice>>

\* The build has ended or is gone: the chain of sync tasks ends.
SyncEnds(g) ==
    /\ g \in syncQ
    /\ ~Live
    /\ syncQ' = syncQ \ {g}
    /\ UNCHANGED <<entityVars, tasks, lastGen, worker, notice>>

\* The build has no task yet, or the result of its task is loaded.
SyncStart(w, g) ==
    /\ g \in syncQ
    /\ At(w, "idle")
    /\ Live
    /\ Goto(w, [Idle EXCEPT !.gen = g,
                            !.pc = IF build.task = None THEN "create" ELSE "apply",
                            !.result = IF build.task = None THEN None ELSE tasks[build.task]])
    /\ UNCHANGED <<entityVars, tasks, syncQ, lastGen, notice>>

\* _create_swarming_task: Swarming answers with a new task or an earlier one.
TaskCreated(w, t) ==
    /\ At(w, "create")
    /\ IF tasks[t] = None THEN SetTask(t, "PENDING") ELSE UNCHANGED tasks
    /\ Goto(w, [worker[w] EXCEPT !.pc = "record", !.task = t])
    /\ UNCHANGED <<entityVars, syncQ, lastGen, notice>>

\* Swarming creates a task but the answer is lost.
TaskCreatedUnknown(w, t) ==
    /\ At(w, "create")
    /\ tasks[t] = None
    /\ SetTask(t, "PENDING")
    /\ Goto(w, Idle)
    /\ UNCHANGED <<entityVars, syncQ, lastGen, notice>>

\* Swarming answers with HTTP 4xx.
TaskRefused(w) ==
    /\ At(w, "create")
    /\ Goto(w, [worker[w] EXCEPT !.pc = "refused"])
    /\ UNCHANGED <<entityVars, tasks, syncQ, lastGen, notice>>

EndBuild(w) ==
    /\ At(w, "refused")
    /\ IF build.exists
       THEN Put([build EXCEPT !.status = "INFRA_FAILURE"])
       ELSE UNCHANGED <<build, queue>>
    /\ Goto(w, [worker[w] EXCEPT !.pc = "enqueue"])
    /\ UNCHANGED <<Entity, cancels, tasks, syncQ, lastGen, notice>>

RecordableAgain == build.exists

\* The task is recorded in the build unless the build is gone or has one.
Recordable == build.exists /\ build.task = None

RecordTask(w) ==
    /\ At(w, "record")
    /\ IF Recordable
       THEN /\ build' = [build EXCEPT !.task = worker[w].task]
            /\ Goto(w, [worker[w] EXCEPT !.pc = "enqueue"])
       ELSE /\ UNCHANGED build
            /\ Goto(w, [worker[w] EXCEPT !.pc = "cancel"])
    /\ UNCHANGED <<Entity, queue, cancels, tasks, syncQ, lastGen, notice>>

\* The commit raises an exception, whether or not it has been applied.
RecordRaises(w) ==
    /\ At(w, "record")
    /\ \/ UNCHANGED build
       \/ Recordable /\ build' = [build EXCEPT !.task = worker[w].task]
    /\ Goto(w, [worker[w] EXCEPT !.pc = "cancel", !.raise = TRUE])
    /\ UNCHANGED <<Entity, queue, cancels, tasks, syncQ, lastGen, notice>>

CancelUnrecorded(w) ==
    /\ At(w, "cancel")
    /\ Kill(worker[w].task)
    /\ Goto(w, IF worker[w].raise THEN Idle ELSE [worker[w] EXCEPT !.pc = "enqueue"])
    /\ UNCHANGED <<entityVars, syncQ, lastGen, notice>>

StatusOfSame(s) ==
    CASE s = "PENDING" -> "SCHEDULED"
      [] s = "RUNNING" -> "STARTED"
      [] OTHER -> s

\* _sync_build_with_task_result: the status for a task state.
StatusOf(s) ==
    CASE s = "PENDING" -> "SCHEDULED"
      [] s = "RUNNING" -> "STARTED"
      [] s = "COMPLETED" -> "SUCCESS"
      [] s \in {"CANCELED", "KILLED"} -> "CANCELED"
      [] s \in {"EXPIRED", "BOT_DIED"} -> "INFRA_FAILURE"

OutdatedNever(s) == FALSE

\* A started build does not go back: the result was loaded before it started.
Outdated(s) == s = "PENDING" /\ build.status = "STARTED"

ApplyResult(s) ==
    IF Live /\ ~Outdated(s) /\ StatusOf(s) # build.status
    THEN LET b == [build EXCEPT !.status = StatusOf(s)]
         IN Put(IF StatusOf(s) \in Ended THEN CancelSteps(b) ELSE b)
    ELSE UNCHANGED <<build, queue>>

SyncApply(w) ==
    /\ At(w, "apply")
    /\ ApplyResult(worker[w].result)
    /\ Goto(w, [worker[w] EXCEPT !.pc = "enqueue"])
    /\ UNCHANGED <<Entity, cancels, tasks, syncQ, lastGen, notice>>

\* The next generation is enqueued unless its name has been used.
Follow(g) == IF g < MaxGen THEN g + 1 ELSE g

SyncEnqueueScheduled(w) ==
    LET g == worker[w].gen
        fresh == IF g = lastGen /\ build.status = "SCHEDULED" THEN {Follow(g)} ELSE {}
    IN /\ At(w, "enqueue")
       /\ syncQ' = (syncQ \ {g}) \cup fresh
       /\ lastGen' = IF g = lastGen THEN Follow(g) ELSE lastGen
       /\ Goto(w, Idle)
       /\ UNCHANGED <<entityVars, tasks, notice>>

\* The task of this execution leaves the queue, unless the execution fails after
\* it has enqueued the next one.
SyncEnqueue(w) ==
    LET g == worker[w].gen
        fresh == IF g = lastGen THEN {Follow(g)} ELSE {}
    IN /\ At(w, "enqueue")
       /\ syncQ' \in {(syncQ \ {g}) \cup fresh, syncQ \cup fresh}
       /\ lastGen' = IF g = lastGen THEN Follow(g) ELSE lastGen
       /\ Goto(w, Idle)
       /\ UNCHANGED <<entityVars, tasks, notice>>

\* A sync task is not retried once the build has timed out.
SyncGiveUp(g) ==
    /\ g \in syncQ
    /\ now >= BuildTimeout
    /\ syncQ' = syncQ \ {g}
    /\ UNCHANGED <<entityVars, tasks, lastGen, worker, notice>>

-----------------------------------------------------------------------------
(* SubNotify: a PubSub message about a task may arrive at any time and more  *)
(* than once; one about another task than that of the build is dropped.      *)

NoticeRead(t) ==
    /\ notice = None
    /\ t \in Created
    /\ build.exists
    /\ t = build.task
    /\ notice' = tasks[t]
    /\ UNCHANGED <<entityVars, tasks, syncVars>>

NoticeApply ==
    /\ notice # None
    /\ ApplyResult(notice)
    /\ notice' = None
    /\ UNCHANGED <<Entity, cancels, tasks, syncVars>>

\* The push task that CancelBuild and DeleteBuild leave.
CancelSwarmingTask(t) ==
    /\ t \in cancels
    /\ cancels' = cancels \ {t}
    /\ Kill(t)
    /\ UNCHANGED <<build, now, queue, handler, sent, syncVars, notice>>

-----------------------------------------------------------------------------
BuildStep == EntityStep /\ UNCHANGED <<tasks, syncVars, notice>>

AgentStep == \E s \in {build.status, "STARTED"} \cup Verdicts,
                st \in {None, "incomplete", "complete"} : UpdateBuild(s, st)

Creation(w) ==
    \/ \E t \in TaskIds : TaskCreated(w, t) \/ TaskCreatedUnknown(w, t)
    \/ TaskRefused(w)
    \/ EndBuild(w)
    \/ RecordTask(w)
    \/ RecordRaises(w)
    \/ CancelUnrecorded(w)

SyncStep ==
    \/ \E w \in Workers :
        \/ \E g \in Gens : SyncStart(w, g)
        \/ Creation(w)
        \/ SyncApply(w)
        \/ SyncEnqueue(w)
        \/ Fail(w)
    \/ \E g \in Gens : SyncEnds(g) \/ SyncGiveUp(g)

NoticeStep == (\E t \in TaskIds : NoticeRead(t) \/ CancelSwarmingTask(t)) \/ NoticeApply

Next == BuildStep \/ SwarmingStep \/ AgentStep \/ SyncStep \/ NoticeStep

Spec == Init /\ [][Next]_vars

(* A request to App Engine does not hang, it is cut off at its deadline, and *)
(* tasks are executed until they succeed: they may fail, but not forever.    *)
(* The cron that expires builds runs every minute.  Nothing is assumed of    *)
(* Swarming, of PubSub messages, of users or of the clock.                   *)
Execution(w) ==
    \/ Creation(w)
    \/ SyncApply(w)
    \/ SyncEnqueue(w)
    \/ Fail(w)

Fairness ==
    /\ WF_vars(\E w \in Workers, g \in Gens : SyncStart(w, g))
    /\ WF_vars(\E w \in Workers : Execution(w))
    /\ SF_vars(\E w \in Workers : SyncApply(w))
    /\ WF_vars(ExpireBuild /\ UNCHANGED <<tasks, syncVars, notice>>)
    /\ WF_vars((\E t \in queue : ReadBuild(t)) /\ UNCHANGED <<tasks, syncVars, notice>>)
    /\ SF_vars(SendTask /\ UNCHANGED <<tasks, syncVars, notice>>)

FairSpec == Spec /\ Fairness

-----------------------------------------------------------------------------
TypeOK ==
    /\ EntityTypeOK
    /\ tasks \in [TaskIds -> TaskStates \cup {None}]
    /\ syncQ \subseteq Gens
    /\ lastGen \in Gens
    /\ worker \in [Workers -> Worker]
    /\ notice \in TaskStates \cup {None}

(* As long as the build has neither ended nor timed out, a sync task is in   *)
(* the queue: no crash, failure or double execution breaks the chain that    *)
(* creates the swarming task and follows it, PubSub or not.                  *)
SyncChainAlive == Live /\ now < BuildTimeout => syncQ # {}

(* A build is associated with one swarming task for good, although requests  *)
(* to create it are repeated and executed concurrently.                      *)
TaskIdStable == [][build.task # None => build'.task = build.task]_vars

(* A result loaded from Swarming before the build moved on, a late call of   *)
(* bbagent or a late PubSub message never takes the build back, and does not *)
(* replace a result ("Completed builds are immutable", swarming.py).  Only   *)
(* _end_build, after a refused creation, does not look at the status.        *)
StatusForward ==
    [][/\ build.status = "STARTED" => build'.status # "SCHEDULED"
       /\ IsEnded => \/ build'.status = build.status
                     \/ build'.status \in Ended /\ \E w \in Workers : At(w, "refused")]_vars

(* "Eventually both swarming task and buildbucket build will complete": once *)
(* the task of a build has ended, so does the build, without any PubSub      *)
(* message.                                                                  *)
FinishedTaskEndsBuild ==
    (build.exists /\ build.task # None /\ tasks[build.task] \notin {"PENDING", "RUNNING"})
        ~> (IsEnded \/ ~build.exists)
=============================================================================
