------------------------- MODULE BuildbucketProofs -------------------------
(* Proofs about builds on Swarming, for every number of executions, swarming *)
(* tasks, outcomes and generations and every timeout.                        *)
EXTENDS Buildbucket, BuildEntityProofs

-----------------------------------------------------------------------------
(* The inductive invariant.                                                  *)

(* A task that the build or an execution knows has been created, and an      *)
(* execution that applies a result has one.                                  *)
TasksInv ==
    /\ build.task # None => tasks[build.task] # None
    /\ \A w \in Workers :
          /\ worker[w].pc \in {"record", "cancel"} =>
                worker[w].task # None /\ tasks[worker[w].task] # None
          /\ worker[w].pc = "apply" => worker[w].result # None

(* The last generation is in the queue: an execution that takes it out puts  *)
(* in the next one, others leave it.                                         *)
ChainInv == Live /\ now < BuildTimeout => lastGen \in syncQ

SyncInv ==
    /\ TypeOK
    /\ TasksInv
    /\ ChainInv

(* What no step may do to a build.                                           *)
Forward ==
    /\ build' \in Build
    /\ build.task # None => build'.task = build.task
    /\ Live' => Live
    /\ build.status = "STARTED" => build'.status # "SCHEDULED"
    /\ IsEnded => \/ build'.status = build.status
                  \/ build'.status \in Ended /\ \E w \in Workers : At(w, "refused")

-----------------------------------------------------------------------------
(* What the helpers return.                                                  *)

\* Every state of a task gives a status, and only PENDING gives SCHEDULED.
LEMMA StatusOfType ==
    ASSUME NEW s \in TaskStates
    PROVE  /\ StatusOf(s) \in Statuses
           /\ StatusOf(s) = "SCHEDULED" => s = "PENDING"
BY SyncAssumption DEF StatusOf, TaskStates, Statuses, Ended

\* None of the states in which a task may be is None.
LEMMA StatesAreNotNone ==
    /\ None \notin TaskStates /\ "PENDING" # None /\ "RUNNING" # None
    /\ "CANCELED" # None /\ "KILLED" # None
BY SyncAssumption DEF TaskStates

\* A new build has no task, and its first sync task is in the queue.
LEMMA InitSync == Init => SyncInv
<1> SUFFICES ASSUME Init PROVE SyncInv
  OBVIOUS
<1> USE DEF Init
<1>1. build \in Build /\ build.task = None /\ Idle \in Worker /\ 0 \in Gens /\ 0 \in 0 .. MaxTime
  BY BuildAssumption, SyncAssumption DEF Build, Statuses, Idle, Worker, Gens
<1>2. TypeOK
  BY <1>1 DEF TypeOK, EntityTypeOK
<1>3. TasksInv
  BY <1>1 DEF TasksInv, Idle
<1> QED
  BY <1>2, <1>3 DEF SyncInv, ChainInv

-----------------------------------------------------------------------------
(* Steps that put a new status.                                              *)

(* Applying a result moves the build forward or not at all.                  *)
LEMMA ApplyForward ==
    ASSUME SyncInv, NEW s \in TaskStates, ApplyResult(s)
    PROVE  Forward /\ queue' \subseteq Kinds \X Statuses
<1>1. build \in Build /\ queue \subseteq Kinds \X Statuses
  BY DEF SyncInv, TypeOK, EntityTypeOK
<1>2. CASE Live /\ ~Outdated(s) /\ StatusOf(s) # build.status
  <2> DEFINE b == [build EXCEPT !.status = StatusOf(s)]
  <2>1. /\ b \in Build /\ b.status = StatusOf(s) /\ b.task = build.task
        /\ CancelSteps(b) \in Build /\ CancelSteps(b).status = StatusOf(s)
        /\ CancelSteps(b).task = build.task
    <3>1. b \in Build /\ b.status = StatusOf(s) /\ b.task = build.task
      BY <1>1, StatusOfType DEF Build
    <3> QED
      BY <3>1, FieldsTypeOK
  <2>2. Put(b) \/ Put(CancelSteps(b))
    BY <1>2 DEF ApplyResult
  <2> HIDE DEF b
  <2>3. /\ build' \in Build /\ queue' \subseteq Kinds \X Statuses
        /\ build'.task = build.task /\ build'.status = StatusOf(s)
    BY <1>1, <2>1, <2>2, PutTypeOK DEF Put
  <2> QED
    BY <1>2, <2>3, StatusOfType DEF Forward, Live, Outdated
<1>3. CASE UNCHANGED <<build, queue>>
  BY <1>1, <1>3 DEF Forward, Live, IsEnded
<1> QED
  BY <1>2, <1>3 DEF ApplyResult

\* Applying a result to the build leaves its task ID alone.
LEMMA ApplyKeepsTask ==
    ASSUME SyncInv, NEW s \in TaskStates, ApplyResult(s)
    PROVE  build'.task = build.task
<1>1. build \in Build
  BY DEF SyncInv, TypeOK, EntityTypeOK
<1> QED
  BY <1>1 DEF ApplyResult, Put, CancelSteps, Build

(* A call of bbagent.                                                        *)
LEMMA AgentForward ==
    ASSUME SyncInv, AgentStep
    PROVE  Forward /\ queue' \subseteq Kinds \X Statuses
<1>1. build \in Build /\ queue \subseteq Kinds \X Statuses
  BY DEF SyncInv, TypeOK, EntityTypeOK
<1>2. PICK s \in {build.status, "STARTED"} \cup Verdicts,
           st \in {None, "incomplete", "complete"} : UpdateBuild(s, st)
  BY DEF AgentStep
<1>3. s \in Statuses /\ (st # None => st \in {"none", "incomplete", "complete"})
      /\ (build.status = "STARTED" => s # "SCHEDULED")
  BY <1>1, BuildAssumption DEF Build, Statuses, Ended
<1>4. Updated(s, st) \in Build /\ Updated(s, st).status = s /\ Updated(s, st).task = build.task
  <2> DEFINE b == [build EXCEPT !.status = s]
  <2>1. b \in Build /\ b.status = s /\ b.task = build.task
    BY <1>1, <1>3 DEF Build
  <2>2. \/ Updated(s, st) = b \/ Updated(s, st) = CancelSteps(b)
        \/ st # None /\ Updated(s, st) = [b EXCEPT !.steps = st]
    BY DEF Updated
  <2> HIDE DEF b
  <2>3. st # None => /\ [b EXCEPT !.steps = st] \in Build
                     /\ [b EXCEPT !.steps = st].status = s
                     /\ [b EXCEPT !.steps = st].task = build.task
    BY <1>3, <2>1 DEF Build
  <2> QED
    BY <2>1, <2>2, <2>3, FieldsTypeOK
<1>5. Live /\ build' = Updated(s, st) /\ queue' \subseteq Kinds \X Statuses
  BY <1>1, <1>2, <1>4, PutTypeOK DEF UpdateBuild, Put
<1> QED
  BY <1>3, <1>4, <1>5 DEF Forward, Live

(* The refused creation is the one that does not look at the status.         *)
LEMMA EndBuildForward ==
    ASSUME SyncInv, NEW w \in Workers, EndBuild(w)
    PROVE  Forward /\ queue' \subseteq Kinds \X Statuses
<1>1. build \in Build /\ queue \subseteq Kinds \X Statuses
  BY DEF SyncInv, TypeOK, EntityTypeOK
<1>2. CASE build.exists
  <2> DEFINE b == [build EXCEPT !.status = "INFRA_FAILURE"]
  <2>1. b \in Build /\ b.status = "INFRA_FAILURE" /\ b.task = build.task
    BY <1>1 DEF Build, Statuses, Ended
  <2>2. Put(b) /\ At(w, "refused")
    BY <1>2 DEF EndBuild
  <2> HIDE DEF b
  <2>3. /\ build' \in Build /\ queue' \subseteq Kinds \X Statuses
        /\ build'.task = build.task /\ build'.status = "INFRA_FAILURE"
    BY <1>1, <2>1, <2>2, PutTypeOK DEF Put
  <2> QED
    BY <2>2, <2>3 DEF Forward, Live, IsEnded, Ended
<1>3. CASE ~build.exists
  BY <1>1, <1>3 DEF EndBuild, Forward, Live, IsEnded
<1> QED
  BY <1>2, <1>3

(* Recording a task: only in a build that has none.                          *)
LEMMA RecordForward ==
    ASSUME SyncInv, NEW w \in Workers, RecordTask(w) \/ RecordRaises(w)
    PROVE  /\ Forward /\ queue' = queue
           /\ build'.task = build.task \/ build'.task = worker[w].task
<1>1. /\ build \in Build /\ queue \subseteq Kinds \X Statuses
      /\ worker[w].task \in TaskIds
  BY DEF SyncInv, TypeOK, EntityTypeOK, TasksInv, At, RecordTask, RecordRaises, Worker
<1>2. \/ build' = build
      \/ Recordable /\ build' = [build EXCEPT !.task = worker[w].task]
  BY DEF RecordTask, RecordRaises
<1>3. queue' = queue
  BY DEF RecordTask, RecordRaises
<1>4. CASE build' = build
  BY <1>1, <1>3, <1>4 DEF Forward, Live, IsEnded
<1>5. CASE Recordable /\ build' = [build EXCEPT !.task = worker[w].task]
  <2>1. /\ build' \in Build /\ build'.status = build.status
        /\ build'.exists = build.exists /\ build'.task = worker[w].task
    BY <1>1, <1>5 DEF Build
  <2> QED
    BY <1>3, <1>5, <2>1 DEF Forward, Live, IsEnded, Recordable
<1> QED
  BY <1>2, <1>4, <1>5

(* Users, the timeout, tasks and the clock.                                  *)
LEMMA EntityForward ==
    ASSUME SyncInv, EntityStep
    PROVE  Forward /\ build'.task = build.task /\ now' \in Nat /\ now <= now'
<1>1. build \in Build /\ now \in Nat
  BY BuildAssumption DEF SyncInv, TypeOK, EntityTypeOK
<1>2. CASE CancelBuild
  <2>1. [build EXCEPT !.status = "CANCELED"] \in Build
        /\ [build EXCEPT !.status = "CANCELED"].status = "CANCELED"
        /\ [build EXCEPT !.status = "CANCELED"].task = build.task
    BY <1>1 DEF Build, Statuses, Ended
  <2> DEFINE b == Unleased([build EXCEPT !.status = "CANCELED"])
  <2>2. b \in Build /\ b.status = "CANCELED" /\ b.task = build.task
    BY <2>1, FieldsTypeOK
  <2>3. Live /\ build' = CancelSteps(b) /\ now' = now
    BY <1>2 DEF CancelBuild, Put
  <2> HIDE DEF b
  <2>4. build' \in Build /\ build'.status = "CANCELED" /\ build'.task = build.task
    BY <2>2, <2>3, FieldsTypeOK
  <2> QED
    BY <1>1, <2>3, <2>4 DEF Forward, Live
<1>3. CASE ExpireBuild
  <2>1. [build EXCEPT !.status = "INFRA_FAILURE"] \in Build
        /\ [build EXCEPT !.status = "INFRA_FAILURE"].status = "INFRA_FAILURE"
        /\ [build EXCEPT !.status = "INFRA_FAILURE"].task = build.task
    BY <1>1 DEF Build, Statuses, Ended
  <2>2. Live /\ build' = Unleased([build EXCEPT !.status = "INFRA_FAILURE"]) /\ now' = now
    BY <1>3 DEF ExpireBuild, Put
  <2>3. build' \in Build /\ build'.status = "INFRA_FAILURE" /\ build'.task = build.task
    BY <2>1, <2>2, FieldsTypeOK
  <2> QED
    BY <1>1, <2>2, <2>3 DEF Forward, Live
<1>4. CASE DeleteBuild
  <2>1. /\ build' \in Build /\ build'.status = build.status /\ build'.task = build.task
        /\ ~build'.exists /\ now' = now
    BY <1>1, <1>4 DEF DeleteBuild, Build
  <2> QED
    BY <1>1, <2>1 DEF Forward, Live
<1>5. CASE Announcing \/ Tick
  <2>1. build' = build /\ (now' = now \/ now' = now + 1)
    BY <1>5 DEF Announcing, DropTask, ReadBuild, SendTask, SendFails, Tick
  <2> QED
    BY <1>1, <2>1 DEF Forward, Live, IsEnded
<1> QED
  BY <1>2, <1>3, <1>4, <1>5 DEF EntityStep

-----------------------------------------------------------------------------
(* Swarming tasks are not forgotten.                                         *)

TasksGrow ==
    /\ tasks' \in [TaskIds -> TaskStates \cup {None}]
    /\ \A t \in TaskIds : tasks[t] # None => tasks'[t] # None

\* A task that changes its state or is created is there afterwards.
LEMMA SetTaskGrows ==
    ASSUME tasks \in [TaskIds -> TaskStates \cup {None}],
           NEW t \in TaskIds, NEW s \in TaskStates, SetTask(t, s)
    PROVE  TasksGrow /\ tasks'[t] # None
BY StatesAreNotNone DEF SetTask, TasksGrow

\* Killing a task does not make it disappear.
LEMMA KillGrows ==
    ASSUME tasks \in [TaskIds -> TaskStates \cup {None}], NEW t \in TaskIds, Kill(t)
    PROVE  TasksGrow
<1>1. CASE tasks[t] \in {"PENDING", "RUNNING"}
  <2>1. SetTask(t, "CANCELED") \/ SetTask(t, "KILLED")
    BY <1>1 DEF Kill
  <2> QED
    BY <2>1, SetTaskGrows DEF TaskStates
<1>2. CASE tasks[t] \notin {"PENDING", "RUNNING"}
  <2>1. SetTask(t, tasks[t])
    BY <1>2 DEF Kill
  <2> QED
    BY <2>1 DEF SetTask, TasksGrow
<1> QED
  BY <1>1, <1>2

\* Nor does a step that Swarming has no part in.
LEMMA TasksStay ==
    ASSUME tasks \in [TaskIds -> TaskStates \cup {None}], UNCHANGED tasks
    PROVE  TasksGrow
BY DEF TasksGrow

-----------------------------------------------------------------------------
(* What a step has to show for the invariant.                                *)

(* A step of an execution.                                                   *)
LEMMA GotoInv ==
    ASSUME SyncInv, NEW w \in Workers, NEW r \in Worker, Goto(w, r), TasksGrow,
           \/ build'.task = build.task
           \/ build'.task = worker[w].task /\ At(w, "record"),
           r.pc \in {"record", "cancel"} => r.task # None /\ tasks'[r.task] # None,
           r.pc = "apply" => r.result # None
    PROVE  worker' \in [Workers -> Worker] /\ TasksInv'
<1>1. worker \in [Workers -> Worker] /\ build.task \in TaskIds \cup {None}
  BY DEF SyncInv, TypeOK, EntityTypeOK, Build
<1>2. /\ worker' \in [Workers -> Worker] /\ worker'[w] = r
      /\ \A v \in Workers : v # w => worker'[v] = worker[v]
  BY <1>1 DEF Goto
<1>3. \A v \in Workers : worker[v].task \in TaskIds \cup {None}
  BY <1>1 DEF Worker
<1>4. build'.task # None => tasks'[build'.task] # None
  BY <1>1, <1>3 DEF SyncInv, TasksInv, TasksGrow, At
<1>5. \A v \in Workers : v # w =>
        /\ worker'[v].pc \in {"record", "cancel"} =>
              worker'[v].task # None /\ tasks'[worker'[v].task] # None
        /\ worker'[v].pc = "apply" => worker'[v].result # None
  BY <1>2, <1>3 DEF SyncInv, TasksInv, TasksGrow
<1> QED
  BY <1>2, <1>4, <1>5 DEF TasksInv

(* A step of somebody else.                                                  *)
LEMMA OthersInv ==
    ASSUME SyncInv, UNCHANGED worker, TasksGrow, build'.task = build.task
    PROVE  worker' \in [Workers -> Worker] /\ TasksInv'
<1>1. worker \in [Workers -> Worker] /\ build.task \in TaskIds \cup {None}
  BY DEF SyncInv, TypeOK, EntityTypeOK, Build
<1>2. \A v \in Workers : worker[v].task \in TaskIds \cup {None}
  BY <1>1 DEF Worker
<1> QED
  BY <1>1, <1>2 DEF SyncInv, TasksInv, TasksGrow

(* A step that leaves the queue of sync tasks alone.                         *)
LEMMA ChainStays ==
    ASSUME SyncInv, Forward, now' \in Nat, now <= now', UNCHANGED <<syncQ, lastGen>>
    PROVE  ChainInv' /\ syncQ' \subseteq Gens /\ lastGen' \in Gens
<1>1. now \in Nat /\ BuildTimeout \in Nat
  BY BuildAssumption DEF SyncInv, TypeOK, EntityTypeOK
<1> QED
  BY <1>1 DEF SyncInv, TypeOK, ChainInv, Forward

(* A step that changes no build.                                             *)
LEMMA SameBuild ==
    ASSUME SyncInv, UNCHANGED entityVars
    PROVE  /\ Forward /\ EntityTypeOK' /\ build'.task = build.task
           /\ now' \in Nat /\ now <= now'
<1>1. build \in Build /\ now \in Nat
  BY BuildAssumption DEF SyncInv, TypeOK, EntityTypeOK
<1> QED
  BY <1>1 DEF entityVars, SyncInv, TypeOK, EntityTypeOK, Forward, Live, IsEnded

(* A step that changes the build and its queue only.                         *)
LEMMA MovedBuild ==
    ASSUME SyncInv, Forward, queue' \subseteq Kinds \X Statuses, UNCHANGED <<Entity, cancels>>
    PROVE  EntityTypeOK' /\ now' \in Nat /\ now <= now'
<1>1. now \in Nat
  BY BuildAssumption DEF SyncInv, TypeOK, EntityTypeOK
<1> QED
  BY <1>1 DEF SyncInv, TypeOK, EntityTypeOK, Forward, Entity

-----------------------------------------------------------------------------
(* The steps.                                                                *)

SyncKept == SyncInv' /\ Forward

(* The steps that all builds share.                                          *)
LEMMA BuildStepInv ==
    ASSUME SyncInv, BuildStep
    PROVE  SyncKept
<1>1. EntityStep /\ UNCHANGED <<tasks, syncVars, notice>>
  BY DEF BuildStep
<1>2. EntityTypeOK'
  BY <1>1, EntityStepTypeOK DEF SyncInv, TypeOK
<1>3. TasksGrow /\ UNCHANGED worker
  BY <1>1, TasksStay DEF SyncInv, TypeOK, syncVars
<1>4. worker' \in [Workers -> Worker] /\ TasksInv'
  BY <1>1, <1>3, EntityForward, OthersInv
<1>5. ChainInv'
  BY <1>1, EntityForward, ChainStays DEF syncVars
<1> QED
  BY <1>1, <1>2, <1>4, <1>5, EntityForward DEF SyncKept, SyncInv, TypeOK, syncVars

(* Swarming tasks start and end by themselves.                               *)
LEMMA SwarmingStepInv ==
    ASSUME SyncInv, SwarmingStep
    PROVE  SyncKept
<1>1. PICK t \in Created :
        /\ \E s \in TaskStates : SetTask(t, s)
        /\ UNCHANGED <<entityVars, syncVars, notice>>
  BY DEF SwarmingStep, TaskStates
<1>2. TasksGrow
  BY <1>1, SetTaskGrows DEF SyncInv, TypeOK, Created
<1>3. UNCHANGED <<worker, syncQ, lastGen>>
  BY <1>1 DEF syncVars
<1>4. worker' \in [Workers -> Worker] /\ TasksInv' /\ ChainInv' /\ Forward /\ EntityTypeOK'
  BY <1>1, <1>2, <1>3, SameBuild, OthersInv, ChainStays
<1> QED
  BY <1>1, <1>2, <1>3, <1>4 DEF SyncKept, SyncInv, TypeOK, TasksGrow

(* Calls of bbagent.                                                         *)
LEMMA AgentStepInv ==
    ASSUME SyncInv, AgentStep
    PROVE  SyncKept
<1>1. /\ UNCHANGED <<Entity, cancels, tasks, syncQ, lastGen, worker, notice>>
      /\ build'.task = build.task
  <2>1. PICK s \in {build.status, "STARTED"} \cup Verdicts,
             st \in {None, "incomplete", "complete"} : UpdateBuild(s, st)
    BY DEF AgentStep
  <2>2. build' = Updated(s, st) /\ build \in Build
    BY <2>1 DEF UpdateBuild, Put, SyncInv, TypeOK, EntityTypeOK
  <2>3. Updated(s, st).task = build.task
    BY <2>2 DEF Updated, CancelSteps, Build
  <2> QED
    BY <2>1, <2>2, <2>3 DEF UpdateBuild, Entity, syncVars
<1>2. Forward /\ queue' \subseteq Kinds \X Statuses
  BY AgentForward
<1>3. TasksGrow
  BY <1>1, TasksStay DEF SyncInv, TypeOK
<1>4. worker' \in [Workers -> Worker] /\ TasksInv' /\ ChainInv' /\ EntityTypeOK'
  BY <1>1, <1>2, <1>3, MovedBuild, OthersInv, ChainStays
<1> QED
  BY <1>1, <1>2, <1>4 DEF SyncKept, SyncInv, TypeOK

(* PubSub messages, and tasks to cancel a swarming task.                     *)
LEMMA NoticeStepInv ==
    ASSUME SyncInv, NoticeStep
    PROVE  SyncKept
<1>1. ASSUME NEW t \in TaskIds, NoticeRead(t)
      PROVE  SyncKept
  <2>1. UNCHANGED <<entityVars, tasks, worker, syncQ, lastGen>> /\ notice' \in TaskStates
    BY <1>1 DEF NoticeRead, Created, SyncInv, TypeOK, syncVars
  <2>2. TasksGrow
    BY <2>1, TasksStay DEF SyncInv, TypeOK
  <2>3. worker' \in [Workers -> Worker] /\ TasksInv' /\ ChainInv' /\ Forward /\ EntityTypeOK'
    BY <2>1, <2>2, SameBuild, OthersInv, ChainStays
  <2> QED
    BY <2>1, <2>3 DEF SyncKept, SyncInv, TypeOK
<1>2. ASSUME NEW t \in TaskIds, CancelSwarmingTask(t)
      PROVE  SyncKept
  <2>1. /\ Kill(t) /\ UNCHANGED <<build, now, queue, handler, sent, worker, syncQ, lastGen, notice>>
        /\ cancels' \subseteq cancels
    BY <1>2 DEF CancelSwarmingTask, syncVars
  <2>2. TasksGrow
    BY <2>1, KillGrows DEF SyncInv, TypeOK
  <2>3. Forward /\ EntityTypeOK' /\ build'.task = build.task /\ now' \in Nat /\ now <= now'
    BY <2>1, BuildAssumption
       DEF SyncInv, TypeOK, EntityTypeOK, Forward, Live, IsEnded
  <2>4. worker' \in [Workers -> Worker] /\ TasksInv' /\ ChainInv'
    BY <2>1, <2>2, <2>3, OthersInv, ChainStays
  <2> QED
    BY <2>1, <2>2, <2>3, <2>4 DEF SyncKept, SyncInv, TypeOK, TasksGrow
<1>3. CASE NoticeApply
  <2>1. /\ notice \in TaskStates /\ ApplyResult(notice) /\ notice' = None
        /\ UNCHANGED <<Entity, cancels, tasks, worker, syncQ, lastGen>>
    BY <1>3 DEF NoticeApply, SyncInv, TypeOK, syncVars
  <2>2. Forward /\ queue' \subseteq Kinds \X Statuses /\ build'.task = build.task
    BY <2>1, ApplyForward, ApplyKeepsTask
  <2>3. TasksGrow
    BY <2>1, TasksStay DEF SyncInv, TypeOK
  <2>4. worker' \in [Workers -> Worker] /\ TasksInv' /\ ChainInv' /\ EntityTypeOK'
    BY <2>1, <2>2, <2>3, MovedBuild, OthersInv, ChainStays
  <2> QED
    BY <2>1, <2>2, <2>4 DEF SyncKept, SyncInv, TypeOK
<1> QED
  BY <1>1, <1>2, <1>3 DEF NoticeStep

(* A step of an execution that leaves the queue of sync tasks alone.         *)
LEMMA ExecutionInv ==
    ASSUME SyncInv, NEW w \in Workers, NEW r \in Worker, Goto(w, r), TasksGrow,
           Forward, queue' \subseteq Kinds \X Statuses,
           UNCHANGED <<Entity, cancels, syncQ, lastGen, notice>>,
           \/ build'.task = build.task
           \/ build'.task = worker[w].task /\ At(w, "record"),
           r.pc \in {"record", "cancel"} => r.task # None /\ tasks'[r.task] # None,
           r.pc = "apply" => r.result # None
    PROVE  SyncKept
<1>1. EntityTypeOK' /\ now' \in Nat /\ now <= now'
  BY MovedBuild
<1>2. ChainInv'
  BY <1>1, ChainStays
<1>3. worker' \in [Workers -> Worker] /\ TasksInv'
  BY GotoInv
<1> QED
  BY <1>1, <1>2, <1>3 DEF SyncKept, SyncInv, TypeOK, TasksGrow

(* One that does not change the build either.                                *)
LEMMA LocalInv ==
    ASSUME SyncInv, NEW w \in Workers, NEW r \in Worker, Goto(w, r), TasksGrow,
           UNCHANGED <<entityVars, syncQ, lastGen, notice>>,
           r.pc \in {"record", "cancel"} => r.task # None /\ tasks'[r.task] # None,
           r.pc = "apply" => r.result # None
    PROVE  SyncKept
<1>1. Forward /\ build'.task = build.task
  BY SameBuild
<1>2. UNCHANGED <<Entity, cancels>> /\ queue' \subseteq Kinds \X Statuses
  BY DEF entityVars, Entity, SyncInv, TypeOK, EntityTypeOK
<1> QED
  BY <1>1, <1>2, ExecutionInv

\* The records that the steps go to.
LEMMA WorkerTypes ==
    ASSUME SyncInv, NEW w \in Workers
    PROVE  /\ worker[w] \in Worker /\ Idle \in Worker /\ Idle.pc = "idle"
           /\ \A p \in {"refused", "enqueue", "cancel"} :
                 /\ [worker[w] EXCEPT !.pc = p] \in Worker
                 /\ [worker[w] EXCEPT !.pc = p].pc = p
                 /\ [worker[w] EXCEPT !.pc = p].task = worker[w].task
           /\ [worker[w] EXCEPT !.pc = "cancel", !.raise = TRUE] \in Worker
           /\ [worker[w] EXCEPT !.pc = "cancel", !.raise = TRUE].pc = "cancel"
           /\ [worker[w] EXCEPT !.pc = "cancel", !.raise = TRUE].task = worker[w].task
           /\ tasks \in [TaskIds -> TaskStates \cup {None}]
<1>1. worker[w] \in Worker /\ tasks \in [TaskIds -> TaskStates \cup {None}]
  BY DEF SyncInv, TypeOK
<1>2. Idle \in Worker /\ Idle.pc = "idle"
  BY SyncAssumption DEF Idle, Worker, Gens
<1> QED
  BY <1>1, <1>2 DEF Worker

(* Creating, recording and canceling a swarming task.                        *)
LEMMA CreationInv ==
    ASSUME SyncInv, NEW w \in Workers, Creation(w)
    PROVE  SyncKept
<1>1. ASSUME NEW t \in TaskIds, TaskCreated(w, t)
      PROVE  SyncKept
  <2> DEFINE r == [worker[w] EXCEPT !.pc = "record", !.task = t]
  <2>1. r \in Worker /\ r.pc = "record" /\ r.task = t
    BY WorkerTypes DEF Worker
  <2>2. TasksGrow /\ tasks'[t] # None
    <3>1. CASE tasks[t] = None
      <4>1. SetTask(t, "PENDING") /\ "PENDING" \in TaskStates
        BY <1>1, <3>1 DEF TaskCreated, TaskStates
      <4> QED
        BY <4>1, SetTaskGrows, WorkerTypes
    <3>2. CASE tasks[t] # None
      BY <1>1, <3>2, TasksStay, WorkerTypes DEF TaskCreated
    <3> QED
      BY <3>1, <3>2
  <2>3. Goto(w, r) /\ UNCHANGED <<entityVars, syncQ, lastGen, notice>>
    BY <1>1 DEF TaskCreated
  <2>4. t # None
    BY NoneIsNothing
  <2> HIDE DEF r
  <2> QED
    BY <2>1, <2>2, <2>3, <2>4, LocalInv
<1>2. ASSUME NEW t \in TaskIds, TaskCreatedUnknown(w, t)
      PROVE  SyncKept
  <2>1. /\ SetTask(t, "PENDING") /\ "PENDING" \in TaskStates
        /\ Goto(w, Idle) /\ UNCHANGED <<entityVars, syncQ, lastGen, notice>>
    BY <1>2 DEF TaskCreatedUnknown, TaskStates
  <2>2. TasksGrow
    BY <2>1, SetTaskGrows, WorkerTypes
  <2> QED
    BY <2>1, <2>2, WorkerTypes, LocalInv
<1>3. CASE TaskRefused(w)
  <2> DEFINE r == [worker[w] EXCEPT !.pc = "refused"]
  <2>1. r \in Worker /\ r.pc = "refused"
    BY WorkerTypes
  <2>2. /\ Goto(w, r) /\ UNCHANGED <<entityVars, syncQ, lastGen, notice>>
        /\ TasksGrow
    BY <1>3, TasksStay, WorkerTypes DEF TaskRefused
  <2> HIDE DEF r
  <2> QED
    BY <2>1, <2>2, LocalInv
<1>4. CASE EndBuild(w)
  <2> DEFINE r == [worker[w] EXCEPT !.pc = "enqueue"]
  <2>1. r \in Worker /\ r.pc = "enqueue"
    BY WorkerTypes
  <2>2. /\ Goto(w, r) /\ UNCHANGED <<Entity, cancels, syncQ, lastGen, notice>>
        /\ TasksGrow
    BY <1>4, TasksStay, WorkerTypes DEF EndBuild
  <2>3. build'.task = build.task
    BY <1>4 DEF EndBuild, Put, SyncInv, TypeOK, EntityTypeOK, Build
  <2> HIDE DEF r
  <2> QED
    BY <1>4, <2>1, <2>2, <2>3, EndBuildForward, ExecutionInv
<1>5. CASE RecordTask(w) \/ RecordRaises(w)
  <2>1. /\ At(w, "record") /\ UNCHANGED <<Entity, cancels, syncQ, lastGen, notice>>
        /\ UNCHANGED tasks
    BY <1>5 DEF RecordTask, RecordRaises
  <2>2. TasksGrow /\ worker[w].task # None /\ tasks'[worker[w].task] # None
    BY <2>1, TasksStay, WorkerTypes DEF SyncInv, TasksInv, At
  <2>3. PICK r \in {[worker[w] EXCEPT !.pc = "enqueue"], [worker[w] EXCEPT !.pc = "cancel"],
                    [worker[w] EXCEPT !.pc = "cancel", !.raise = TRUE]} : Goto(w, r)
    BY <1>5 DEF RecordTask, RecordRaises
  <2>4. r \in Worker /\ r.pc \in {"enqueue", "cancel"} /\ r.task = worker[w].task
    BY <2>3, WorkerTypes
  <2>5. /\ Forward /\ queue' \subseteq Kinds \X Statuses
        /\ build'.task = build.task \/ build'.task = worker[w].task
    BY <1>5, RecordForward DEF SyncInv, TypeOK, EntityTypeOK
  <2> QED
    BY <2>1, <2>2, <2>3, <2>4, <2>5, ExecutionInv
<1>6. CASE CancelUnrecorded(w)
  <2>1. /\ Kill(worker[w].task) /\ UNCHANGED <<entityVars, syncQ, lastGen, notice>>
        /\ worker[w].task \in TaskIds
    BY <1>6, WorkerTypes DEF CancelUnrecorded, At, SyncInv, TasksInv, Worker
  <2>2. PICK r \in {Idle, [worker[w] EXCEPT !.pc = "enqueue"]} : Goto(w, r)
    BY <1>6 DEF CancelUnrecorded
  <2>3. r \in Worker /\ r.pc \in {"idle", "enqueue"}
    BY <2>2, WorkerTypes
  <2>4. TasksGrow
    BY <2>1, KillGrows, WorkerTypes
  <2> QED
    BY <2>1, <2>2, <2>3, <2>4, LocalInv
<1> QED
  BY <1>1, <1>2, <1>3, <1>4, <1>5, <1>6 DEF Creation

(* Enqueuing the next generation, and tasks that leave the queue.            *)
LEMMA QueueStepInv ==
    ASSUME SyncInv, UNCHANGED <<entityVars, tasks, notice>>,
           worker' \in [Workers -> Worker], TasksInv',
           syncQ' \subseteq Gens, lastGen' \in Gens,
           Live /\ now < BuildTimeout => lastGen' \in syncQ'
    PROVE  SyncKept
<1>1. EntityTypeOK' /\ Forward
  BY SameBuild
<1>2. ChainInv'
  BY DEF ChainInv, Live, IsEnded, entityVars
<1> QED
  BY <1>1, <1>2 DEF SyncKept, SyncInv, TypeOK

\* The end of an execution: the next generation replaces the one executed.
LEMMA EnqueueInv ==
    ASSUME SyncInv, NEW w \in Workers, SyncEnqueue(w)
    PROVE  SyncKept
<1> DEFINE g == worker[w].gen
<1>1. /\ UNCHANGED <<entityVars, tasks, notice>> /\ Goto(w, Idle)
      /\ lastGen' = IF g = lastGen THEN Follow(g) ELSE lastGen
      /\ \/ syncQ' = (syncQ \ {g}) \cup (IF g = lastGen THEN {Follow(g)} ELSE {})
         \/ syncQ' = syncQ \cup (IF g = lastGen THEN {Follow(g)} ELSE {})
  BY DEF SyncEnqueue
<1>2. g \in Gens /\ Follow(g) \in Gens /\ syncQ \subseteq Gens /\ lastGen \in Gens
  <2>1. g \in Gens /\ syncQ \subseteq Gens /\ lastGen \in Gens
    BY WorkerTypes DEF Worker, SyncInv, TypeOK
  <2> HIDE DEF g
  <2>2. Follow(g) \in Gens
    BY <2>1, SyncAssumption DEF Gens, Follow
  <2> QED
    BY <2>1, <2>2
<1>3. worker' \in [Workers -> Worker] /\ TasksInv'
  <2>1. TasksGrow /\ build'.task = build.task
    BY <1>1, TasksStay, WorkerTypes, SameBuild
  <2> QED
    BY <1>1, <2>1, WorkerTypes, GotoInv
<1>4. Live /\ now < BuildTimeout => lastGen' \in syncQ'
  BY <1>1 DEF SyncInv, ChainInv
<1> QED
  BY <1>1, <1>2, <1>3, <1>4, QueueStepInv

\* All steps of an execution of _sync_build.
LEMMA SyncStepInv ==
    ASSUME SyncInv, SyncStep
    PROVE  SyncKept
<1>1. ASSUME NEW w \in Workers, NEW g \in Gens, SyncStart(w, g)
      PROVE  SyncKept
  <2> DEFINE r == [Idle EXCEPT !.gen = g,
                       !.pc = IF build.task = None THEN "create" ELSE "apply",
                       !.result = IF build.task = None THEN None ELSE tasks[build.task]]
  <2>1. /\ Goto(w, r) /\ UNCHANGED <<entityVars, tasks, syncQ, lastGen, notice>>
    BY <1>1 DEF SyncStart
  <2>2. build.task \in TaskIds \cup {None} /\ (build.task # None => tasks[build.task] # None)
    BY DEF SyncInv, TypeOK, EntityTypeOK, Build, TasksInv
  <2>3. r \in Worker /\ r.pc \in {"create", "apply"} /\ (r.pc = "apply" => r.result # None)
    <3> DEFINE p == IF build.task = None THEN "create" ELSE "apply"
               x == IF build.task = None THEN None ELSE tasks[build.task]
    <3>1. /\ p \in {"create", "apply"} /\ x \in TaskStates \cup {None}
          /\ p = "apply" => x # None
      BY <2>2, WorkerTypes
    <3>2. Idle \in Worker /\ r = [Idle EXCEPT !.gen = g, !.pc = p, !.result = x]
      BY WorkerTypes
    <3> HIDE DEF p, x, r
    <3> QED
      BY <3>1, <3>2 DEF Worker
  <2>4. TasksGrow
    BY <2>1, TasksStay, WorkerTypes
  <2> HIDE DEF r
  <2> QED
    BY <2>1, <2>3, <2>4, LocalInv
<1>2. ASSUME NEW w \in Workers, SyncApply(w)
      PROVE  SyncKept
  <2> DEFINE r == [worker[w] EXCEPT !.pc = "enqueue"]
  <2>1. /\ worker[w].result \in TaskStates /\ ApplyResult(worker[w].result)
        /\ Goto(w, r) /\ UNCHANGED <<Entity, cancels, tasks, syncQ, lastGen, notice>>
    BY <1>2, WorkerTypes DEF SyncApply, At, SyncInv, TasksInv, Worker
  <2>2. r \in Worker /\ r.pc = "enqueue" /\ TasksGrow
    BY <2>1, WorkerTypes, TasksStay
  <2>3. Forward /\ queue' \subseteq Kinds \X Statuses /\ build'.task = build.task
    BY <2>1, ApplyForward, ApplyKeepsTask
  <2> HIDE DEF r
  <2> QED
    BY <2>1, <2>2, <2>3, ExecutionInv
<1>3. ASSUME NEW w \in Workers, Fail(w)
      PROVE  SyncKept
  <2>1. Goto(w, Idle) /\ UNCHANGED <<entityVars, tasks, syncQ, lastGen, notice>>
    BY <1>3 DEF Fail
  <2> QED
    BY <2>1, WorkerTypes, TasksStay, LocalInv
<1>4. ASSUME NEW g \in Gens, SyncEnds(g) \/ SyncGiveUp(g)
      PROVE  SyncKept
  <2>1. /\ UNCHANGED <<entityVars, tasks, lastGen, worker, notice>>
        /\ syncQ' = syncQ \ {g} /\ (~Live \/ now >= BuildTimeout)
    BY <1>4 DEF SyncEnds, SyncGiveUp
  <2>2. worker' \in [Workers -> Worker] /\ TasksInv'
    BY <2>1, TasksStay, SameBuild, OthersInv DEF SyncInv, TypeOK
  <2>3. syncQ' \subseteq Gens /\ lastGen' \in Gens
    BY <2>1 DEF SyncInv, TypeOK
  <2>4. ~(Live /\ now < BuildTimeout)
    BY <2>1, BuildAssumption DEF SyncInv, TypeOK, EntityTypeOK
  <2> QED
    BY <2>1, <2>2, <2>3, <2>4, QueueStepInv
<1> QED
  BY <1>1, <1>2, <1>3, <1>4, CreationInv, EnqueueInv DEF SyncStep

\* All steps, and stuttering.
LEMMA SyncNext == SyncInv /\ [Next]_vars => SyncKept
<1>1. ASSUME SyncInv, UNCHANGED vars
      PROVE  SyncKept
  <2>1. UNCHANGED <<entityVars, tasks, syncQ, lastGen, worker, notice>>
    BY <1>1 DEF vars, syncVars
  <2>2. worker' \in [Workers -> Worker] /\ TasksInv'
    BY <1>1, <2>1, TasksStay, SameBuild, OthersInv DEF SyncInv, TypeOK
  <2> QED
    BY <1>1, <2>1, <2>2, QueueStepInv DEF SyncInv, TypeOK, ChainInv
<1> QED
  BY <1>1, BuildStepInv, SwarmingStepInv, AgentStepInv, SyncStepInv, NoticeStepInv DEF Next

-----------------------------------------------------------------------------
(* The invariant: tasks that are referred to exist, and the last generation  *)
(* of sync tasks is in the queue.                                            *)
THEOREM SyncInvariant == Spec => []SyncInv
<1>1. SyncInv /\ [Next]_vars => SyncInv'
  BY SyncNext DEF SyncKept
<1> QED
  BY <1>1, InitSync, PTL DEF Spec

(* Type correctness: every result that is applied is a state of a task.      *)
THEOREM SyncTypeOK == Spec => []TypeOK
<1>1. SyncInv => TypeOK
  BY DEF SyncInv
<1> QED
  BY <1>1, SyncInvariant, PTL

(* The chain of sync tasks lasts until the build ends or times out.          *)
THEOREM SyncChainAliveThm == Spec => []SyncChainAlive
<1>1. SyncInv => SyncChainAlive
  BY DEF SyncInv, ChainInv, SyncChainAlive
<1> QED
  BY <1>1, SyncInvariant, PTL

(* A build keeps its swarming task.                                          *)
THEOREM TaskIdStableThm == Spec => TaskIdStable
<1>1. SyncInv /\ [Next]_vars => [build.task # None => build'.task = build.task]_vars
  BY SyncNext DEF SyncKept, Forward
<1> QED
  BY <1>1, SyncInvariant, PTL DEF Spec, TaskIdStable

(* No stale result, late call or late message takes the build back or        *)
(* replaces a result, except a refused creation.                             *)
THEOREM StatusForwardThm == Spec => StatusForward
<1>1. SyncInv /\ [Next]_vars =>
        [/\ build.status = "STARTED" => build'.status # "SCHEDULED"
         /\ IsEnded => \/ build'.status = build.status
                       \/ build'.status \in Ended /\ \E w \in Workers : At(w, "refused")]_vars
  BY SyncNext DEF SyncKept, Forward
<1> QED
  BY <1>1, SyncInvariant, PTL DEF Spec, StatusForward
=============================================================================
