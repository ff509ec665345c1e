------------------------- MODULE BuildEntityProofs -------------------------
(* What the transactions of module BuildEntity preserve, for every timeout,  *)
(* set of announcements and bound: used by the proofs about leased builds    *)
(* and about builds on Swarming.                                             *)
EXTENDS BuildEntity, TLAPS

(* The tasks that export or finalize an ended build find the status that     *)
(* they were enqueued for.                                                   *)
QueueInv ==
    \A t \in queue : t[1] \in {"bq", "finalize"} =>
        build.exists /\ build.status = t[2] /\ IsEnded

(* None is neither a lease key nor a time nor a task.                        *)
LEMMA NoneIsNothing == None \notin LeaseKeys /\ None \notin Nat /\ None \notin TaskIds
BY BuildAssumption DEF LeaseKeys

(* What is announced is a pair of an announcement and the status.            *)
LEMMA AnnounceType ==
    ASSUME NEW s \in Statuses
    PROVE  /\ Announce(s) \subseteq Kinds \X Statuses
           /\ \A t \in Announce(s) : t[2] = s
           /\ \A t \in Announce(s) : t[1] \in {"bq", "finalize"} => s \in Ended
BY DEF Announce

(* A transaction that sets a status leaves a well-typed entity and queue.    *)
LEMMA PutTypeOK ==
    ASSUME NEW b \in Build, queue \subseteq Kinds \X Statuses, Put(b)
    PROVE  build' \in Build /\ queue' \subseteq Kinds \X Statuses
<1>1. b.status \in Statuses
  BY DEF Build
<1> QED
  BY <1>1, AnnounceType DEF Put

(* Clearing the lease or the steps of a build and setting its status.        *)
LEMMA FieldsTypeOK ==
    ASSUME NEW b \in Build
    PROVE  /\ Unleased(b) \in Build
           /\ CancelSteps(b) \in Build
           /\ \A s \in Statuses : [b EXCEPT !.status = s] \in Build
           /\ \A s \in Statuses : Unleased([b EXCEPT !.status = s]) \in Build
           /\ Unleased(b).status = b.status /\ CancelSteps(b).status = b.status
           /\ Unleased(b).task = b.task /\ CancelSteps(b).task = b.task
           /\ CancelSteps(b).key = b.key /\ CancelSteps(b).exp = b.exp
           /\ CancelSteps(b).exists = b.exists
           /\ Unleased(b).key = None /\ Unleased(b).exp = None
           /\ Unleased(b).exists = b.exists
BY DEF Build, Unleased, CancelSteps

(* A live build whose status is set has no end announced before.             *)
LEMMA PutQueueInv ==
    ASSUME QueueInv, NEW b \in Build, Put(b), b.exists,
           Live \/ (b.status = build.status /\ IsEnded)
    PROVE  QueueInv'
<1>1. b.status \in Statuses
  BY DEF Build
<1>2. \A t \in Announce(b.status) : t[1] \in {"bq", "finalize"} =>
          b.status \in Ended /\ t[2] = b.status
  BY <1>1, AnnounceType
<1>3. \A t \in queue : t[1] \in {"bq", "finalize"} => IsEnded /\ build.status = t[2]
  BY DEF QueueInv
<1>4. build' = b /\ queue' = queue \cup Announce(b.status)
  BY DEF Put
<1> QED
  BY <1>2, <1>3, <1>4 DEF QueueInv, Live, IsEnded

-----------------------------------------------------------------------------
(* The steps that all builds share leave the state well typed.               *)
LEMMA EntityStepTypeOK ==
    ASSUME EntityTypeOK, EntityStep
    PROVE  EntityTypeOK'
<1> USE DEF EntityTypeOK
<1>1. build \in Build /\ queue \subseteq Kinds \X Statuses
  OBVIOUS
<1>2. CASE CancelBuild
  <2>1. CancelSteps(Unleased([build EXCEPT !.status = "CANCELED"])) \in Build
    BY <1>1, FieldsTypeOK DEF Statuses, Ended
  <2>2. build' \in Build /\ queue' \subseteq Kinds \X Statuses
    BY <1>1, <1>2, <2>1, PutTypeOK DEF CancelBuild
  <2>3. ToCancel \subseteq TaskIds
    BY <1>1 DEF ToCancel, Build
  <2> QED
    BY <1>2, <2>2, <2>3 DEF CancelBuild
<1>3. CASE DeleteBuild
  <2>1. ToCancel \subseteq TaskIds /\ build' \in Build
    BY <1>1, <1>3 DEF ToCancel, Build, DeleteBuild
  <2> QED
    BY <1>3, <2>1 DEF DeleteBuild
<1>4. CASE ExpireBuild
  <2>1. Unleased([build EXCEPT !.status = "INFRA_FAILURE"]) \in Build
    BY <1>1, FieldsTypeOK DEF Statuses, Ended
  <2>2. build' \in Build /\ queue' \subseteq Kinds \X Statuses
    BY <1>1, <1>4, <2>1, PutTypeOK DEF ExpireBuild
  <2> QED
    BY <1>4, <2>2 DEF ExpireBuild
<1>5. ASSUME NEW t \in queue, DropTask(t) \/ ReadBuild(t)
      PROVE  EntityTypeOK'
  <2>1. t \in Kinds \X Statuses /\ build.status \in Statuses
    BY <1>1 DEF Build
  <2>2. [task |-> t, seen |-> build.status] \in Handler
    BY <2>1 DEF Handler
  <2> QED
    BY <1>5, <2>2 DEF DropTask, ReadBuild
<1>6. CASE SendTask
  <2>1. handler \in Handler
    BY <1>6 DEF SendTask
  <2>2. <<handler.task[1], handler.seen>> \in Kinds \X Statuses
    BY <2>1 DEF Handler
  <2> QED
    BY <1>6, <2>2 DEF SendTask
<1>7. CASE SendFails
  BY <1>7 DEF SendFails
<1>8. CASE Tick
  BY <1>8, BuildAssumption DEF Tick
<1> QED
  BY <1>2, <1>3, <1>4, <1>5, <1>6, <1>7, <1>8 DEF EntityStep, Announcing

(* The steps that all builds share keep the tasks true to the build.         *)
LEMMA EntityStepQueueInv ==
    ASSUME EntityTypeOK, QueueInv, EntityStep
    PROVE  QueueInv'
<1>1. build \in Build
  BY DEF EntityTypeOK
<1>2. CASE CancelBuild
  <2>1. /\ CancelSteps(Unleased([build EXCEPT !.status = "CANCELED"])) \in Build
        /\ CancelSteps(Unleased([build EXCEPT !.status = "CANCELED"])).exists
    <3>1. [build EXCEPT !.status = "CANCELED"] \in Build
          /\ [build EXCEPT !.status = "CANCELED"].exists
      BY <1>1, <1>2 DEF CancelBuild, Live, Build, Statuses, Ended
    <3> QED
      BY <3>1, FieldsTypeOK
  <2> QED
    BY <1>2, <2>1, PutQueueInv DEF CancelBuild
<1>3. CASE DeleteBuild
  BY <1>3 DEF DeleteBuild, QueueInv, Live
<1>4. CASE ExpireBuild
  <2>1. /\ Unleased([build EXCEPT !.status = "INFRA_FAILURE"]) \in Build
        /\ Unleased([build EXCEPT !.status = "INFRA_FAILURE"]).exists
    <3>1. [build EXCEPT !.status = "INFRA_FAILURE"] \in Build
          /\ [build EXCEPT !.status = "INFRA_FAILURE"].exists
      BY <1>1, <1>4 DEF ExpireBuild, Live, Build, Statuses, Ended
    <3> QED
      BY <3>1, FieldsTypeOK
  <2> QED
    BY <1>4, <2>1, PutQueueInv DEF ExpireBuild
<1>5. CASE Announcing \/ Tick
  <2>1. queue' \subseteq queue /\ build' = build
    BY <1>5 DEF Announcing, DropTask, ReadBuild, SendTask, SendFails, Tick
  <2> QED
    BY <2>1 DEF QueueInv, IsEnded
<1> QED
  BY <1>2, <1>3, <1>4, <1>5 DEF EntityStep
=============================================================================
