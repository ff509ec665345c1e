---------------------------- MODULE TaskNumbers ----------------------------
(* The numbers under which the instances of an App Engine application send   *)
(* their metrics (appengine_module/gae_ts_mon).  Each instance has an entity *)
(* in the datastore; a cron gives numbers to entities that have none and     *)
(* deletes those that were not updated for long; an instance reads its       *)
(* number at every flush.  No transaction spans two entities, and the query  *)
(* of the cron is eventually consistent.                                     *)
(*                                                                           *)
(* Two things are assumed of time.  The cron starts a minute after its last  *)
(* run has ended, and by then a flush that was in progress when it ended is  *)
(* over.  Its query sees what was committed until its last run ended and     *)
(* what those flushes have committed; of later changes it may see none, any  *)
(* or all.                                                                   *)
EXTENDS Integers, FiniteSets

CONSTANTS
    Instances,
    Expire,     \* INSTANCE_EXPIRE_SEC
    MaxTime,    \* bound on the clock
    None

Numbers == 0 .. Cardinality(Instances) - 1
Unassigned == -1
TaskNums == Numbers \cup {Unassigned}
Instance == [num : TaskNums, updated : 0 .. MaxTime]

ASSUME TaskNumbersAssumption ==
    /\ IsFiniteSet(Instances)
    /\ Expire \in Nat /\ MaxTime \in Nat
    /\ None \notin Instance

VARIABLES
    now,
    entity,     \* Instance entities
    settled,    \* what the query of the cron sees at least
    alive,      \* instances that serve requests
    target,     \* state.target.task_num of each instance
    flush,      \* the flush in progress at each instance
    cron,       \* the run of the cron: the entities to put and to delete
    base        \* history: the number under which the cumulative metrics of
                \* an instance were sent since they were reset

vars == <<now, entity, settled, alive, target, flush, cron, base>>

\* todo: the put of the entity and the metrics are on their way.  old: the
\* flush was in progress when the last run of the cron ended.
NoFlush == [todo |-> {}, num |-> Unassigned, updated |-> 0, old |-> FALSE]
Flushing(i) == flush[i].todo # {}
NoRun == [pc |-> "idle", puts |-> {}, deletes |-> {}]

Init ==
    /\ now = 0
    /\ entity = [i \in Instances |-> None] /\ settled = entity
    /\ alive = Instances
    /\ target = [i \in Instances |-> Unassigned]
    /\ flush = [i \in Instances |-> NoFlush]
    /\ cron = NoRun
    /\ base = target

Write(i, e) == entity' = [entity EXCEPT ![i] = e]

-----------------------------------------------------------------------------
(* exporter.py: _flush_metrics.                                              *)

\* get_instance_entity: a transaction on the entity.
Got(i) == IF entity[i] = None THEN [num |-> Unassigned, updated |-> now] ELSE entity[i]

FlushUnassignedKeeps(i) ==
    /\ i \in alive /\ ~Flushing(i)
    /\ Got(i).num = Unassigned
    /\ Write(i, Got(i))
    /\ target' = [target EXCEPT ![i] = Unassigned]
    /\ UNCHANGED <<now, settled, alive, flush, cron, base>>

\* An instance without a number forgets what it has counted under another one.
FlushUnassigned(i) ==
    /\ i \in alive /\ ~Flushing(i)
    /\ Got(i).num = Unassigned
    /\ Write(i, Got(i))
    /\ base' = IF target[i] = Unassigned THEN base ELSE [base EXCEPT ![i] = Unassigned]
    /\ target' = [target EXCEPT ![i] = Unassigned]
    /\ UNCHANGED <<now, settled, alive, flush, cron>>

\* With a number it updates the entity and sends the metrics meanwhile.
FlushStart(i) ==
    /\ i \in alive /\ ~Flushing(i)
    /\ Got(i).num # Unassigned
    /\ target' = [target EXCEPT ![i] = Got(i).num]
    /\ flush' = [flush EXCEPT ![i] = [todo |-> {"put", "send"}, num |-> Got(i).num,
                                      updated |-> now, old |-> FALSE]]
    /\ UNCHANGED <<now, entity, settled, alive, cron, base>>

Did(i, what) ==
    LET left == flush[i].todo \ {what} IN
    flush' = [flush EXCEPT ![i] = IF left = {} THEN NoFlush ELSE [@ EXCEPT !.todo = left]]

FlushPut(i) ==
    LET e == [num |-> flush[i].num, updated |-> flush[i].updated] IN
    /\ "put" \in flush[i].todo
    /\ Write(i, e)
    /\ settled' = IF flush[i].old THEN [settled EXCEPT ![i] = e] ELSE settled
    /\ Did(i, "put")
    /\ UNCHANGED <<now, alive, target, cron, base>>

FlushSend(i) ==
    /\ "send" \in flush[i].todo
    /\ base' = [base EXCEPT ![i] = flush[i].num]
    /\ Did(i, "send")
    /\ UNCHANGED <<now, entity, settled, alive, target, cron>>

\* A call fails and the flush with it, or the instance is gone.
FlushFails(i) ==
    /\ Flushing(i)
    /\ flush' = [flush EXCEPT ![i] = NoFlush]
    /\ UNCHANGED <<now, entity, settled, alive, target, cron, base>>

-----------------------------------------------------------------------------
(* __init__.py: _shutdown_hook, which flushes (a step of its own) and then   *)
(* deletes the entity.  A flush of another thread may be in progress.  An    *)
(* instance may also disappear without it.                                   *)

Shutdown(i) ==
    /\ i \in alive
    /\ alive' = alive \ {i}
    /\ Write(i, None)
    /\ UNCHANGED <<now, settled, target, flush, cron, base>>

Vanish(i) ==
    /\ i \in alive
    /\ alive' = alive \ {i}
    /\ UNCHANGED <<now, entity, settled, target, flush, cron, base>>

-----------------------------------------------------------------------------
(* handlers.py: _assign_task_num.                                            *)

IsExpiredOrDue(e) == e.updated <= now - Expire
IsExpired(e) == e.updated < now - Expire

UsedByOthers(view) ==
    {view[i].num : i \in {i \in Instances : view[i] # None /\ ~IsExpired(view[i])}} \ {Unassigned}

\* Numbers of expired entities are not given to others in the same run.
Used(view) == {view[i].num : i \in {i \in Instances : view[i] # None}} \ {Unassigned}

Expired(view) == {i \in Instances : view[i] # None /\ IsExpired(view[i])}
Waiting(view) == {i \in Instances : view[i] # None /\ view[i].num = Unassigned} \ Expired(view)

NumbersAbove(used, n) ==
    LET above == {k \in 0 .. 2 * Cardinality(Instances) : \A u \in used : u < k}
    IN  {k \in above : Cardinality({m \in above : m <= k}) <= n}

\* find_gaps: the n least numbers that are not used.
Gaps(used, n) ==
    {k \in Numbers \ used : Cardinality({m \in 0 .. k : m \notin used}) <= n}

\* The result of the query decides all that follows.
CronQuery ==
    /\ cron.pc = "idle"
    /\ \A i \in Instances : ~flush[i].old
    /\ \E view \in {v \in [Instances -> Instance \cup {None}] :
                        \A i \in Instances : v[i] \in {entity[i], settled[i]}} :
       \E num \in [Waiting(view) -> Gaps(Used(view), Cardinality(Waiting(view)))] :
          /\ \A i, k \in Waiting(view) : num[i] = num[k] => i = k
          /\ cron' = [pc |-> "running",
                      puts |-> {<<i, [view[i] EXCEPT !.num = num[i]]>> : i \in Waiting(view)},
                      deletes |-> Expired(view)]
    /\ UNCHANGED <<now, entity, settled, alive, target, flush, base>>

CronPut(i) == \E p \in cron.puts :
    /\ p[1] = i
    /\ Write(i, p[2])
    /\ cron' = [cron EXCEPT !.puts = @ \ {p}]
    /\ UNCHANGED <<now, settled, alive, target, flush, base>>

CronDelete(i) ==
    /\ i \in cron.deletes
    /\ Write(i, None)
    /\ cron' = [cron EXCEPT !.deletes = @ \ {i}]
    /\ UNCHANGED <<now, settled, alive, target, flush, base>>

\* The run ends when all calls are done, or fails before.
CronEnd ==
    /\ cron.pc = "running"
    /\ cron' = NoRun
    /\ settled' = entity
    /\ flush' = [i \in Instances |-> [flush[i] EXCEPT !.old = Flushing(i)]]
    /\ UNCHANGED <<now, entity, alive, target, base>>

Tick ==
    /\ now < MaxTime
    /\ now' = now + 1
    /\ UNCHANGED <<entity, settled, alive, target, flush, cron, base>>

-----------------------------------------------------------------------------
FlushStep(i) ==
    FlushUnassigned(i) \/ FlushStart(i) \/ FlushPut(i) \/ FlushSend(i) \/ FlushFails(i)

Next ==
    \/ \E i \in Instances : FlushStep(i) \/ Shutdown(i) \/ Vanish(i) \/ CronPut(i) \/ CronDelete(i)
    \/ CronQuery \/ CronEnd
    \/ Tick

Spec == Init /\ [][Next]_vars

(* An instance flushes every minute while it has requests, a flush ends, and *)
(* the cron runs every minute.  Calls fail, but not for ever.                *)
Fairness ==
    /\ WF_vars(CronQuery) /\ WF_vars(CronEnd)
    /\ \A i \in Instances :
        /\ WF_vars(FlushUnassigned(i) \/ FlushStart(i))
        /\ WF_vars(FlushPut(i) \/ FlushSend(i) \/ FlushFails(i))
        /\ SF_vars(CronPut(i)) /\ SF_vars(CronDelete(i))

FairSpec == Spec /\ Fairness

-----------------------------------------------------------------------------
TypeOK ==
    /\ now \in 0 .. MaxTime
    /\ entity \in [Instances -> Instance \cup {None}]
    /\ settled \in [Instances -> Instance \cup {None}]
    /\ alive \subseteq Instances
    /\ target \in [Instances -> TaskNums]
    /\ flush \in [Instances -> [todo : SUBSET {"put", "send"}, num : TaskNums,
                                updated : 0 .. MaxTime, old : BOOLEAN]]
    /\ cron \in [pc : {"idle", "running"}, puts : SUBSET (Instances \X Instance),
                 deletes : SUBSET Instances]
    /\ base \in [Instances -> TaskNums]

(* "Don't reassign expired task_num right away to avoid races": no two       *)
(* instances send metrics under one number at a time, or have it in their    *)
(* entities, although an instance that the cron takes for dead may be in the *)
(* middle of a flush that brings its entity back.                            *)
Claims(i) ==
    (IF entity[i] = None THEN {} ELSE {entity[i].num})
        \cup (IF Flushing(i) THEN {flush[i].num} ELSE {})

NumbersUnique ==
    \A i, k \in alive : i # k => Claims(i) \cap Claims(k) \subseteq {Unassigned}

(* Cumulative metrics are never sent under one number with what was counted  *)
(* and sent under another: an instance whose entity was deleted notices it   *)
(* and resets them before it gets a new number.                              *)
NumberChangeResets ==
    \A i \in Instances : "send" \in flush[i].todo => base[i] \in {Unassigned, flush[i].num}

(* An instance that keeps serving requests has a number again and again.     *)
InstancesGetNumbers ==
    \A i \in Instances : i \in alive ~> (i \notin alive \/ target[i] # Unassigned)
=============================================================================
