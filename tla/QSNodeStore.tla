---------------------------- MODULE QSNodeStore ----------------------------
(* The store of one pool of the quota scheduler (qscheduler/service,         *)
(* nodestore.go).  A stateRecord entity names the stateNode entities with    *)
(* the current state and counts its generations; a NodeStore per process     *)
(* caches the last state it committed.  Run modifies a state from the cache  *)
(* or the datastore, writes it to new nodes, and points the record to them   *)
(* in a transaction if the generation has not moved.                         *)
(*                                                                           *)
(* A state has two parts, the scheduler's and the reconciler's, each the set *)
(* of operators whose changes it contains.  The scheduler part is copied     *)
(* when an operator gets it; the reconciler part is one object in memory,    *)
(* shared by the cache and every operator that works on it.                  *)
EXTENDS Integers, FiniteSets

CONSTANTS
    Stores,       \* processes, each with its NodeStore of the pool
    Batchers,     \* batch runners: their operators change both parts
    Admins,       \* administrative calls: theirs change the scheduler part
    Cleaners,     \* cleanup goroutines
    Deleters,     \* administrative calls that may delete the pool
    StoreOf,      \* the process of a caller
    None,         \* no entity, no value
    MaxCalls,     \* bound on the number of operations
    MaxAttempts,  \* attempts of Run on the slow path
    Keep          \* generations that Clean leaves alone

Callers == Batchers \cup Admins \cup Cleaners

ASSUME StoreAssumption ==
    /\ Batchers \cap Admins = {}
    /\ (Batchers \cup Admins) \cap Cleaners = {}
    /\ Deleters \subseteq Admins
    /\ StoreOf \in [Callers -> Stores]
    /\ MaxCalls \in Nat
    /\ MaxAttempts \in Nat \ {0}
    /\ Keep \in Nat

VARIABLES
    record,   \* the stateRecord of the pool
    nodes,    \* the stateNodes with one state, by what wrote them
    cache,    \* NodeStore.cache of each process
    heap,     \* reconciler objects in memory, by the load that made them
    call,     \* the operation each caller is in
    count,    \* how many operations have been started
    acked     \* operators whose Run has returned nil

vars == <<record, nodes, cache, heap, call, count, acked>>

Ops == 1 .. MaxCalls
Ids == Ops \X (0 .. MaxAttempts)

(* The generation is an int64; here it is bounded by the calls there can be. *)
Gens    == Nat

NodeType   == [gen : Gens, sched : SUBSET Ops, recon : SUBSET Ops]
RecordType == [gen : Gens, node : Ids]
CacheType  == [gen : Gens, sched : SUBSET Ops, ref : Ids]

(* No entity and no value is one of those that there are.                    *)
ASSUME NoneAssumption ==
    /\ None \notin NodeType /\ None \notin RecordType /\ None \notin CacheType
    /\ None \notin Ops /\ None \notin Ids
    /\ \A S \in SUBSET Ops : S # None

CallType ==
    [pc : {"idle", "load", "load-nodes", "modify", "marshal", "put", "txn",
           "set-cached", "lost", "create-put", "create-txn", "delete-record",
           "delete-query", "delete-nodes"},
     op : Ops \cup {None}, try : 0 .. MaxAttempts, gen : Gens,
     sched : SUBSET Ops, recon : SUBSET Ops, ref : Ids \cup {None},
     node : Ids \cup {None}, keys : SUBSET Ids]

TypeOK ==
    /\ record \in RecordType \cup {None}
    /\ nodes \in [Ids -> NodeType \cup {None}]
    /\ cache \in [Stores -> CacheType \cup {None}]
    /\ heap \in [Ids -> SUBSET Ops]
    /\ call \in [Callers -> CallType]
    /\ count \in 0 .. MaxCalls
    /\ acked \subseteq Ops

Idle == [pc |-> "idle", op |-> None, try |-> 0, gen |-> 0, sched |-> {},
         recon |-> {}, ref |-> None, node |-> None, keys |-> {}]

Init ==
    /\ record = None
    /\ nodes = [i \in Ids |-> None]
    /\ cache = [s \in Stores |-> None]
    /\ heap = [i \in Ids |-> {}]
    /\ call = [c \in Callers |-> Idle]
    /\ count = 0 /\ acked = {}

-----------------------------------------------------------------------------
At(c, pc) == call[c].pc = pc

(* The operation in progress goes on with some of its fields changed, or     *)
(* returns.                                                                  *)
Goto(c, r) == call' = [call EXCEPT ![c] = r]
Return(c)  == Goto(c, Idle)

(* The nodes that a call writes at one attempt, and the reconciler object    *)
(* that it unmarshals then.                                                  *)
IdOf(c) == <<call[c].op, call[c].try>>

(* The state of the pool: what a load finds now.                             *)
Value == IF record = None THEN None
         ELSE IF nodes[record.node] = None THEN None
         ELSE nodes[record.node].sched

(* A caller begins a new operation.                                          *)
Begin(c) ==
    /\ At(c, "idle")
    /\ count < MaxCalls
    /\ count' = count + 1

-----------------------------------------------------------------------------
(* Run.                                                                      *)

(* The fast path starts from the cached state, the slow one loads it.        *)
Run(c) ==
    /\ Begin(c)
    /\ LET sg == cache[StoreOf[c]] IN
       IF sg # None
       THEN Goto(c, [Idle EXCEPT !.pc = "modify", !.op = count + 1,
                                 !.gen = sg.gen, !.sched = sg.sched,
                                 !.ref = sg.ref])
       ELSE Goto(c, [Idle EXCEPT !.pc = "load", !.op = count + 1, !.try = 1])
    /\ UNCHANGED <<record, nodes, cache, heap, acked>>

(* loadState reads the record ...                                            *)
LoadRecord(c) ==
    /\ At(c, "load")
    /\ record # None
    /\ Goto(c, [call[c] EXCEPT !.pc = "load-nodes", !.gen = record.gen,
                               !.node = record.node])
    /\ UNCHANGED <<record, nodes, cache, heap, count, acked>>

(* ... and then the nodes it names, which make a new object in memory.       *)
LoadNodes(c) ==
    /\ At(c, "load-nodes")
    /\ c \notin Cleaners
    /\ nodes[call[c].node] # None
    /\ heap' = [heap EXCEPT ![IdOf(c)] = nodes[call[c].node].recon]
    /\ Goto(c, [call[c] EXCEPT !.pc = "modify", !.ref = IdOf(c),
                               !.sched = nodes[call[c].node].sched])
    /\ UNCHANGED <<record, nodes, cache, count, acked>>

(* The operator changes the scheduler it got, and the shared reconciler.     *)
Modify(c) ==
    /\ At(c, "modify")
    /\ heap' = IF c \in Batchers
               THEN [heap EXCEPT ![call[c].ref] = @ \cup {call[c].op}]
               ELSE heap
    /\ Goto(c, [call[c] EXCEPT !.pc = "marshal",
                               !.sched = @ \cup {call[c].op}])
    /\ UNCHANGED <<record, nodes, cache, count, acked>>

Marshal(c) ==
    /\ At(c, "marshal")
    /\ Goto(c, [call[c] EXCEPT !.pc = "put", !.recon = heap[call[c].ref]])
    /\ UNCHANGED <<record, nodes, cache, heap, count, acked>>

(* Variant: the state is cached before it is committed.                      *)
PutAndCache(c) ==
    /\ At(c, "put")
    /\ nodes' = [nodes EXCEPT ![IdOf(c)] =
                    [gen |-> call[c].gen + 1, sched |-> call[c].sched,
                     recon |-> call[c].recon]]
    /\ cache' = [cache EXCEPT ![StoreOf[c]] =
                    [gen |-> call[c].gen + 1, sched |-> call[c].sched,
                     ref |-> call[c].ref]]
    /\ Goto(c, [call[c] EXCEPT !.pc = "txn", !.node = IdOf(c)])
    /\ UNCHANGED <<record, heap, count, acked>>

(* writeNodes, outside of the transaction.                                   *)
Put(c) ==
    /\ At(c, "put")
    /\ nodes' = [nodes EXCEPT ![IdOf(c)] =
                    [gen |-> call[c].gen + 1, sched |-> call[c].sched,
                     recon |-> call[c].recon]]
    /\ Goto(c, [call[c] EXCEPT !.pc = "txn", !.node = IdOf(c)])
    /\ UNCHANGED <<record, cache, heap, count, acked>>

(* Variant: the generation is not compared.                                  *)
SameRecord(c) == record # None

SameGeneration(c) == record # None /\ record.gen = call[c].gen

(* The transaction.  Its answer may be lost, by a deadline of the call.      *)
Commit(c) ==
    /\ At(c, "txn")
    /\ SameGeneration(c)
    /\ record' = [gen |-> call[c].gen + 1, node |-> call[c].node]
    /\ \E pc \in {"set-cached", "lost"} : Goto(c, [call[c] EXCEPT !.pc = pc])
    /\ UNCHANGED <<nodes, cache, heap, count, acked>>

(* Variant: one attempt too many.                                            *)
WrongGenerationAgain(c) ==
    /\ At(c, "txn")
    /\ record # None /\ ~SameGeneration(c)
    /\ IF call[c].try <= MaxAttempts
       THEN Goto(c, [Idle EXCEPT !.pc = "load", !.op = call[c].op,
                                 !.try = call[c].try + 1])
       ELSE Return(c)
    /\ UNCHANGED <<record, nodes, cache, heap, count, acked>>

(* errWrongGeneration: load and try again, a bounded number of times.        *)
WrongGeneration(c) ==
    /\ At(c, "txn")
    /\ record # None /\ ~SameGeneration(c)
    /\ IF call[c].try < MaxAttempts
       THEN Goto(c, [Idle EXCEPT !.pc = "load", !.op = call[c].op,
                                 !.try = call[c].try + 1])
       ELSE Return(c)
    /\ UNCHANGED <<record, nodes, cache, heap, count, acked>>

Newer(sg, old) == old = None \/ sg.gen > old.gen

(* setCached, unless the cache is newer already, and Run returns nil.        *)
SetCached(c) ==
    /\ At(c, "set-cached")
    /\ LET s  == StoreOf[c]
           sg == [gen |-> call[c].gen + 1, sched |-> call[c].sched,
                  ref |-> call[c].ref]
       IN cache' = IF Newer(sg, cache[s]) THEN [cache EXCEPT ![s] = sg]
                                          ELSE cache
    /\ acked' = acked \cup {call[c].op}
    /\ Return(c)
    /\ UNCHANGED <<record, nodes, heap, count>>

(* A datastore call fails or finds nothing, or the operator refuses: the     *)
(* operation returns an error.                                               *)
Fail(c) ==
    /\ call[c].pc \notin {"idle", "set-cached"}
    /\ Return(c)
    /\ UNCHANGED <<record, nodes, cache, heap, count, acked>>

-----------------------------------------------------------------------------
(* Create: the nodes of an empty state, then the record, unless there is one.*)
Create(c) ==
    /\ c \in Admins
    /\ Begin(c)
    /\ record = None
    /\ Goto(c, [Idle EXCEPT !.pc = "create-put", !.op = count + 1])
    /\ UNCHANGED <<record, nodes, cache, heap, acked>>

CreatePut(c) ==
    /\ At(c, "create-put")
    /\ nodes' = [nodes EXCEPT ![IdOf(c)] =
                    [gen |-> 0, sched |-> {}, recon |-> {}]]
    /\ Goto(c, [call[c] EXCEPT !.pc = "create-txn", !.node = IdOf(c)])
    /\ UNCHANGED <<record, cache, heap, count, acked>>

CreateRecord(c) ==
    /\ At(c, "create-txn")
    /\ record = None
    /\ record' = [gen |-> 0, node |-> call[c].node]
    /\ Return(c)
    /\ UNCHANGED <<nodes, cache, heap, count, acked>>

-----------------------------------------------------------------------------
(* Variant: the nodes are deleted before the record.                         *)
DeleteNodesFirst(c) ==
    /\ c \in Deleters
    /\ Begin(c)
    /\ Goto(c, [Idle EXCEPT !.pc = "delete-query", !.op = count + 1])
    /\ UNCHANGED <<record, nodes, cache, heap, acked>>

(* Delete: the record, if there is one, then all nodes of the pool.          *)
Delete(c) ==
    /\ c \in Deleters
    /\ Begin(c)
    /\ Goto(c, [Idle EXCEPT
                   !.pc = IF record = None THEN "delete-query"
                                           ELSE "delete-record",
                   !.op = count + 1])
    /\ UNCHANGED <<record, nodes, cache, heap, acked>>

DeleteRecord(c) ==
    /\ At(c, "delete-record")
    /\ record' = None
    /\ Goto(c, [call[c] EXCEPT !.pc = "delete-query"])
    /\ UNCHANGED <<nodes, cache, heap, count, acked>>

DeleteQuery(c) ==
    /\ At(c, "delete-query")
    /\ c \notin Cleaners
    /\ Goto(c, [call[c] EXCEPT !.pc = "delete-nodes",
                               !.keys = {i \in Ids : nodes[i] # None}])
    /\ UNCHANGED <<record, nodes, cache, heap, count, acked>>

(* Delete and Clean end with a multi-delete, which is not atomic.            *)
DeleteNode(c) ==
    /\ At(c, "delete-nodes")
    /\ \E i \in call[c].keys :
          /\ nodes' = [nodes EXCEPT ![i] = None]
          /\ Goto(c, [call[c] EXCEPT !.keys = @ \ {i}])
    /\ UNCHANGED <<record, cache, heap, count, acked>>

NodesDeleted(c) ==
    /\ At(c, "delete-nodes")
    /\ call[c].keys = {}
    /\ Return(c)
    /\ UNCHANGED <<record, nodes, cache, heap, count, acked>>

-----------------------------------------------------------------------------
(* Clean: load the state, then delete the nodes of old generations.          *)
Clean(c) ==
    /\ c \in Cleaners
    /\ At(c, "idle")
    /\ Goto(c, [Idle EXCEPT !.pc = "load"])
    /\ UNCHANGED <<record, nodes, cache, heap, count, acked>>

CleanLoaded(c) ==
    /\ At(c, "load-nodes")
    /\ c \in Cleaners
    /\ nodes[call[c].node] # None
    /\ Goto(c, [Idle EXCEPT !.pc = "delete-query", !.gen = call[c].gen])
    /\ UNCHANGED <<record, nodes, cache, heap, count, acked>>

(* Variant: also the oldest generation to keep.                              *)
StaleOrOldest(gen, now) == gen <= now - Keep

Stale(gen, now) == gen < now - Keep

CleanQuery(c) ==
    /\ At(c, "delete-query")
    /\ c \in Cleaners
    /\ LET old == {i \in Ids : nodes[i] # None
                               /\ Stale(nodes[i].gen, call[c].gen)}
       IN Goto(c, [call[c] EXCEPT !.pc = "delete-nodes", !.keys = old])
    /\ UNCHANGED <<record, nodes, cache, heap, count, acked>>

-----------------------------------------------------------------------------
(* A process stops and is started again: its cache and its calls are gone.   *)
Crash(s) ==
    /\ cache' = [cache EXCEPT ![s] = None]
    /\ call' = [c \in Callers |-> IF StoreOf[c] = s THEN Idle ELSE call[c]]
    /\ UNCHANGED <<record, nodes, heap, count, acked>>

RunStep(c) ==
    \/ Run(c)
    \/ Modify(c) \/ Marshal(c) \/ Put(c)
    \/ Commit(c) \/ WrongGeneration(c) \/ SetCached(c)

PoolStep(c) ==
    \/ Create(c) \/ CreatePut(c) \/ CreateRecord(c)
    \/ Delete(c) \/ DeleteRecord(c) \/ DeleteQuery(c)

CleanStep(c) == Clean(c) \/ CleanLoaded(c) \/ CleanQuery(c)

Step(c) ==
    \/ LoadRecord(c) \/ LoadNodes(c)
    \/ DeleteNode(c) \/ NodesDeleted(c)
    \/ Fail(c)

Next ==
    \/ \E c \in Batchers \cup Admins : RunStep(c) \/ PoolStep(c)
    \/ \E c \in Cleaners : CleanStep(c)
    \/ \E c \in Callers : Step(c)
    \/ \E s \in Stores : Crash(s)

Spec == Init /\ [][Next]_vars

-----------------------------------------------------------------------------
(* Every operator is applied to the state that the operator before it left,  *)
(* at most once, and an operator whose Run returned nil has been: Run is a   *)
(* compare-and-swap, whatever the processes have cached, whichever of them   *)
(* crash and whatever a cleanup deletes meanwhile.                           *)
Atomic == INSTANCE QSAtomicState WITH state <- Value, acked <- acked

RunIsAtomic == Atomic!Spec

(* "Don't delete ones more recent than that, to avoid killing concurrent     *)
(* loadState calls from old generations" (nodestore.go): a load that has     *)
(* read the record finds the nodes, unless more than Keep generations have   *)
(* been committed since.                                                     *)
LoadSurvivesClean ==
    \A c \in Callers :
        (At(c, "load-nodes") /\ record # None
                             /\ record.gen <= call[c].gen + Keep)
            => nodes[call[c].node] # None

(* The fast path may rely on the cache: one of the current generation has    *)
(* the current state, and none is ahead of the record.                       *)
CacheCoherent ==
    \A s \in Stores :
        cache[s] # None
            => /\ record # None
               /\ cache[s].gen <= record.gen
               /\ cache[s].gen = record.gen => cache[s].sched = Value

(* The record never names nodes that are gone, so that a pool that exists    *)
(* can be loaded: with a Delete that fails or crashes half way too, if no    *)
(* other call overlaps it.  ("All methods are concurrency-safe" says more.)  *)
RecordHasNodes ==
    record # None => nodes[record.node] # None

-----------------------------------------------------------------------------
(* What comments in the code claim and the code does not do.                 *)

(* "tryRun attempts to modify and commit the given state": what the stored   *)
(* reconciler contains comes from operators that have been committed.        *)
ReconcilerCommitted ==
    Value # None => nodes[record.node].recon \subseteq Value
=============================================================================
