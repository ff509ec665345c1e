-------------------------- MODULE QSNodeStoreProofs --------------------------
(* Proofs about the node store, for every number of processes, callers,      *)
(* calls and attempts: type correctness, and, when no call deletes the pool, *)
(* the refinement of QSAtomicState, the coherence of the caches and the      *)
(* safety of the cleanup; for one caller who may delete it, that the record  *)
(* has its nodes.                                                            *)
EXTENDS QSNodeStore, TLAPS

(* The nodes that are still to be written, by an operation that has not      *)
(* begun or by one in progress.                                              *)
BeforePut == {"load", "load-nodes", "modify", "marshal", "put", "create-put"}

Unwritten(i) ==
    \/ count < i[1]
    \/ \E c \in Callers :
          /\ call[c].op = i[1]
          /\ \/ call[c].try < i[2]
             \/ call[c].try = i[2] /\ call[c].pc \in BeforePut

(* The operators applied to the state, none if there is no state.            *)
Applied == IF record = None THEN {} ELSE nodes[record.node].sched

(* What the fields of an operation are at each step of it.                   *)
ShapeOf(c, r) ==
    /\ c \in Cleaners =>
          r.pc \in {"idle", "load", "load-nodes", "delete-query", "delete-nodes"}
    /\ (c \notin Cleaners /\ r.pc # "idle") => r.op \in Ops
    /\ r.pc \in {"modify", "marshal", "put", "txn", "set-cached"} => r.ref \in Ids
    /\ r.pc \in {"load-nodes", "txn", "create-txn"} => r.node \in Ids

Shape(c) == ShapeOf(c, call[c])

Begun(c) ==
    /\ call[c].op # None => call[c].op <= count
    /\ call[c].pc \notin {"set-cached", "lost"} => call[c].op \notin Applied
    /\ \A d \in Callers :
          (c # d /\ call[c].op # None) => call[c].op # call[d].op

(* A load has the record of some time, and finds the nodes if it is recent.  *)
Loading(c) ==
    /\ record # None
    /\ call[c].gen <= record.gen
    /\ ~Unwritten(call[c].node)
    /\ call[c].gen = record.gen => call[c].node = record.node
    /\ nodes[call[c].node] # None => nodes[call[c].node].gen = call[c].gen
    /\ record.gen <= call[c].gen + Keep => nodes[call[c].node] # None

(* An operator works on the state of some time, and, if that is the current  *)
(* one, on what the state is.                                                *)
Working(c) ==
    /\ record # None
    /\ call[c].gen <= record.gen
    /\ call[c].gen = record.gen
          => call[c].sched = IF At(c, "modify") THEN Applied
                             ELSE Applied \cup {call[c].op}

(* The nodes to be committed are there as long as they can be committed.     *)
Committing(c) ==
    /\ ~Unwritten(call[c].node)
    /\ record.gen = call[c].gen
          => /\ nodes[call[c].node] # None
             /\ nodes[call[c].node].gen = call[c].gen + 1
             /\ nodes[call[c].node].sched = call[c].sched

Creating(c) ==
    /\ ~Unwritten(call[c].node)
    /\ record = None
          => /\ nodes[call[c].node] # None
             /\ nodes[call[c].node].gen = 0
             /\ nodes[call[c].node].sched = {}

Committed(c) ==
    /\ record # None
    /\ call[c].gen + 1 <= record.gen
    /\ call[c].op \in Applied
    /\ call[c].gen + 1 = record.gen => call[c].sched = Applied

(* A cleanup deletes nodes that were old when it started.                    *)
Cleaning(c) ==
    /\ c \in Cleaners
    /\ record # None
    /\ call[c].gen <= record.gen
    /\ At(c, "delete-nodes") =>
          \A i \in call[c].keys :
             /\ ~Unwritten(i)
             /\ nodes[i] # None => nodes[i].gen < call[c].gen - Keep

CallInv(c) ==
    /\ At(c, "load-nodes") => Loading(c)
    /\ call[c].pc \in {"modify", "marshal", "put", "txn"} => Working(c)
    /\ At(c, "txn") => Committing(c)
    /\ At(c, "create-txn") => Creating(c)
    /\ At(c, "set-cached") => Committed(c)
    /\ call[c].pc \in {"delete-query", "delete-nodes"} => Cleaning(c)
    /\ call[c].pc # "delete-record"

CacheInv ==
    \A s \in Stores :
        cache[s] # None
            => /\ record # None
               /\ cache[s].gen <= record.gen
               /\ cache[s].gen = record.gen => cache[s].sched = Applied

StoreInv ==
    /\ record # None => /\ nodes[record.node] # None
                        /\ nodes[record.node].gen = record.gen
    /\ \A i \in Ids : Unwritten(i) => nodes[i] = None
    /\ \A o \in Applied : o <= count
    /\ acked \subseteq Applied
    /\ CacheInv
    /\ \A c \in Callers : Begun(c) /\ CallInv(c)

-----------------------------------------------------------------------------
(* Type correctness.                                                         *)
TypeInv == TypeOK /\ \A c \in Callers : Shape(c)

LEMMA GotoCall ==
    ASSUME TypeOK, NEW c \in Callers, NEW r, Goto(c, r)
    PROVE  /\ call'[c] = r
           /\ \A d \in Callers : d # c => call'[d] = call[d]
           /\ r \in CallType => call' \in [Callers -> CallType]
  BY DEF TypeOK, Goto

LEMMA IdleType == Idle \in CallType
  BY StoreAssumption DEF Idle, CallType, Gens

LEMMA LoadType ==
    ASSUME NEW op \in Ops \cup {None}, NEW try \in 0 .. MaxAttempts
    PROVE  [Idle EXCEPT !.pc = "load", !.op = op, !.try = try] \in CallType
  BY IdleType DEF CallType

(* A step of one operation that leaves the operation with type and shape, and *)
(* everything else with its type.                                            *)
LEMMA CallTypeInv ==
    ASSUME TypeInv, NEW c \in Callers, NEW r \in CallType, Goto(c, r),
           ShapeOf(c, r),
           record' \in RecordType \cup {None},
           nodes' \in [Ids -> NodeType \cup {None}],
           cache' \in [Stores -> CacheType \cup {None}],
           heap' \in [Ids -> SUBSET Ops],
           count' \in 0 .. MaxCalls, acked' \subseteq Ops
    PROVE  TypeInv'
<1>1. /\ call'[c] = r
      /\ \A d \in Callers : d # c => call'[d] = call[d]
      /\ call' \in [Callers -> CallType]
  BY GotoCall DEF TypeInv
<1>2. ASSUME NEW d \in Callers PROVE Shape(d)'
  <2>1. ShapeOf(d, call'[d])
    BY <1>1 DEF TypeInv, Shape
  <2> QED
    BY <2>1 DEF Shape, ShapeOf
<1> QED
  BY <1>1, <1>2 DEF TypeInv, TypeOK

LEMMA RunTypeInv ==
    ASSUME TypeInv, NEW c \in Batchers \cup Admins, RunStep(c)
    PROVE  TypeInv'
<1> USE DEF TypeInv
<1>1. /\ c \in Callers /\ c \notin Cleaners
      /\ call[c] \in CallType
      /\ StoreOf[c] \in Stores
      /\ Shape(c)
  BY StoreAssumption DEF TypeOK, Callers
<1>2. MaxCalls \in Nat /\ MaxAttempts \in Nat \ {0} /\ count \in 0 .. MaxCalls
  BY StoreAssumption DEF TypeOK
<1>3. CASE Run(c)
  <2>1. count < MaxCalls /\ count' = count + 1 /\ count + 1 \in Ops
    BY <1>2, <1>3 DEF Run, Begin, Ops
  <2>2. CASE cache[StoreOf[c]] # None
    <3> DEFINE sg == cache[StoreOf[c]]
               r == [Idle EXCEPT !.pc = "modify", !.op = count + 1,
                                 !.gen = sg.gen, !.sched = sg.sched,
                                 !.ref = sg.ref]
    <3>1. sg \in CacheType
      BY <1>1, <2>2 DEF TypeOK
    <3>2. sg.gen \in Gens /\ sg.sched \in SUBSET Ops /\ sg.ref \in Ids
      BY <3>1 DEF CacheType
    <3>3. r \in CallType
      BY <2>1, <3>2, IdleType DEF CallType
    <3>4. Goto(c, r)
      BY <1>3, <2>2 DEF Run
    <3>5. ShapeOf(c, r)
      BY <1>1, <2>1, <3>2 DEF ShapeOf, Idle
    <3> QED
      BY <1>1, <1>2, <1>3, <2>1, <3>3, <3>4, <3>5, CallTypeInv DEF Run, TypeOK
  <2>3. CASE cache[StoreOf[c]] = None
    <3> DEFINE r == [Idle EXCEPT !.pc = "load", !.op = count + 1, !.try = 1]
    <3>1. r \in CallType
      <4>1. 1 \in 0 .. MaxAttempts
        BY <1>2
      <4> QED
        BY <2>1, <4>1, LoadType
    <3>2. Goto(c, r)
      BY <1>3, <2>3 DEF Run
    <3>3. ShapeOf(c, r)
      BY <1>1, <2>1 DEF ShapeOf, Idle
    <3> QED
      BY <1>1, <1>2, <1>3, <2>1, <3>1, <3>2, <3>3, CallTypeInv DEF Run, TypeOK
  <2> QED
    BY <2>2, <2>3
<1>4. CASE Modify(c)
  <2> DEFINE r == [call[c] EXCEPT !.pc = "marshal",
                                  !.sched = @ \cup {call[c].op}]
  <2>1. call[c].op \in Ops /\ call[c].ref \in Ids
    BY <1>1, <1>4 DEF Modify, At, Shape, ShapeOf
  <2>2. r \in CallType
    BY <1>1, <2>1 DEF CallType
  <2>3. Goto(c, r)
    BY <1>4 DEF Modify
  <2>4. ShapeOf(c, r)
    BY <1>1, <2>1 DEF ShapeOf, CallType
  <2>5. heap' \in [Ids -> SUBSET Ops]
    BY <1>4, <2>1 DEF Modify, TypeOK
  <2> QED
    BY <1>1, <1>4, <2>2, <2>3, <2>4, <2>5, CallTypeInv DEF Modify, TypeOK
<1>5. CASE Marshal(c)
  <2> DEFINE r == [call[c] EXCEPT !.pc = "put", !.recon = heap[call[c].ref]]
  <2>1. call[c].op \in Ops /\ call[c].ref \in Ids
    BY <1>1, <1>5 DEF Marshal, At, Shape, ShapeOf
  <2>2. heap[call[c].ref] \in SUBSET Ops
    BY <2>1 DEF TypeOK
  <2>3. r \in CallType
    BY <1>1, <2>2 DEF CallType
  <2>4. Goto(c, r)
    BY <1>5 DEF Marshal
  <2>5. ShapeOf(c, r)
    BY <1>1, <2>1 DEF ShapeOf, CallType
  <2> QED
    BY <1>1, <1>5, <2>3, <2>4, <2>5, CallTypeInv DEF Marshal, TypeOK
<1>6. CASE Put(c)
  <2> DEFINE r == [call[c] EXCEPT !.pc = "txn", !.node = IdOf(c)]
             n == [gen |-> call[c].gen + 1, sched |-> call[c].sched,
                   recon |-> call[c].recon]
  <2>1. call[c].op \in Ops /\ call[c].ref \in Ids
    BY <1>1, <1>6 DEF Put, At, Shape, ShapeOf
  <2>2. IdOf(c) \in Ids
    BY <1>1, <2>1 DEF IdOf, Ids, CallType
  <2>3. n \in NodeType
    BY <1>1 DEF CallType, NodeType, Gens
  <2>4. r \in CallType
    BY <1>1, <2>2 DEF CallType
  <2>5. Goto(c, r)
    BY <1>6 DEF Put
  <2>6. ShapeOf(c, r)
    BY <1>1, <2>1, <2>2 DEF ShapeOf, CallType
  <2>7. nodes' \in [Ids -> NodeType \cup {None}]
    BY <1>6, <2>3 DEF Put, TypeOK
  <2> QED
    BY <1>1, <1>6, <2>4, <2>5, <2>6, <2>7, CallTypeInv DEF Put, TypeOK
<1>7. CASE Commit(c)
  <2>1. call[c].op \in Ops /\ call[c].ref \in Ids /\ call[c].node \in Ids
    BY <1>1, <1>7 DEF Commit, At, Shape, ShapeOf
  <2>2. PICK pc \in {"set-cached", "lost"} : Goto(c, [call[c] EXCEPT !.pc = pc])
    BY <1>7 DEF Commit
  <2>3. [call[c] EXCEPT !.pc = pc] \in CallType
    BY <1>1, <2>2 DEF CallType
  <2>4. ShapeOf(c, [call[c] EXCEPT !.pc = pc])
    BY <1>1, <2>1, <2>2 DEF ShapeOf, CallType
  <2>5. record' \in RecordType
    BY <1>1, <1>7, <2>1 DEF Commit, RecordType, CallType, Gens
  <2> QED
    BY <1>1, <1>7, <2>2, <2>3, <2>4, <2>5, CallTypeInv DEF Commit, TypeOK
<1>8. CASE WrongGeneration(c)
  <2>1. call[c].op \in Ops
    BY <1>1, <1>8 DEF WrongGeneration, At, Shape, ShapeOf
  <2>2. CASE call[c].try < MaxAttempts
    <3> DEFINE r == [Idle EXCEPT !.pc = "load", !.op = call[c].op,
                                 !.try = call[c].try + 1]
    <3>1. call[c].try + 1 \in 0 .. MaxAttempts
      BY <1>1, <1>2, <2>2 DEF CallType
    <3>2. r \in CallType
      BY <2>1, <3>1, LoadType
    <3>3. Goto(c, r)
      BY <1>8, <2>2 DEF WrongGeneration
    <3>4. ShapeOf(c, r)
      BY <1>1, <2>1 DEF ShapeOf, Idle
    <3> QED
      BY <1>1, <1>8, <3>2, <3>3, <3>4, CallTypeInv DEF WrongGeneration, TypeOK
  <2>3. CASE ~ call[c].try < MaxAttempts
    <3>1. Goto(c, Idle)
      BY <1>8, <2>3 DEF WrongGeneration, Return
    <3>2. ShapeOf(c, Idle)
      BY <1>1 DEF ShapeOf, Idle
    <3> QED
      BY <1>1, <1>8, <3>1, <3>2, IdleType, CallTypeInv
         DEF WrongGeneration, TypeOK
  <2> QED
    BY <2>2, <2>3
<1>9. CASE SetCached(c)
  <2> DEFINE s == StoreOf[c]
             sg == [gen |-> call[c].gen + 1, sched |-> call[c].sched,
                    ref |-> call[c].ref]
  <2>1. call[c].op \in Ops /\ call[c].ref \in Ids
    BY <1>1, <1>9 DEF SetCached, At, Shape, ShapeOf
  <2>2. sg \in CacheType
    BY <1>1, <2>1 DEF CacheType, CallType, Gens
  <2>3. cache' \in [Stores -> CacheType \cup {None}]
    BY <1>1, <1>9, <2>2 DEF SetCached, TypeOK
  <2>4. acked' \subseteq Ops
    BY <1>9, <2>1 DEF SetCached, TypeOK
  <2>5. Goto(c, Idle)
    BY <1>9 DEF SetCached, Return
  <2>6. ShapeOf(c, Idle)
    BY <1>1 DEF ShapeOf, Idle
  <2> QED
    BY <1>1, <1>9, <2>3, <2>4, <2>5, <2>6, IdleType, CallTypeInv
       DEF SetCached, TypeOK
<1> QED
  BY <1>3, <1>4, <1>5, <1>6, <1>7, <1>8, <1>9 DEF RunStep

LEMMA ValueType ==
    ASSUME TypeOK
    PROVE  Value \in (SUBSET Ops) \cup {None}
<1>1. CASE record = None
  BY <1>1 DEF Value
<1>2. CASE record # None
  <2>1. record.node \in Ids
    BY <1>2 DEF TypeOK, RecordType
  <2> QED
    BY <1>2, <2>1 DEF Value, TypeOK, NodeType
<1> QED
  BY <1>1, <1>2

LEMMA PoolTypeInv ==
    ASSUME TypeInv, NEW c \in Batchers \cup Admins, PoolStep(c)
    PROVE  TypeInv'
<1> USE DEF TypeInv
<1>1. /\ c \in Callers /\ c \notin Cleaners
      /\ call[c] \in CallType
      /\ Shape(c)
  BY StoreAssumption DEF TypeOK, Callers
<1>2. MaxCalls \in Nat /\ MaxAttempts \in Nat \ {0} /\ count \in 0 .. MaxCalls
  BY StoreAssumption DEF TypeOK
<1>3. CASE Create(c)
  <2> DEFINE r == [Idle EXCEPT !.pc = "create-put", !.op = count + 1]
  <2>1. count < MaxCalls /\ count' = count + 1 /\ count + 1 \in Ops
    BY <1>2, <1>3 DEF Create, Begin, Ops
  <2>2. r \in CallType
    BY <2>1, IdleType DEF CallType
  <2>3. Goto(c, r)
    BY <1>3 DEF Create
  <2>4. ShapeOf(c, r)
    BY <1>1, <2>1 DEF ShapeOf, Idle
  <2> QED
    BY <1>1, <1>2, <1>3, <2>1, <2>2, <2>3, <2>4, CallTypeInv DEF Create, TypeOK
<1>4. CASE CreatePut(c)
  <2> DEFINE r == [call[c] EXCEPT !.pc = "create-txn", !.node = IdOf(c)]
             n == [gen |-> 0, sched |-> {}, recon |-> {}]
  <2>1. call[c].op \in Ops
    BY <1>1, <1>4 DEF CreatePut, At, Shape, ShapeOf
  <2>2. IdOf(c) \in Ids
    BY <1>1, <2>1 DEF IdOf, Ids, CallType
  <2>3. n \in NodeType
    BY DEF NodeType, Gens
  <2>4. r \in CallType
    BY <1>1, <2>2 DEF CallType
  <2>5. Goto(c, r)
    BY <1>4 DEF CreatePut
  <2>6. ShapeOf(c, r)
    BY <1>1, <2>1, <2>2 DEF ShapeOf, CallType
  <2>7. nodes' \in [Ids -> NodeType \cup {None}]
    BY <1>4, <2>3 DEF CreatePut, TypeOK
  <2> QED
    BY <1>1, <1>4, <2>4, <2>5, <2>6, <2>7, CallTypeInv DEF CreatePut, TypeOK
<1>5. CASE CreateRecord(c)
  <2>1. call[c].node \in Ids
    BY <1>1, <1>5 DEF CreateRecord, At, Shape, ShapeOf
  <2>2. record' \in RecordType
    BY <1>5, <2>1 DEF CreateRecord, RecordType, Gens
  <2>3. Goto(c, Idle)
    BY <1>5 DEF CreateRecord, Return
  <2>4. ShapeOf(c, Idle)
    BY <1>1 DEF ShapeOf, Idle
  <2> QED
    BY <1>1, <1>5, <2>2, <2>3, <2>4, IdleType, CallTypeInv
       DEF CreateRecord, TypeOK
<1>6. CASE Delete(c)
  <2> DEFINE pc == IF record = None THEN "delete-query" ELSE "delete-record"
             r  == [Idle EXCEPT !.pc = pc, !.op = count + 1]
  <2>1. count < MaxCalls /\ count' = count + 1 /\ count + 1 \in Ops
    BY <1>2, <1>6 DEF Delete, Begin, Ops
  <2>2. r \in CallType
    BY <2>1, IdleType DEF CallType
  <2>3. Goto(c, r)
    BY <1>6 DEF Delete
  <2>4. ShapeOf(c, r)
    BY <1>1, <2>1 DEF ShapeOf, Idle
  <2> QED
    BY <1>1, <1>2, <1>6, <2>1, <2>2, <2>3, <2>4, CallTypeInv DEF Delete, TypeOK
<1>7. CASE DeleteRecord(c)
  <2> DEFINE r == [call[c] EXCEPT !.pc = "delete-query"]
  <2>1. call[c].op \in Ops
    BY <1>1, <1>7 DEF DeleteRecord, At, Shape, ShapeOf
  <2>2. r \in CallType
    BY <1>1 DEF CallType
  <2>3. Goto(c, r)
    BY <1>7 DEF DeleteRecord
  <2>4. ShapeOf(c, r)
    BY <1>1, <2>1 DEF ShapeOf, CallType
  <2> QED
    BY <1>1, <1>7, <2>2, <2>3, <2>4, CallTypeInv DEF DeleteRecord, TypeOK
<1>8. CASE DeleteQuery(c)
  <2> DEFINE keys == {i \in Ids : nodes[i] # None}
             r    == [call[c] EXCEPT !.pc = "delete-nodes", !.keys = keys]
  <2>1. call[c].op \in Ops
    BY <1>1, <1>8 DEF DeleteQuery, At, Shape, ShapeOf
  <2>2. r \in CallType
    BY <1>1 DEF CallType
  <2>3. Goto(c, r)
    BY <1>8 DEF DeleteQuery
  <2>4. ShapeOf(c, r)
    BY <1>1, <2>1 DEF ShapeOf, CallType
  <2> QED
    BY <1>1, <1>8, <2>2, <2>3, <2>4, CallTypeInv DEF DeleteQuery, TypeOK
<1> QED
  BY <1>3, <1>4, <1>5, <1>6, <1>7, <1>8 DEF PoolStep

LEMMA CleanTypeInv ==
    ASSUME TypeInv, NEW c \in Cleaners, CleanStep(c)
    PROVE  TypeInv'
<1> USE DEF TypeInv
<1>1. c \in Callers /\ call[c] \in CallType /\ Shape(c)
  BY DEF TypeOK, Callers
<1>2. CASE Clean(c)
  <2> DEFINE r == [Idle EXCEPT !.pc = "load"]
  <2>1. r \in CallType
    BY IdleType DEF CallType
  <2>2. Goto(c, r)
    BY <1>2 DEF Clean
  <2>3. ShapeOf(c, r)
    BY DEF ShapeOf, Idle
  <2> QED
    BY <1>1, <1>2, <2>1, <2>2, <2>3, CallTypeInv DEF Clean, TypeOK
<1>3. CASE CleanLoaded(c)
  <2> DEFINE r == [Idle EXCEPT !.pc = "delete-query", !.gen = call[c].gen]
  <2>1. r \in CallType
    BY <1>1, IdleType DEF CallType
  <2>2. Goto(c, r)
    BY <1>3 DEF CleanLoaded
  <2>3. ShapeOf(c, r)
    BY DEF ShapeOf, Idle
  <2> QED
    BY <1>1, <1>3, <2>1, <2>2, <2>3, CallTypeInv DEF CleanLoaded, TypeOK
<1>4. CASE CleanQuery(c)
  <2> DEFINE keys == {i \in Ids : nodes[i] # None
                                  /\ Stale(nodes[i].gen, call[c].gen)}
             r    == [call[c] EXCEPT !.pc = "delete-nodes", !.keys = keys]
  <2>1. r \in CallType
    BY <1>1 DEF CallType
  <2>2. Goto(c, r)
    BY <1>4 DEF CleanQuery
  <2>3. ShapeOf(c, r)
    BY <1>1 DEF ShapeOf, CallType
  <2> QED
    BY <1>1, <1>4, <2>1, <2>2, <2>3, CallTypeInv DEF CleanQuery, TypeOK
<1> QED
  BY <1>2, <1>3, <1>4 DEF CleanStep

LEMMA StepTypeInv ==
    ASSUME TypeInv, NEW c \in Callers, Step(c)
    PROVE  TypeInv'
<1> USE DEF TypeInv
<1>1. call[c] \in CallType /\ Shape(c)
  BY DEF TypeOK
<1>2. CASE LoadRecord(c)
  <2> DEFINE r == [call[c] EXCEPT !.pc = "load-nodes", !.gen = record.gen,
                                  !.node = record.node]
  <2>1. record.gen \in Gens /\ record.node \in Ids
    BY <1>2 DEF LoadRecord, TypeOK, RecordType
  <2>2. r \in CallType
    BY <1>1, <2>1 DEF CallType
  <2>3. Goto(c, r)
    BY <1>2 DEF LoadRecord
  <2>4. ShapeOf(c, r)
    BY <1>1, <1>2, <2>1 DEF LoadRecord, At, Shape, ShapeOf, CallType
  <2> QED
    BY <1>2, <2>2, <2>3, <2>4, CallTypeInv DEF LoadRecord, TypeOK
<1>3. CASE LoadNodes(c)
  <2> DEFINE n == nodes[call[c].node]
             r == [call[c] EXCEPT !.pc = "modify", !.ref = IdOf(c),
                                  !.sched = n.sched]
  <2>1. call[c].op \in Ops /\ call[c].node \in Ids /\ c \notin Cleaners
    BY <1>1, <1>3 DEF LoadNodes, At, Shape, ShapeOf
  <2>2. n.sched \in SUBSET Ops /\ n.recon \in SUBSET Ops
    BY <1>3, <2>1 DEF LoadNodes, TypeOK, NodeType
  <2>3. IdOf(c) \in Ids
    BY <1>1, <2>1 DEF IdOf, Ids, CallType
  <2>4. r \in CallType
    BY <1>1, <2>2, <2>3 DEF CallType
  <2>5. Goto(c, r)
    BY <1>3 DEF LoadNodes
  <2>6. ShapeOf(c, r)
    BY <1>1, <2>1, <2>3 DEF ShapeOf, CallType
  <2>7. heap' \in [Ids -> SUBSET Ops]
    BY <1>3, <2>2 DEF LoadNodes, TypeOK
  <2> QED
    BY <1>3, <2>4, <2>5, <2>6, <2>7, CallTypeInv DEF LoadNodes, TypeOK
<1>4. CASE DeleteNode(c)
  <2>1. PICK i \in call[c].keys :
           /\ nodes' = [nodes EXCEPT ![i] = None]
           /\ Goto(c, [call[c] EXCEPT !.keys = @ \ {i}])
    BY <1>4 DEF DeleteNode
  <2> DEFINE r == [call[c] EXCEPT !.keys = @ \ {i}]
  <2>2. r \in CallType
    BY <1>1 DEF CallType
  <2>3. ShapeOf(c, r)
    BY <1>1 DEF Shape, ShapeOf, CallType
  <2>4. nodes' \in [Ids -> NodeType \cup {None}]
    BY <2>1 DEF TypeOK
  <2> QED
    BY <1>4, <2>1, <2>2, <2>3, <2>4, CallTypeInv DEF DeleteNode, TypeOK
<1>5. CASE NodesDeleted(c) \/ Fail(c)
  <2>1. Goto(c, Idle)
    BY <1>5 DEF NodesDeleted, Fail, Return
  <2>2. ShapeOf(c, Idle)
    BY DEF ShapeOf, Idle
  <2> QED
    BY <1>5, <2>1, <2>2, IdleType, CallTypeInv DEF NodesDeleted, Fail, TypeOK
<1> QED
  BY <1>2, <1>3, <1>4, <1>5 DEF Step

LEMMA CrashTypeInv ==
    ASSUME TypeInv, NEW s \in Stores, Crash(s)
    PROVE  TypeInv'
<1>1. ASSUME NEW c \in Callers PROVE Shape(c)'
  <2>1. call'[c] = Idle \/ call'[c] = call[c]
    BY <1>1 DEF Crash
  <2>2. ShapeOf(c, Idle)
    BY DEF ShapeOf, Idle
  <2>3. ShapeOf(c, call'[c])
    BY <1>1, <2>1, <2>2 DEF TypeInv, Shape
  <2> QED
    BY <2>3 DEF Shape, ShapeOf
<1>2. TypeOK'
  BY IdleType DEF TypeInv, TypeOK, Crash
<1> QED
  BY <1>1, <1>2 DEF TypeInv

LEMMA InitTypeInv == Init => TypeInv
<1> SUFFICES ASSUME Init PROVE TypeInv
  OBVIOUS
<1>1. TypeOK
  BY StoreAssumption, IdleType DEF Init, TypeOK
<1>2. ASSUME NEW c \in Callers PROVE Shape(c)
  BY <1>2 DEF Init, Shape, ShapeOf, Idle
<1> QED
  BY <1>1, <1>2 DEF TypeInv

LEMMA NextTypeInv ==
    ASSUME TypeInv, [Next]_vars
    PROVE  TypeInv'
<1>1. CASE Next
  BY <1>1, RunTypeInv, PoolTypeInv, CleanTypeInv, StepTypeInv, CrashTypeInv
     DEF Next
<1>2. CASE UNCHANGED vars
  BY <1>2 DEF vars, TypeInv, TypeOK, Shape, ShapeOf
<1> QED
  BY <1>1, <1>2

(* Every value is of its type, and every step finds the fields it reads: of  *)
(* the record, of the nodes and of what a call has loaded.                   *)
THEOREM StoreTypeOK == Spec => []TypeOK
<1>1. Spec => []TypeInv
  BY InitTypeInv, NextTypeInv, PTL DEF Spec
<1>2. TypeInv => TypeOK
  BY DEF TypeInv
<1> QED
  BY <1>1, <1>2, PTL

-----------------------------------------------------------------------------
(* What a step does, as the other operations see it.                         *)

(* An operation goes on, ends, or is a new one.                              *)
Goes(c) ==
    \/ call'[c].op = None
    \/ /\ call'[c].op = call[c].op
       /\ \/ call[c].try < call'[c].try
          \/ /\ call'[c].try = call[c].try
             /\ call'[c].pc \in BeforePut => call[c].pc \in BeforePut
       /\ call[c].pc \in {"set-cached", "lost"}
             => call'[c].pc \in {"set-cached", "lost"}
    \/ /\ call'[c].op = count + 1
       /\ count' = count + 1
       /\ \A d \in Callers : d # c => call'[d] = call[d]

RecordGrows ==
    record # None
        => /\ record' # None
           /\ record.gen <= record'.gen
           /\ record'.gen = record.gen => record' = record

(* Written nodes stay as they are, or are deleted when they are old.         *)
NodesKept ==
    \A i \in Ids :
        ~Unwritten(i)
            => \/ nodes'[i] = nodes[i]
               \/ /\ nodes'[i] = None
                  /\ record # None
                  /\ nodes[i] # None => nodes[i].gen < record.gen - Keep

(* As long as the record stays, so does the state.                           *)
StateKept == record' = record => Applied' = Applied

LEMMA Values ==
    ASSUME TypeInv
    PROVE  /\ record # None => record.gen \in Nat /\ record.node \in Ids
           /\ \A i \in Ids :
                 nodes[i] # None
                    => nodes[i].gen \in Nat /\ nodes[i].sched \subseteq Ops
           /\ \A c \in Callers :
                 /\ call[c].gen \in Nat /\ call[c].try \in Nat
                 /\ call[c].op \in Ops \cup {None}
                 /\ call[c].sched \subseteq Ops /\ call[c].keys \subseteq Ids
           /\ \A s \in Stores :
                 cache[s] # None
                    => cache[s].gen \in Nat /\ cache[s].sched \subseteq Ops
           /\ count \in Nat /\ Keep \in Nat
           /\ Ops \subseteq Nat /\ None \notin Ops
           /\ \A i \in Ids : i[1] \in Ops /\ i[2] \in Nat
           /\ MaxCalls \in Nat /\ MaxAttempts \in Nat
<1> USE DEF TypeInv, TypeOK
<1>1. record # None => record.gen \in Nat /\ record.node \in Ids
  BY DEF RecordType, Gens
<1>2. \A i \in Ids :
         nodes[i] # None => nodes[i].gen \in Nat /\ nodes[i].sched \subseteq Ops
  BY DEF NodeType, Gens
<1>3. MaxCalls \in Nat /\ MaxAttempts \in Nat /\ Keep \in Nat
  BY StoreAssumption
<1>4. ASSUME NEW c \in Callers
      PROVE  /\ call[c].gen \in Nat /\ call[c].try \in Nat
             /\ call[c].op \in Ops \cup {None}
             /\ call[c].sched \subseteq Ops /\ call[c].keys \subseteq Ids
  <2>1. call[c] \in CallType
    BY <1>4
  <2> QED
    BY <1>3, <2>1 DEF CallType, Gens
<1>5. \A s \in Stores :
         cache[s] # None => cache[s].gen \in Nat /\ cache[s].sched \subseteq Ops
  BY DEF CacheType, Gens
<1>6. count \in Nat /\ Ops \subseteq Nat /\ None \notin Ops
  BY <1>3, NoneAssumption DEF Ops
<1>7. \A i \in Ids : i[1] \in Ops /\ i[2] \in Nat
  BY <1>3 DEF Ids
<1> QED
  BY <1>1, <1>2, <1>3, <1>4, <1>5, <1>6, <1>7

LEMMA AppliedType ==
    ASSUME TypeInv, StoreInv
    PROVE  Applied \subseteq Ops
  BY Values DEF Applied, StoreInv

LEMMA RecordWritten ==
    ASSUME TypeInv, StoreInv, record # None
    PROVE  /\ record.node \in Ids /\ nodes[record.node] # None
           /\ nodes[record.node].gen = record.gen
           /\ ~Unwritten(record.node)
           /\ Applied = nodes[record.node].sched
  BY Values DEF StoreInv, Applied

(* Nodes never become unwritten again.                                       *)
LEMMA UnwrittenShrinks ==
    ASSUME TypeInv, TypeInv', count <= count',
           \A c \in Callers : Goes(c),
           NEW i \in Ids, Unwritten(i)'
    PROVE  Unwritten(i)
<1>1. i[1] \in Ops /\ i[1] \in Nat /\ i[1] # None /\ i[2] \in Nat
  BY Values
<1>2. count \in Nat /\ count' \in Nat
  BY Values DEF TypeInv, TypeOK
<1>3. CASE count' < i[1]
  BY <1>1, <1>2, <1>3 DEF Unwritten
<1>4. CASE ~ count' < i[1]
  <2>1. PICK c \in Callers :
           /\ call'[c].op = i[1]
           /\ \/ call'[c].try < i[2]
              \/ call'[c].try = i[2] /\ call'[c].pc \in BeforePut
    BY <1>4 DEF Unwritten, BeforePut
  <2>2. call[c].try \in Nat
    BY Values
  <2>3. call'[c] \in CallType
    BY DEF TypeInv, TypeOK
  <2>4. call'[c].try \in Nat
    BY <2>3, Values DEF CallType
  <2>5. Goes(c)
    OBVIOUS
  <2>6. CASE call'[c].op = call[c].op
                /\ \/ call[c].try < call'[c].try
                   \/ /\ call'[c].try = call[c].try
                      /\ call'[c].pc \in BeforePut => call[c].pc \in BeforePut
    <3>1. call[c].try < i[2] \/ (call[c].try = i[2] /\ call[c].pc \in BeforePut)
      BY <1>1, <2>1, <2>2, <2>4, <2>6
    <3> QED
      BY <2>1, <2>6, <3>1 DEF Unwritten
  <2>7. CASE call'[c].op = count + 1
    BY <1>1, <1>2, <2>1, <2>7 DEF Unwritten
  <2> QED
    BY <1>1, <2>1, <2>5, <2>6, <2>7 DEF Goes
<1> QED
  BY <1>3, <1>4

(* Operators stay different, and none is applied before its commit.          *)
LEMMA BegunInv ==
    ASSUME TypeInv, TypeInv', StoreInv, count <= count',
           \A c \in Callers : Goes(c),
           \A o \in Applied' : o \in Applied
               \/ \A c \in Callers : call'[c].op = o
                     => call'[c].pc \in {"set-cached", "lost"},
           Applied' \subseteq Ops
    PROVE  \A c \in Callers : Begun(c)'
<1> SUFFICES ASSUME NEW c \in Callers
             PROVE  Begun(c)'
  OBVIOUS
<1>1. count \in Nat /\ count' \in Nat /\ Ops \subseteq Nat /\ None \notin Ops
  BY Values DEF TypeInv, TypeOK
<1>2. \A d \in Callers : call[d].op \in Ops \cup {None}
  BY Values
<1>3. Goes(c) /\ Begun(c)
  BY DEF StoreInv
<1>4. \A d \in Callers : call'[d].op \in Ops \cup {None}
  <2> SUFFICES ASSUME NEW d \in Callers PROVE call'[d].op \in Ops \cup {None}
    OBVIOUS
  <2>1. call'[d] \in CallType
    BY DEF TypeInv, TypeOK
  <2> QED
    BY <2>1 DEF CallType
<1>5. call'[c].op # None => call'[c].op <= count'
  <2>1. call[c].op # None => call[c].op <= count
    BY <1>3 DEF Begun
  <2>2. \/ call'[c].op = None \/ call'[c].op = call[c].op
        \/ call'[c].op = count + 1 /\ count' = count + 1
    BY <1>3 DEF Goes
  <2>3. call[c].op # None => call[c].op \in Nat
    BY <1>1, <1>2
  <2> QED
    BY <1>1, <2>1, <2>2, <2>3
<1>6. call'[c].pc \notin {"set-cached", "lost"} => call'[c].op \notin Applied'
  <2> SUFFICES ASSUME call'[c].pc \notin {"set-cached", "lost"},
                      call'[c].op \in Applied'
               PROVE  FALSE
    OBVIOUS
  <2>1. call'[c].op \in Applied /\ call'[c].op # None
    BY <1>1
  <2>2. CASE /\ call'[c].op = call[c].op
             /\ call[c].pc \notin {"set-cached", "lost"}
    BY <1>3, <2>1, <2>2 DEF Begun
  <2>3. CASE call'[c].op = count + 1
    BY <1>1, <2>1, <2>3 DEF StoreInv
  <2> QED
    BY <1>3, <2>1, <2>2, <2>3 DEF Goes
<1>7. ASSUME NEW d \in Callers, c # d, call'[c].op # None
      PROVE  call'[c].op # call'[d].op
  <2>1. Goes(d) /\ Begun(d)
    BY DEF StoreInv
  <2>2. /\ call[c].op # None => call[c].op # call[d].op /\ call[c].op <= count
        /\ call[d].op # None => call[d].op <= count
    BY <1>3, <1>7, <2>1 DEF Begun
  <2>3. CASE call'[d].op = None
    BY <1>7, <2>3
  <2>4. CASE call'[d].op = call[d].op /\ call'[d].op # None
    BY <1>1, <1>2, <1>3, <1>7, <2>2, <2>4 DEF Goes
  <2>5. CASE call'[d].op = count + 1 /\ call'[c] = call[c]
    BY <1>1, <1>2, <1>7, <2>2, <2>5
  <2> QED
    BY <1>7, <2>1, <2>3, <2>4, <2>5 DEF Goes
<1> QED
  BY <1>5, <1>6, <1>7 DEF Begun

LEMMA AppliedKept ==
    ASSUME TypeInv, StoreInv, NodesKept, record' = record
    PROVE  /\ Applied' = Applied
           /\ record # None => nodes'[record.node] = nodes[record.node]
<1>1. CASE record = None
  BY <1>1 DEF Applied
<1>2. CASE record # None
  <2>1. nodes'[record.node] = nodes[record.node]
    BY <1>2, RecordWritten, Values DEF NodesKept
  <2> QED
    BY <1>2, <2>1 DEF Applied
<1> QED
  BY <1>1, <1>2

(* What holds of an operation goes on to hold when others take a step.       *)
LEMMA OtherCalls ==
    ASSUME TypeInv, TypeInv', StoreInv, RecordGrows, NodesKept,
           \A i \in Ids : Unwritten(i)' => Unwritten(i),
           Applied \subseteq Applied',
           NEW c \in Callers, call'[c] = call[c]
    PROVE  CallInv(c)'
<1> USE DEF At
<1>1. CallInv(c) /\ Shape(c)
  BY DEF StoreInv, TypeInv
<1>2. /\ call[c].gen \in Nat /\ Keep \in Nat /\ call[c].keys \subseteq Ids
      /\ record # None => record.gen \in Nat
      /\ \A i \in Ids : nodes[i] # None => nodes[i].gen \in Nat
  BY Values
<1>3. /\ record' # None => record'.gen \in Nat
      /\ \A i \in Ids : nodes'[i] # None => nodes'[i].gen \in Nat
  BY DEF TypeInv, TypeOK, RecordType, NodeType, Gens
<1>4. record' = record => Applied' = Applied
  BY AppliedKept
<1>5. \A i \in Ids : ~Unwritten(i) => ~Unwritten(i)'
  OBVIOUS
<1>6. ASSUME call[c].pc = "load-nodes"
      PROVE  Loading(c)'
  <2>1. Loading(c) /\ call[c].node \in Ids
    BY <1>1, <1>6 DEF CallInv, Shape, ShapeOf
  <2>2. record # None /\ record' # None /\ record.gen <= record'.gen
    BY <2>1 DEF Loading, RecordGrows
  <2>3. ~Unwritten(call[c].node)'
    BY <1>5, <2>1 DEF Loading
  <2>4. call[c].gen = record'.gen => call[c].node = record'.node
    BY <1>2, <1>3, <2>1, <2>2 DEF Loading, RecordGrows
  <2>5. \/ nodes'[call[c].node] = nodes[call[c].node]
        \/ /\ nodes'[call[c].node] = None
           /\ nodes[call[c].node] # None
                 => nodes[call[c].node].gen < record.gen - Keep
    BY <2>1 DEF Loading, NodesKept
  <2>6. record'.gen <= call[c].gen + Keep => nodes'[call[c].node] # None
    BY <1>2, <1>3, <2>1, <2>2, <2>5 DEF Loading
  <2>7. nodes'[call[c].node] # None => nodes'[call[c].node].gen = call[c].gen
    BY <2>1, <2>5 DEF Loading
  <2>8. call[c].gen <= record'.gen
    BY <1>2, <1>3, <2>1, <2>2 DEF Loading
  <2> QED
    BY <2>2, <2>3, <2>4, <2>6, <2>7, <2>8 DEF Loading
<1>7. ASSUME call[c].pc \in {"modify", "marshal", "put", "txn"}
      PROVE  Working(c)'
  <2>1. Working(c)
    BY <1>1, <1>7 DEF CallInv
  <2>2. record # None /\ record' # None /\ record.gen <= record'.gen
    BY <2>1 DEF Working, RecordGrows
  <2>3. call[c].gen = record'.gen => record' = record /\ call[c].gen = record.gen
    BY <1>2, <1>3, <2>1, <2>2 DEF Working, RecordGrows
  <2>4. call[c].gen <= record'.gen
    BY <1>2, <1>3, <2>1, <2>2 DEF Working
  <2> QED
    BY <1>4, <2>1, <2>2, <2>3, <2>4 DEF Working
<1>8. ASSUME call[c].pc = "txn"
      PROVE  Committing(c)'
  <2>1. Committing(c) /\ Working(c) /\ call[c].node \in Ids
    BY <1>1, <1>8 DEF CallInv, Shape, ShapeOf
  <2>2. ~Unwritten(call[c].node)'
    BY <1>5, <2>1 DEF Committing
  <2>3. ASSUME record'.gen = call[c].gen
        PROVE  nodes'[call[c].node] = nodes[call[c].node]
               /\ record.gen = call[c].gen
    <3>1. record.gen = call[c].gen
      BY <1>2, <1>3, <2>1, <2>3 DEF Working, RecordGrows
    <3>2. /\ nodes[call[c].node] # None
          /\ nodes[call[c].node].gen = call[c].gen + 1
      BY <2>1, <3>1 DEF Committing
    <3>3. ~ nodes[call[c].node].gen < record.gen - Keep
      BY <1>2, <3>1, <3>2
    <3> QED
      BY <2>1, <3>1, <3>2, <3>3 DEF Committing, NodesKept
  <2> QED
    BY <2>1, <2>2, <2>3 DEF Committing
<1>9. ASSUME call[c].pc = "create-txn"
      PROVE  Creating(c)'
  <2>1. Creating(c) /\ call[c].node \in Ids
    BY <1>1, <1>9 DEF CallInv, Shape, ShapeOf
  <2>2. ~Unwritten(call[c].node)'
    BY <1>5, <2>1 DEF Creating
  <2>3. record' = None =>
           record = None /\ nodes'[call[c].node] = nodes[call[c].node]
    BY <2>1 DEF Creating, RecordGrows, NodesKept
  <2> QED
    BY <2>1, <2>2, <2>3 DEF Creating
<1>10. ASSUME call[c].pc = "set-cached"
       PROVE  Committed(c)'
  <2>1. Committed(c)
    BY <1>1, <1>10 DEF CallInv
  <2>2. record # None /\ record' # None /\ record.gen <= record'.gen
    BY <2>1 DEF Committed, RecordGrows
  <2>3. call[c].gen + 1 = record'.gen
           => record' = record /\ call[c].gen + 1 = record.gen
    BY <1>2, <1>3, <2>1, <2>2 DEF Committed, RecordGrows
  <2>4. call[c].gen + 1 <= record'.gen
    BY <1>2, <1>3, <2>1, <2>2 DEF Committed
  <2> QED
    BY <1>4, <2>1, <2>2, <2>3, <2>4 DEF Committed
<1>11. ASSUME call[c].pc \in {"delete-query", "delete-nodes"}
       PROVE  Cleaning(c)'
  <2>1. Cleaning(c)
    BY <1>1, <1>11 DEF CallInv
  <2>2. record # None /\ record' # None /\ record.gen <= record'.gen
    BY <2>1 DEF Cleaning, RecordGrows
  <2>3. call[c].gen <= record'.gen
    BY <1>2, <1>3, <2>1, <2>2 DEF Cleaning
  <2>4. ASSUME call[c].pc = "delete-nodes", NEW i \in call[c].keys
        PROVE  /\ ~Unwritten(i)'
               /\ nodes'[i] # None => nodes'[i].gen < call[c].gen - Keep
    BY <1>2, <1>5, <2>1, <2>4 DEF Cleaning, NodesKept
  <2> QED
    BY <2>1, <2>2, <2>3, <2>4 DEF Cleaning
<1>12. call[c].pc # "delete-record"
  BY <1>1 DEF CallInv
<1> QED
  BY <1>6, <1>7, <1>8, <1>9, <1>10, <1>11, <1>12 DEF CallInv

(* The caches stay coherent when others take a step.                         *)
LEMMA OtherCaches ==
    ASSUME TypeInv, TypeInv', StoreInv, RecordGrows, NodesKept,
           \A s \in Stores : cache'[s] = cache[s] \/ cache'[s] = None
    PROVE  CacheInv'
<1>1. record' = record => Applied' = Applied
  BY AppliedKept
<1>2. /\ record # None => record.gen \in Nat
      /\ \A s \in Stores : cache[s] # None => cache[s].gen \in Nat
  BY Values
<1>3. record' # None => record'.gen \in Nat
  BY DEF TypeInv, TypeOK, RecordType, Gens
<1> SUFFICES ASSUME NEW s \in Stores, cache'[s] # None
             PROVE  /\ record' # None
                    /\ cache'[s].gen <= record'.gen
                    /\ cache'[s].gen = record'.gen => cache'[s].sched = Applied'
  BY DEF CacheInv
<1>4. cache'[s] = cache[s]
  OBVIOUS
<1>5. /\ record # None /\ cache[s].gen <= record.gen
      /\ cache[s].gen = record.gen => cache[s].sched = Applied
  BY <1>4 DEF StoreInv, CacheInv
<1>6. record' # None /\ record.gen <= record'.gen
  BY <1>5 DEF RecordGrows
<1>7. cache[s].gen = record'.gen => record' = record /\ cache[s].gen = record.gen
  BY <1>2, <1>3, <1>4, <1>5, <1>6 DEF RecordGrows
<1>8. cache[s].gen <= record'.gen
  BY <1>2, <1>3, <1>4, <1>5, <1>6
<1> QED
  BY <1>1, <1>4, <1>5, <1>6, <1>7, <1>8

(* The invariant holds after a step, if what the step changes is right.      *)
LEMMA StepInv ==
    ASSUME TypeInv, TypeInv', StoreInv, RecordGrows, NodesKept,
           count <= count', Applied \subseteq Applied', acked' \subseteq Applied',
           \A c \in Callers : Goes(c),
           \A o \in Applied' :
              /\ o <= count'
              /\ \/ o \in Applied
                 \/ \A c \in Callers : call'[c].op = o
                       => call'[c].pc \in {"set-cached", "lost"},
           \A c \in Callers : call'[c] = call[c] \/ CallInv(c)',
           \A i \in Ids : nodes'[i] = nodes[i] \/ nodes'[i] = None
                                               \/ ~Unwritten(i)',
           record' # None => /\ nodes'[record'.node] # None
                             /\ nodes'[record'.node].gen = record'.gen,
           CacheInv'
    PROVE  StoreInv' /\ StateKept
<1>1. \A i \in Ids : Unwritten(i)' => Unwritten(i)
  BY UnwrittenShrinks
<1>2. \A i \in Ids : Unwritten(i)' => nodes'[i] = None
  BY <1>1 DEF StoreInv
<1>3. Applied' \subseteq Ops
  <2>1. CASE record' = None
    BY <2>1 DEF Applied
  <2>2. CASE record' # None
    <3>1. record'.node \in Ids
      BY <2>2 DEF TypeInv, TypeOK, RecordType
    <3>2. nodes'[record'.node] \in NodeType
      BY <2>2, <3>1 DEF TypeInv, TypeOK
    <3> QED
      BY <2>2, <3>2 DEF Applied, NodeType
  <2> QED
    BY <2>1, <2>2
<1>4. \A c \in Callers : Begun(c)'
  BY <1>3, BegunInv
<1>5. \A c \in Callers : CallInv(c)'
  BY <1>1, OtherCalls
<1>6. StateKept
  BY AppliedKept DEF StateKept
<1> QED
  BY <1>2, <1>4, <1>5, <1>6 DEF StoreInv

(* The steps that change neither the record nor the nodes.                   *)
LEMMA QuietInv ==
    ASSUME TypeInv, TypeInv', StoreInv, UNCHANGED <<record, nodes>>,
           count <= count', acked' \subseteq Applied,
           \A c \in Callers : Goes(c),
           \A c \in Callers : call'[c] = call[c] \/ CallInv(c)',
           CacheInv'
    PROVE  StoreInv' /\ StateKept
<1>1. NodesKept
  BY DEF NodesKept
<1>2. RecordGrows
  <2>1. record # None => record.gen <= record.gen
    BY Values
  <2> QED
    BY <2>1 DEF RecordGrows
<1>3. Applied' = Applied
  BY <1>1, AppliedKept
<1>4. /\ \A o \in Applied : o <= count'
      /\ record # None => /\ nodes[record.node] # None
                          /\ nodes[record.node].gen = record.gen
  <2>1. Applied \subseteq Nat /\ count \in Nat /\ count' \in Nat
    BY AppliedType, Values DEF TypeInv, TypeOK
  <2> QED
    BY <2>1 DEF StoreInv
<1>5. acked' \subseteq Applied'
  BY <1>3
<1> QED
  BY <1>1, <1>2, <1>3, <1>4, <1>5, StepInv

(* A quiet step of one operation, to a record that agrees with the state.    *)
LEMMA QuietCall ==
    ASSUME TypeInv, TypeInv', StoreInv, UNCHANGED <<record, nodes, cache, acked>>,
           count <= count', NEW c \in Callers, NEW r, Goto(c, r),
           Goes(c), CallInv(c)'
    PROVE  StoreInv' /\ StateKept
<1>1. \A d \in Callers : d # c => call'[d] = call[d]
  BY GotoCall DEF TypeInv
<1>2. \A d \in Callers : Goes(d)
  <2>1. \A d \in Callers : call[d].try \in Nat
    BY Values
  <2> QED
    BY <1>1, <2>1 DEF Goes
<1>3. CacheInv'
  BY DEF StoreInv, CacheInv, Applied
<1>4. acked' \subseteq Applied
  BY DEF StoreInv
<1> QED
  BY <1>1, <1>2, <1>3, <1>4, QuietInv

(* An operation returns.                                                     *)
LEMMA ReturnInv ==
    ASSUME TypeInv, TypeInv', StoreInv, UNCHANGED <<record, nodes, cache, acked>>,
           count <= count', NEW c \in Callers, Goto(c, Idle)
    PROVE  StoreInv' /\ StateKept
<1>1. call'[c] = Idle
  BY GotoCall DEF TypeInv
<1>2. Goes(c) /\ CallInv(c)'
  BY <1>1 DEF Goes, CallInv, At, Idle
<1> QED
  BY <1>2, QuietCall

LEMMA RunInv ==
    ASSUME TypeInv, TypeInv', StoreInv, NEW c \in Batchers \cup Admins, Run(c)
    PROVE  StoreInv' /\ StateKept
<1>1. c \in Callers /\ StoreOf[c] \in Stores
  BY StoreAssumption DEF Callers
<1>2. /\ count < MaxCalls /\ count' = count + 1 /\ count <= count'
      /\ UNCHANGED <<record, nodes, cache, heap, acked>>
  BY Values DEF Run, Begin
<1> DEFINE sg == cache[StoreOf[c]]
<1>3. CASE sg # None
  <2> DEFINE r == [Idle EXCEPT !.pc = "modify", !.op = count + 1,
                               !.gen = sg.gen, !.sched = sg.sched,
                               !.ref = sg.ref]
  <2>1. Goto(c, r)
    BY <1>3 DEF Run
  <2>2. /\ call'[c].pc = "modify" /\ call'[c].op = count + 1
        /\ call'[c].gen = sg.gen /\ call'[c].sched = sg.sched
        /\ \A d \in Callers : d # c => call'[d] = call[d]
    <3>1. call'[c] = r /\ \A d \in Callers : d # c => call'[d] = call[d]
      BY <1>1, <2>1, GotoCall DEF TypeInv
    <3> QED
      BY <3>1, IdleType DEF CallType
  <2>3. Goes(c)
    BY <1>2, <2>2 DEF Goes
  <2>4. Working(c)'
    <3>1. /\ record # None /\ sg.gen <= record.gen
          /\ sg.gen = record.gen => sg.sched = Applied
      BY <1>1, <1>3 DEF StoreInv, CacheInv
    <3> QED
      BY <1>2, <2>2, <3>1 DEF Working, Applied, At
  <2>5. CallInv(c)'
    BY <2>2, <2>4 DEF CallInv, At
  <2> QED
    BY <1>1, <1>2, <2>1, <2>3, <2>5, QuietCall
<1>4. CASE sg = None
  <2> DEFINE r == [Idle EXCEPT !.pc = "load", !.op = count + 1, !.try = 1]
  <2>1. Goto(c, r)
    BY <1>4 DEF Run
  <2>2. /\ call'[c].pc = "load" /\ call'[c].op = count + 1
        /\ \A d \in Callers : d # c => call'[d] = call[d]
    <3>1. call'[c] = r /\ \A d \in Callers : d # c => call'[d] = call[d]
      BY <1>1, <2>1, GotoCall DEF TypeInv
    <3> QED
      BY <3>1, IdleType DEF CallType
  <2>3. Goes(c) /\ CallInv(c)'
    BY <1>2, <2>2 DEF Goes, CallInv, At
  <2> QED
    BY <1>1, <1>2, <2>1, <2>3, QuietCall
<1> QED
  BY <1>3, <1>4

(* The steps on the state in memory.                                         *)
LEMMA WorkInv ==
    ASSUME TypeInv, TypeInv', StoreInv, NEW c \in Callers,
           Modify(c) \/ Marshal(c)
    PROVE  StoreInv' /\ StateKept
<1>1. UNCHANGED <<record, nodes, cache, count, acked>> /\ count <= count'
  BY Values DEF Modify, Marshal
<1>2. call[c].pc \in {"modify", "marshal"} /\ Working(c) /\ call[c] \in CallType
  BY DEF Modify, Marshal, At, StoreInv, CallInv, TypeInv, TypeOK
<1>3. CASE Modify(c)
  <2> DEFINE r == [call[c] EXCEPT !.pc = "marshal",
                                  !.sched = @ \cup {call[c].op}]
  <2>1. Goto(c, r)
    BY <1>3 DEF Modify
  <2>2. call'[c] = r
    BY <2>1, GotoCall DEF TypeInv
  <2>3. /\ call'[c].pc = "marshal" /\ call'[c].op = call[c].op
        /\ call'[c].try = call[c].try /\ call'[c].gen = call[c].gen
        /\ call'[c].sched = call[c].sched \cup {call[c].op}
    BY <1>2, <2>2 DEF CallType
  <2>4. call[c].pc = "modify"
    BY <1>3 DEF Modify, At
  <2>5. Working(c)'
    BY <1>1, <1>2, <2>3, <2>4 DEF Working, Applied, At
  <2>6. Goes(c) /\ CallInv(c)'
    BY <2>3, <2>4, <2>5 DEF Goes, CallInv, At, BeforePut
  <2> QED
    BY <1>1, <2>1, <2>6, QuietCall
<1>4. CASE Marshal(c)
  <2> DEFINE r == [call[c] EXCEPT !.pc = "put", !.recon = heap[call[c].ref]]
  <2>1. Goto(c, r)
    BY <1>4 DEF Marshal
  <2>2. call'[c] = r
    BY <2>1, GotoCall DEF TypeInv
  <2>3. /\ call'[c].pc = "put" /\ call'[c].op = call[c].op
        /\ call'[c].try = call[c].try /\ call'[c].gen = call[c].gen
        /\ call'[c].sched = call[c].sched
    BY <1>2, <2>2 DEF CallType
  <2>4. call[c].pc = "marshal"
    BY <1>4 DEF Marshal, At
  <2>5. Working(c)'
    BY <1>1, <1>2, <2>3, <2>4 DEF Working, Applied, At
  <2>6. Goes(c) /\ CallInv(c)'
    BY <2>3, <2>4, <2>5 DEF Goes, CallInv, At, BeforePut
  <2> QED
    BY <1>1, <2>1, <2>6, QuietCall
<1> QED
  BY <1>3, <1>4

LEMMA WrongGenerationInv ==
    ASSUME TypeInv, TypeInv', StoreInv, NEW c \in Callers, WrongGeneration(c)
    PROVE  StoreInv' /\ StateKept
<1>1. UNCHANGED <<record, nodes, cache, count, acked>> /\ count <= count'
  BY Values DEF WrongGeneration
<1>2. CASE call[c].try < MaxAttempts
  <2> DEFINE r == [Idle EXCEPT !.pc = "load", !.op = call[c].op,
                               !.try = call[c].try + 1]
  <2>1. Goto(c, r)
    BY <1>2 DEF WrongGeneration
  <2>2. /\ call'[c].pc = "load" /\ call'[c].op = call[c].op
        /\ call'[c].try = call[c].try + 1
    <3>1. call'[c] = r
      BY <2>1, GotoCall DEF TypeInv
    <3> QED
      BY <3>1, IdleType DEF CallType
  <2>3. call[c].try < call'[c].try /\ call[c].pc = "txn"
    BY <2>2, Values DEF WrongGeneration, At
  <2>4. Goes(c) /\ CallInv(c)'
    BY <2>2, <2>3 DEF Goes, CallInv, At
  <2> QED
    BY <1>1, <2>1, <2>4, QuietCall
<1>3. CASE ~ call[c].try < MaxAttempts
  BY <1>1, <1>3, ReturnInv DEF WrongGeneration, Return
<1> QED
  BY <1>2, <1>3

LEMMA SetCachedInv ==
    ASSUME TypeInv, TypeInv', StoreInv, NEW c \in Batchers \cup Admins,
           SetCached(c)
    PROVE  StoreInv' /\ StateKept
<1> DEFINE sg == [gen |-> call[c].gen + 1, sched |-> call[c].sched,
                  ref |-> call[c].ref]
<1>1. c \in Callers /\ StoreOf[c] \in Stores
  BY StoreAssumption DEF Callers
<1>2. UNCHANGED <<record, nodes, count>> /\ count <= count' /\ Applied' = Applied
  BY Values DEF SetCached, Applied
<1>3. Committed(c)
  BY <1>1 DEF SetCached, At, StoreInv, CallInv
<1>4. /\ call'[c] = Idle
      /\ \A d \in Callers : d # c => call'[d] = call[d]
  BY <1>1, GotoCall DEF SetCached, Return, TypeInv
<1>5. \A d \in Callers : Goes(d)
  <2>1. call'[c].op = None
    BY <1>4 DEF Idle
  <2> QED
    BY <1>4, <2>1 DEF Goes
<1>6. CallInv(c)'
  BY <1>4 DEF CallInv, At, Idle
<1>7. acked' \subseteq Applied
  BY <1>3 DEF SetCached, StoreInv, Committed
<1>8. CacheInv'
  <2>1. \A s \in Stores : cache'[s] = cache[s] \/ cache'[s] = sg
    BY <1>1 DEF SetCached, TypeInv, TypeOK
  <2>2. /\ record # None /\ sg.gen <= record.gen
        /\ sg.gen = record.gen => sg.sched = Applied
    BY <1>3 DEF Committed
  <2> HIDE DEF sg
  <2> QED
    BY <1>2, <2>1, <2>2 DEF CacheInv, StoreInv
<1> QED
  BY <1>2, <1>4, <1>5, <1>6, <1>7, <1>8, QuietInv

(* The nodes that an operation writes are its own.                           *)
LEMMA OwnNodes ==
    ASSUME TypeInv, StoreInv, NEW c \in Callers,
           call[c].op # None, call[c].pc \in BeforePut
    PROVE  /\ IdOf(c) \in Ids /\ IdOf(c)[1] = call[c].op
           /\ IdOf(c)[2] = call[c].try
           /\ Unwritten(IdOf(c)) /\ nodes[IdOf(c)] = None
<1>1. call[c].op \in Ops /\ call[c].try \in 0 .. MaxAttempts
  <2>1. call[c] \in CallType
    BY DEF TypeInv, TypeOK
  <2> QED
    BY <2>1 DEF CallType
<1>2. IdOf(c) \in Ids
  BY <1>1 DEF IdOf, Ids
<1>3. Unwritten(IdOf(c))
  BY DEF Unwritten, IdOf
<1> QED
  BY <1>2, <1>3 DEF IdOf, StoreInv

(* Both puts: nodes are written at the identifiers of the operation.         *)
LEMMA WriteInv ==
    ASSUME TypeInv, TypeInv', StoreInv, NEW c \in Callers, NEW n, NEW r,
           NEW w \in Ids, w = IdOf(c),
           call[c].op # None, call[c].pc \in BeforePut,
           nodes' = [nodes EXCEPT ![w] = n], n # None, Goto(c, r),
           r.op = call[c].op, r.try = call[c].try, r.pc \notin BeforePut,
           UNCHANGED <<record, cache, count, acked>>,
           /\ ~Unwritten(w)'
           /\ nodes'[w] = n
           /\ record' = record /\ Applied' = Applied
           => CallInv(c)'
    PROVE  StoreInv' /\ StateKept
<1>1. /\ w[1] = call[c].op /\ w[2] = call[c].try
      /\ Unwritten(w) /\ nodes[w] = None
  BY OwnNodes
<1>2. /\ call'[c] = r
      /\ \A d \in Callers : d # c => call'[d] = call[d]
  BY GotoCall DEF TypeInv
<1>3. /\ \A i \in Ids : i # w => nodes'[i] = nodes[i]
      /\ nodes'[w] = n
  BY <1>1 DEF TypeInv, TypeOK
<1>4. \A d \in Callers : Goes(d)
  <2>1. Goes(c)
    <3>1. call[c].pc \notin {"set-cached", "lost"}
      BY DEF BeforePut
    <3> QED
      BY <1>2, <3>1 DEF Goes
  <2> QED
    BY <1>2, <2>1 DEF Goes
<1>5. NodesKept
  BY <1>1, <1>3 DEF NodesKept
<1>6. RecordGrows
  BY Values DEF RecordGrows
<1>7. Applied' = Applied
  BY <1>5, AppliedKept
<1>8. ~Unwritten(w)'
  <2>1. \A d \in Callers : d # c => call'[d].op # call[c].op
    BY <1>2 DEF StoreInv, Begun
  <2>2. call[c].op <= count /\ call[c].op \in Nat /\ count \in Nat
    BY Values DEF StoreInv, Begun
  <2>3. call[c].try \in Nat
    BY Values
  <2>4. ~ call'[c].try < w[2]
    BY <1>1, <1>2, <2>3
  <2> QED
    BY <1>1, <1>2, <2>1, <2>2, <2>4 DEF Unwritten
<1>9. CallInv(c)'
  BY <1>3, <1>7, <1>8
<1>10. /\ \A o \in Applied' : o \in Applied /\ o <= count'
       /\ acked' \subseteq Applied' /\ Applied \subseteq Applied'
       /\ count <= count'
  BY <1>7, Values DEF StoreInv
<1>11. record' # None => /\ nodes'[record'.node] # None
                         /\ nodes'[record'.node].gen = record'.gen
  <2>1. record # None => nodes'[record.node] = nodes[record.node]
    BY <1>5, AppliedKept
  <2> QED
    BY <2>1 DEF StoreInv
<1>12. CacheInv'
  BY <1>5, <1>6, OtherCaches
<1>13. \A i \in Ids : nodes'[i] = nodes[i] \/ ~Unwritten(i)'
  BY <1>3, <1>8
<1>14. \A d \in Callers : call'[d] = call[d] \/ CallInv(d)'
  BY <1>2, <1>9
<1> QED
  BY <1>4, <1>5, <1>6, <1>10, <1>11, <1>12, <1>13, <1>14, StepInv

LEMMA PutInv ==
    ASSUME TypeInv, TypeInv', StoreInv, NEW c \in Batchers \cup Admins, Put(c)
    PROVE  StoreInv' /\ StateKept
<1>0. PICK w : w = IdOf(c)
  OBVIOUS
<1> DEFINE n == [gen |-> call[c].gen + 1, sched |-> call[c].sched,
                 recon |-> call[c].recon]
           r == [call[c] EXCEPT !.pc = "txn", !.node = w]
<1>1. /\ c \in Callers /\ call[c] \in CallType /\ call[c].op \in Ops
      /\ call[c].op # None
  <2>1. c \in Callers /\ c \notin Cleaners /\ call[c].pc = "put"
    BY StoreAssumption DEF Callers, Put, At
  <2>2. Shape(c)
    BY <2>1 DEF TypeInv
  <2> QED
    BY <2>1, <2>2, Values DEF Shape, ShapeOf, TypeInv, TypeOK
<1>2. call[c].pc = "put" /\ call[c].pc \in BeforePut
  BY DEF Put, At, BeforePut
<1>3. /\ nodes' = [nodes EXCEPT ![w] = n] /\ Goto(c, r)
      /\ UNCHANGED <<record, cache, count, acked>>
  BY <1>0 DEF Put
<1>4. /\ r.pc = "txn" /\ r.op = call[c].op /\ r.try = call[c].try
      /\ r.gen = call[c].gen /\ r.sched = call[c].sched /\ r.node = w
  BY <1>1 DEF CallType
<1>5. n # None
  <2>1. n \in NodeType
    BY <1>1 DEF CallType, NodeType, Gens
  <2> HIDE DEF n
  <2> QED
    BY <2>1, NoneAssumption
<1>6. call'[c] = r
  BY <1>1, <1>3, GotoCall DEF TypeInv
<1>7. Working(c)
  BY <1>1, <1>2 DEF StoreInv, CallInv
<1>8. n.gen = call[c].gen + 1 /\ n.sched = call[c].sched
  OBVIOUS
<1> HIDE DEF n, r
<1>9. ASSUME ~Unwritten(w)', nodes'[w] = n,
             record' = record, Applied' = Applied
      PROVE  CallInv(c)'
  <2>1. Working(c)'
    BY <1>2, <1>4, <1>6, <1>7, <1>9 DEF Working, At
  <2>2. call'[c].node = w
    BY <1>4, <1>6
  <2>4. Committing(c)'
    BY <1>4, <1>5, <1>6, <1>8, <1>9, <2>2 DEF Committing
  <2> QED
    BY <1>4, <1>6, <2>1, <2>4 DEF CallInv, At
<1>10. r.pc \notin BeforePut
  BY <1>4 DEF BeforePut
<1>11. w \in Ids
  BY <1>0, <1>1, <1>2, OwnNodes
<1> QED
  BY <1>0, <1>1, <1>2, <1>3, <1>4, <1>5, <1>9, <1>10, <1>11, WriteInv

LEMMA CreatePutInv ==
    ASSUME TypeInv, TypeInv', StoreInv, NEW c \in Batchers \cup Admins,
           CreatePut(c)
    PROVE  StoreInv' /\ StateKept
<1>0. PICK w : w = IdOf(c)
  OBVIOUS
<1> DEFINE n == [gen |-> 0, sched |-> {}, recon |-> {}]
           r == [call[c] EXCEPT !.pc = "create-txn", !.node = w]
<1>1. /\ c \in Callers /\ call[c] \in CallType /\ call[c].op # None
  <2>1. c \in Callers /\ c \notin Cleaners /\ call[c].pc = "create-put"
    BY StoreAssumption DEF Callers, CreatePut, At
  <2>2. Shape(c)
    BY <2>1 DEF TypeInv
  <2> QED
    BY <2>1, <2>2, Values DEF Shape, ShapeOf, TypeInv, TypeOK
<1>2. call[c].pc \in BeforePut
  BY DEF CreatePut, At, BeforePut
<1>3. /\ nodes' = [nodes EXCEPT ![w] = n] /\ Goto(c, r)
      /\ UNCHANGED <<record, cache, count, acked>>
  BY <1>0 DEF CreatePut
<1>4. /\ r.pc = "create-txn" /\ r.op = call[c].op /\ r.try = call[c].try
      /\ r.node = w
  BY <1>1 DEF CallType
<1>5. n # None
  <2>1. n \in NodeType
    BY DEF NodeType, Gens
  <2> HIDE DEF n
  <2> QED
    BY <2>1, NoneAssumption
<1>6. call'[c] = r
  BY <1>1, <1>3, GotoCall DEF TypeInv
<1>7. n.gen = 0 /\ n.sched = {}
  OBVIOUS
<1> HIDE DEF n, r
<1>8. ASSUME ~Unwritten(w)', nodes'[w] = n
      PROVE  CallInv(c)'
  <2>1. call'[c].node = w
    BY <1>4, <1>6
  <2>3. Creating(c)'
    BY <1>5, <1>7, <1>8, <2>1 DEF Creating
  <2> QED
    BY <1>4, <1>6, <2>3 DEF CallInv, At
<1>9. r.pc \notin BeforePut
  BY <1>4 DEF BeforePut
<1>10. w \in Ids
  BY <1>0, <1>1, <1>2, OwnNodes
<1> QED
  BY <1>0, <1>1, <1>2, <1>3, <1>4, <1>5, <1>8, <1>9, <1>10, WriteInv

(* A step that replaces the record, by one of a higher generation.           *)
LEMMA RecordInv ==
    ASSUME TypeInv, TypeInv', StoreInv, NEW c \in Callers, NEW r, Goto(c, r),
           UNCHANGED <<nodes, cache, count, acked>>, RecordGrows,
           r.op \in {None, call[c].op}, r.try = call[c].try \/ r.op = None,
           r.pc \notin BeforePut,
           r.pc \in {"idle", "set-cached", "lost"},
           call[c].pc \notin {"set-cached", "lost"},
           record' # None => /\ nodes[record'.node] # None
                             /\ nodes[record'.node].gen = record'.gen,
           Applied \subseteq Applied', record' # record,
           Applied' = Applied
              \/ /\ Applied' \subseteq Applied \cup {call[c].op}
                 /\ call[c].op \in Ops /\ r.pc # "idle",
           CallInv(c)'
    PROVE  StoreInv' /\ StateKept
<1>1. /\ call'[c] = r
      /\ \A d \in Callers : d # c => call'[d] = call[d]
  BY GotoCall DEF TypeInv
<1>2. \A d \in Callers : Goes(d)
  <2>1. Goes(c)
    BY <1>1 DEF Goes
  <2> QED
    BY <1>1, <2>1 DEF Goes
<1>3. NodesKept
  BY DEF NodesKept
<1>4. acked' \subseteq Applied' /\ count <= count'
  BY Values DEF StoreInv
<1>5. ASSUME NEW o \in Applied'
      PROVE  /\ o <= count'
             /\ \/ o \in Applied
                \/ \A d \in Callers : call'[d].op = o
                      => call'[d].pc \in {"set-cached", "lost"}
  <2>1. CASE o \in Applied
    BY <2>1 DEF StoreInv
  <2>2. CASE o \notin Applied
    <3>1. o = call[c].op /\ o \in Ops /\ o # None /\ r.pc # "idle"
      BY <1>5, <2>2, Values
    <3>2. o <= count
      BY <3>1 DEF StoreInv, Begun
    <3>3. \A d \in Callers : d # c => call'[d].op # o
      BY <1>1, <3>1 DEF StoreInv, Begun
    <3> QED
      BY <1>1, <3>1, <3>2, <3>3
  <2> QED
    BY <2>1, <2>2
<1>6. CacheInv'
  BY <1>3, OtherCaches
<1>7. \A i \in Ids : nodes'[i] = nodes[i]
  OBVIOUS
<1>8. record' # None => /\ nodes'[record'.node] # None
                        /\ nodes'[record'.node].gen = record'.gen
  OBVIOUS
<1>9. \A d \in Callers : call'[d] = call[d] \/ CallInv(d)'
  BY <1>1
<1> QED
  BY <1>2, <1>3, <1>4, <1>5, <1>6, <1>7, <1>8, <1>9, StepInv

(* The commit of an operation, on the state that it worked on.               *)
LEMMA CommitFacts ==
    ASSUME TypeInv, StoreInv, NEW c \in Batchers \cup Admins, Commit(c)
    PROVE  /\ c \in Callers /\ record # None /\ record.gen = call[c].gen
           /\ call[c].op \in Ops /\ call[c].op \notin Applied
           /\ call[c].node \in Ids /\ nodes[call[c].node] # None
           /\ nodes[call[c].node].gen = call[c].gen + 1
           /\ nodes[call[c].node].sched = call[c].sched
           /\ call[c].sched = Applied \cup {call[c].op}
           /\ record' = [gen |-> call[c].gen + 1, node |-> call[c].node]
           /\ nodes' = nodes
           /\ Applied' = Applied \cup {call[c].op}
<1>1. c \in Callers /\ c \notin Cleaners /\ call[c].pc = "txn"
  BY StoreAssumption DEF Callers, Commit, At
<1>2. Shape(c) /\ Begun(c) /\ Working(c) /\ Committing(c)
  BY <1>1 DEF TypeInv, StoreInv, CallInv, At
<1>3. record # None /\ record.gen = call[c].gen
  BY DEF Commit, SameGeneration
<1>4. call[c].op \in Ops /\ call[c].node \in Ids /\ call[c].op \notin Applied
  BY <1>1, <1>2 DEF Shape, ShapeOf, Begun
<1>5. call[c].sched = Applied \cup {call[c].op}
  BY <1>1, <1>2, <1>3 DEF Working, At
<1>6. /\ nodes[call[c].node] # None
      /\ nodes[call[c].node].gen = call[c].gen + 1
      /\ nodes[call[c].node].sched = call[c].sched
  BY <1>2, <1>3 DEF Committing
<1>7. /\ record' = [gen |-> call[c].gen + 1, node |-> call[c].node]
      /\ nodes' = nodes
  BY DEF Commit
<1>8. record' # None
  <2>1. record' \in RecordType
    BY <1>1, <1>4, <1>7, Values DEF RecordType, Gens
  <2> QED
    BY <2>1, NoneAssumption
<1>9. Applied' = nodes[call[c].node].sched
  BY <1>7, <1>8 DEF Applied
<1> QED
  BY <1>1, <1>3, <1>4, <1>5, <1>6, <1>7, <1>9

LEMMA CommitInv ==
    ASSUME TypeInv, TypeInv', StoreInv, NEW c \in Batchers \cup Admins, Commit(c)
    PROVE  StoreInv' /\ StateKept
<1>1. PICK pc \in {"set-cached", "lost"} : Goto(c, [call[c] EXCEPT !.pc = pc])
  BY DEF Commit
<1> DEFINE r == [call[c] EXCEPT !.pc = pc]
<1>2. /\ c \in Callers /\ record # None /\ record.gen = call[c].gen
      /\ call[c].op \in Ops
      /\ nodes[call[c].node] # None
      /\ nodes[call[c].node].gen = call[c].gen + 1
      /\ call[c].sched = Applied \cup {call[c].op}
      /\ record' = [gen |-> call[c].gen + 1, node |-> call[c].node]
      /\ Applied' = Applied \cup {call[c].op}
  BY CommitFacts
<1>3. record' # None
  BY <1>2 DEF TypeInv, TypeOK, Commit, Applied
<1>4. call[c].pc = "txn" /\ UNCHANGED <<nodes, cache, count, acked>>
  BY DEF Commit, At
<1>5. /\ r.pc = pc /\ r.op = call[c].op /\ r.try = call[c].try
      /\ r.gen = call[c].gen /\ r.sched = call[c].sched
  <2>1. call[c] \in CallType
    BY <1>2 DEF TypeInv, TypeOK
  <2> QED
    BY <2>1 DEF CallType
<1>6. Goto(c, r) /\ call'[c] = r
  BY <1>1, <1>2, GotoCall DEF TypeInv
<1> HIDE DEF r
<1>7. record'.gen = record.gen + 1 /\ record.gen \in Nat
  BY <1>2, Values
<1>8. RecordGrows
  BY <1>3, <1>7 DEF RecordGrows
<1>9. record' # record
  BY <1>7
<1>10. CallInv(c)'
  <2>1. Committed(c)'
    BY <1>2, <1>3, <1>5, <1>6, <1>7 DEF Committed
  <2> QED
    BY <1>1, <1>5, <1>6, <2>1 DEF CallInv, At
<1>11. /\ nodes[record'.node] # None
       /\ nodes[record'.node].gen = record'.gen
  BY <1>2
<1>12. r.pc \notin BeforePut /\ r.pc \in {"set-cached", "lost"}
  BY <1>1, <1>5 DEF BeforePut
<1> QED
  BY <1>2, <1>4, <1>5, <1>6, <1>8, <1>9, <1>10, <1>11, <1>12, RecordInv

LEMMA CreateRecordFacts ==
    ASSUME TypeInv, StoreInv, NEW c \in Batchers \cup Admins, CreateRecord(c)
    PROVE  /\ c \in Callers /\ record = None
           /\ record' = [gen |-> 0, node |-> call[c].node] /\ record' # None
           /\ nodes[call[c].node] # None /\ nodes[call[c].node].gen = 0
           /\ Applied = {} /\ Applied' = {}
<1>1. c \in Callers /\ call[c].pc = "create-txn"
  BY DEF Callers, CreateRecord, At
<1>2. Shape(c) /\ Creating(c)
  BY <1>1 DEF TypeInv, StoreInv, CallInv, At
<1>3. record = None /\ record' = [gen |-> 0, node |-> call[c].node]
      /\ nodes' = nodes
  BY DEF CreateRecord
<1>4. call[c].node \in Ids
  BY <1>1, <1>2 DEF Shape, ShapeOf
<1>5. record' # None
  <2>1. record' \in RecordType
    BY <1>3, <1>4 DEF RecordType, Gens
  <2> QED
    BY <2>1, NoneAssumption
<1> QED
  BY <1>1, <1>2, <1>3, <1>5 DEF Creating, Applied

LEMMA CreateRecordInv ==
    ASSUME TypeInv, TypeInv', StoreInv, NEW c \in Batchers \cup Admins,
           CreateRecord(c)
    PROVE  StoreInv' /\ StateKept
<1>1. /\ c \in Callers /\ record = None
      /\ record' = [gen |-> 0, node |-> call[c].node] /\ record' # None
      /\ nodes[call[c].node] # None /\ nodes[call[c].node].gen = 0
      /\ Applied = {} /\ Applied' = {}
  BY CreateRecordFacts
<1>2. /\ call[c].pc = "create-txn" /\ Goto(c, Idle)
      /\ UNCHANGED <<nodes, cache, count, acked>>
  BY DEF CreateRecord, At, Return
<1>3. call'[c] = Idle
  BY <1>1, <1>2, GotoCall DEF TypeInv
<1>4. Idle.op = None /\ Idle.pc = "idle"
  BY DEF Idle
<1>5. CallInv(c)'
  BY <1>3, <1>4 DEF CallInv, At
<1>6. RecordGrows
  BY <1>1 DEF RecordGrows
<1>7. /\ nodes[record'.node] # None
      /\ nodes[record'.node].gen = record'.gen
  BY <1>1
<1>8. Idle.pc \notin BeforePut
  BY <1>4 DEF BeforePut
<1> QED
  BY <1>1, <1>2, <1>4, <1>5, <1>6, <1>7, <1>8, RecordInv

LEMMA CreateInv ==
    ASSUME TypeInv, TypeInv', StoreInv, NEW c \in Batchers \cup Admins, Create(c)
    PROVE  StoreInv' /\ StateKept
<1> DEFINE r == [Idle EXCEPT !.pc = "create-put", !.op = count + 1]
<1>1. /\ c \in Callers /\ count' = count + 1 /\ count <= count'
      /\ UNCHANGED <<record, nodes, cache, acked>> /\ Goto(c, r)
  BY Values DEF Create, Begin, Callers
<1>2. /\ call'[c] = r
      /\ \A d \in Callers : d # c => call'[d] = call[d]
  BY <1>1, GotoCall DEF TypeInv
<1>3. r.pc = "create-put" /\ r.op = count + 1
  BY IdleType DEF CallType
<1> HIDE DEF r
<1>4. Goes(c) /\ CallInv(c)'
  BY <1>1, <1>2, <1>3 DEF Goes, CallInv, At
<1> QED
  BY <1>1, <1>4, QuietCall

(* Without a Delete, no operation is at a step of it.                        *)
LEMMA NoDelete ==
    ASSUME TypeInv, StoreInv, Deleters = {}, NEW c \in Batchers \cup Admins
    PROVE  ~Delete(c) /\ ~DeleteRecord(c) /\ ~DeleteQuery(c)
<1>1. c \in Callers /\ c \notin Cleaners
  BY StoreAssumption DEF Callers
<1>2. CallInv(c)
  BY <1>1 DEF StoreInv
<1> QED
  BY <1>1, <1>2 DEF Delete, DeleteRecord, DeleteQuery, CallInv, Cleaning, At

LEMMA CleanInv ==
    ASSUME TypeInv, TypeInv', StoreInv, NEW c \in Cleaners, CleanStep(c)
    PROVE  StoreInv' /\ StateKept
<1>1. /\ c \in Callers /\ call[c] \in CallType /\ CallInv(c) /\ Shape(c)
  BY DEF Callers, TypeInv, TypeOK, StoreInv
<1>2. UNCHANGED <<record, nodes, cache, count, acked>> /\ count <= count'
  BY Values DEF CleanStep, Clean, CleanLoaded, CleanQuery
<1>3. CASE Clean(c)
  <2> DEFINE r == [Idle EXCEPT !.pc = "load"]
  <2>1. Goto(c, r)
    BY <1>3 DEF Clean
  <2>2. call'[c] = r
    BY <1>1, <2>1, GotoCall DEF TypeInv
  <2>3. r.pc = "load" /\ r.op = None
    BY DEF Idle
  <2> HIDE DEF r
  <2>4. Goes(c) /\ CallInv(c)'
    BY <2>2, <2>3 DEF Goes, CallInv, At
  <2> QED
    BY <1>1, <1>2, <2>1, <2>4, QuietCall
<1>4. CASE CleanLoaded(c)
  <2> DEFINE r == [Idle EXCEPT !.pc = "delete-query", !.gen = call[c].gen]
  <2>1. Goto(c, r) /\ call[c].pc = "load-nodes"
    BY <1>4 DEF CleanLoaded, At
  <2>2. call'[c] = r
    BY <1>1, <2>1, GotoCall DEF TypeInv
  <2>3. r.pc = "delete-query" /\ r.op = None /\ r.gen = call[c].gen
    BY IdleType DEF CallType, Idle
  <2>4. Loading(c)
    BY <1>1, <2>1 DEF CallInv, At
  <2> HIDE DEF r
  <2>5. Cleaning(c)'
    BY <1>2, <2>2, <2>3, <2>4 DEF Cleaning, Loading, At
  <2>6. Goes(c) /\ CallInv(c)'
    BY <2>2, <2>3, <2>5 DEF Goes, CallInv, At
  <2> QED
    BY <1>1, <1>2, <2>1, <2>6, QuietCall
<1>5. CASE CleanQuery(c)
  <2> DEFINE old == {i \in Ids : nodes[i] # None
                                 /\ Stale(nodes[i].gen, call[c].gen)}
             r   == [call[c] EXCEPT !.pc = "delete-nodes", !.keys = old]
  <2>1. Goto(c, r) /\ call[c].pc = "delete-query"
    BY <1>5 DEF CleanQuery, At
  <2>2. call'[c] = r
    BY <1>1, <2>1, GotoCall DEF TypeInv
  <2>3. /\ r.pc = "delete-nodes" /\ r.op = call[c].op /\ r.try = call[c].try
        /\ r.gen = call[c].gen /\ r.keys = old
    BY <1>1 DEF CallType
  <2>4. Cleaning(c)
    BY <1>1, <2>1 DEF CallInv, At
  <2>5. ASSUME NEW i \in old
        PROVE  /\ i \in Ids /\ ~Unwritten(i)
               /\ nodes[i].gen < call[c].gen - Keep
    BY DEF StoreInv, Stale
  <2> HIDE DEF r, old
  <2>6. ASSUME NEW i \in old
        PROVE  ~Unwritten(i)'
    <3>1. \A d \in Callers : d # c => call'[d] = call[d]
      BY <1>1, <2>1, GotoCall DEF TypeInv
    <3> QED
      BY <1>2, <2>1, <2>2, <2>3, <2>5, <3>1 DEF Unwritten, BeforePut
  <2>7. Cleaning(c)'
    BY <1>2, <2>2, <2>3, <2>4, <2>5, <2>6 DEF Cleaning, At
  <2>8. Goes(c) /\ CallInv(c)'
    BY <2>1, <2>2, <2>3, <2>7 DEF Goes, CallInv, At, BeforePut
  <2> QED
    BY <1>1, <1>2, <2>1, <2>8, QuietCall
<1> QED
  BY <1>3, <1>4, <1>5 DEF CleanStep

LEMMA LoadInv ==
    ASSUME TypeInv, TypeInv', StoreInv, NEW c \in Callers,
           LoadRecord(c) \/ LoadNodes(c)
    PROVE  StoreInv' /\ StateKept
<1>1. call[c] \in CallType /\ CallInv(c) /\ Shape(c)
  BY DEF TypeInv, TypeOK, StoreInv
<1>2. UNCHANGED <<record, nodes, cache, count, acked>> /\ count <= count'
  BY Values DEF LoadRecord, LoadNodes
<1>3. CASE LoadRecord(c)
  <2> DEFINE r == [call[c] EXCEPT !.pc = "load-nodes", !.gen = record.gen,
                                  !.node = record.node]
  <2>1. Goto(c, r) /\ call[c].pc = "load" /\ record # None
    BY <1>3 DEF LoadRecord, At
  <2>2. /\ call'[c] = r
        /\ \A d \in Callers : d # c => call'[d] = call[d]
    BY <2>1, GotoCall DEF TypeInv
  <2>3. /\ r.pc = "load-nodes" /\ r.op = call[c].op /\ r.try = call[c].try
        /\ r.gen = record.gen /\ r.node = record.node
    BY <1>1 DEF CallType
  <2> HIDE DEF r
  <2>4. Goes(c)
    BY <2>1, <2>2, <2>3 DEF Goes, BeforePut
  <2>5. PICK w \in Ids : w = record.node
    BY <2>1, Values
  <2>6. /\ nodes[w] # None /\ nodes[w].gen = record.gen /\ ~Unwritten(w)
        /\ record.gen \in Nat
    BY <2>1, <2>5, RecordWritten, Values
  <2>7. ~Unwritten(w)'
    <3>1. \A d \in Callers : Goes(d)
      <4>1. \A d \in Callers : call[d].try \in Nat
        BY Values
      <4> QED
        BY <2>2, <2>4, <4>1 DEF Goes
    <3> QED
      BY <1>2, <2>6, <3>1, UnwrittenShrinks
  <2>8. Loading(c)'
    BY <1>2, <2>1, <2>2, <2>3, <2>5, <2>6, <2>7 DEF Loading
  <2>9. CallInv(c)'
    BY <2>2, <2>3, <2>8 DEF CallInv, At
  <2> QED
    BY <1>2, <2>1, <2>4, <2>9, QuietCall
<1>4. CASE LoadNodes(c)
  <2> DEFINE n == nodes[call[c].node]
             r == [call[c] EXCEPT !.pc = "modify", !.ref = IdOf(c),
                                  !.sched = n.sched]
  <2>1. Goto(c, r) /\ call[c].pc = "load-nodes" /\ n # None
    BY <1>4 DEF LoadNodes, At
  <2>2. call'[c] = r
    BY <2>1, GotoCall DEF TypeInv
  <2>3. /\ r.pc = "modify" /\ r.op = call[c].op /\ r.try = call[c].try
        /\ r.gen = call[c].gen /\ r.sched = n.sched
    BY <1>1 DEF CallType
  <2>4. Loading(c)
    BY <1>1, <2>1 DEF CallInv, At
  <2> HIDE DEF r
  <2>5. Working(c)'
    BY <1>2, <2>2, <2>3, <2>4 DEF Working, Loading, Applied, At
  <2>6. Goes(c) /\ CallInv(c)'
    BY <2>1, <2>2, <2>3, <2>5 DEF Goes, CallInv, At, BeforePut
  <2> QED
    BY <1>2, <2>1, <2>6, QuietCall
<1> QED
  BY <1>3, <1>4

(* A cleanup deletes a node that is old.                                     *)
LEMMA DeleteNodeInv ==
    ASSUME TypeInv, TypeInv', StoreInv, NEW c \in Callers, DeleteNode(c)
    PROVE  StoreInv' /\ StateKept
<1>1. PICK i \in call[c].keys :
         /\ nodes' = [nodes EXCEPT ![i] = None]
         /\ Goto(c, [call[c] EXCEPT !.keys = @ \ {i}])
  BY DEF DeleteNode
<1> DEFINE r == [call[c] EXCEPT !.keys = @ \ {i}]
<1>2. /\ call[c].pc = "delete-nodes" /\ call[c] \in CallType
      /\ UNCHANGED <<record, cache, count, acked>> /\ count <= count'
  BY Values DEF DeleteNode, At, TypeInv, TypeOK
<1>3. Cleaning(c)
  BY <1>2 DEF StoreInv, CallInv
<1>4. /\ i \in Ids /\ ~Unwritten(i) /\ record # None
      /\ nodes[i] # None => nodes[i].gen < call[c].gen - Keep
  BY <1>1, <1>2, <1>3, Values DEF Cleaning, At
<1>5. nodes[i] # None => nodes[i].gen < record.gen - Keep
  BY <1>3, <1>4, Values DEF Cleaning
<1>6. \A j \in Ids : nodes'[j] = IF j = i THEN None ELSE nodes[j]
  BY <1>1 DEF TypeInv, TypeOK
<1>7. /\ call'[c] = r
      /\ \A d \in Callers : d # c => call'[d] = call[d]
  BY <1>1, GotoCall DEF TypeInv
<1>8. /\ r.pc = call[c].pc /\ r.op = call[c].op /\ r.try = call[c].try
      /\ r.gen = call[c].gen /\ r.keys \subseteq call[c].keys
  BY <1>2 DEF CallType
<1> HIDE DEF r
<1>9. \A d \in Callers : Goes(d)
  <2>1. \A d \in Callers : call[d].try \in Nat
    BY Values
  <2> QED
    BY <1>7, <1>8, <2>1 DEF Goes
<1>10. NodesKept
  BY <1>4, <1>5, <1>6 DEF NodesKept
<1>11. RecordGrows
  BY <1>2, Values DEF RecordGrows
<1>12. Applied' = Applied /\ nodes'[record.node] = nodes[record.node]
  BY <1>2, <1>4, <1>10, AppliedKept
<1>13. CallInv(c)'
  <2>1. ASSUME NEW j \in r.keys
        PROVE  /\ ~Unwritten(j)'
               /\ nodes'[j] # None => nodes'[j].gen < call[c].gen - Keep
    <3>1. /\ j \in Ids /\ ~Unwritten(j)
          /\ nodes[j] # None => nodes[j].gen < call[c].gen - Keep
      BY <1>2, <1>3, <1>8, Values DEF Cleaning, At
    <3>2. ~Unwritten(j)'
      BY <1>2, <1>9, <3>1, UnwrittenShrinks
    <3> QED
      BY <1>6, <3>1, <3>2
  <2>2. Cleaning(c)'
    BY <1>2, <1>3, <1>7, <1>8, <2>1 DEF Cleaning, At
  <2> QED
    BY <1>2, <1>7, <1>8, <2>2 DEF CallInv, At
<1>14. /\ \A o \in Applied' : o \in Applied /\ o <= count'
       /\ acked' \subseteq Applied' /\ Applied \subseteq Applied'
  BY <1>2, <1>12 DEF StoreInv
<1>15. record' # None => /\ nodes'[record'.node] # None
                         /\ nodes'[record'.node].gen = record'.gen
  BY <1>2, <1>12 DEF StoreInv
<1>16. CacheInv'
  BY <1>2, <1>10, <1>11, OtherCaches
<1>17. \A d \in Callers : call'[d] = call[d] \/ CallInv(d)'
  BY <1>7, <1>13
<1>18. \A j \in Ids : nodes'[j] = nodes[j] \/ nodes'[j] = None
  BY <1>6
<1> QED
  BY <1>2, <1>9, <1>10, <1>11, <1>14, <1>15, <1>16, <1>17, <1>18, StepInv

LEMMA CrashInv ==
    ASSUME TypeInv, TypeInv', StoreInv, NEW s \in Stores, Crash(s)
    PROVE  StoreInv' /\ StateKept
<1>1. UNCHANGED <<record, nodes, count, acked>> /\ count <= count'
      /\ acked' \subseteq Applied
  BY Values DEF Crash, StoreInv
<1>2. \A c \in Callers : call'[c] = call[c] \/ call'[c] = Idle
  BY DEF Crash
<1>3. \A c \in Callers : Goes(c)
  <2>1. \A c \in Callers : call[c].try \in Nat
    BY Values
  <2>2. Idle.op = None
    BY DEF Idle
  <2> QED
    BY <1>2, <2>1, <2>2 DEF Goes
<1>4. \A c \in Callers : call'[c] = Idle => CallInv(c)'
  <2>1. Idle.pc = "idle"
    BY DEF Idle
  <2> QED
    BY <2>1 DEF CallInv, At
<1>5. CacheInv'
  <2>1. \A t \in Stores : cache'[t] = cache[t] \/ cache'[t] = None
    BY DEF Crash, TypeInv, TypeOK
  <2>2. Applied' = Applied
    BY <1>1 DEF Applied
  <2> QED
    BY <1>1, <2>1, <2>2 DEF CacheInv, StoreInv
<1> QED
  BY <1>1, <1>2, <1>3, <1>4, <1>5, QuietInv

LEMMA NextStoreInv ==
    ASSUME TypeInv, StoreInv, Deleters = {}, [Next]_vars
    PROVE  StoreInv' /\ StateKept
<1>1. TypeInv'
  BY NextTypeInv
<1>2. ASSUME NEW c \in Batchers \cup Admins, RunStep(c) \/ PoolStep(c)
      PROVE  StoreInv' /\ StateKept
  <2>1. c \in Callers
    BY DEF Callers
  <2>2. CASE RunStep(c)
    BY <1>1, <2>1, <2>2, RunInv, WorkInv, PutInv, CommitInv,
       WrongGenerationInv, SetCachedInv DEF RunStep
  <2>3. CASE PoolStep(c)
    BY <1>1, <2>3, CreateInv, CreatePutInv, CreateRecordInv, NoDelete
       DEF PoolStep
  <2> QED
    BY <1>2, <2>2, <2>3
<1>3. ASSUME NEW c \in Callers, Step(c)
      PROVE  StoreInv' /\ StateKept
  <2>1. CASE NodesDeleted(c) \/ Fail(c)
    <3>1. /\ Goto(c, Idle) /\ UNCHANGED <<record, nodes, cache, acked>>
          /\ count <= count'
      BY <2>1, Values DEF NodesDeleted, Fail, Return
    <3> QED
      BY <1>1, <1>3, <3>1, ReturnInv
  <2> QED
    BY <1>1, <1>3, <2>1, LoadInv, DeleteNodeInv DEF Step
<1>4. CASE UNCHANGED vars
  <2>1. count <= count
    BY Values
  <2>2. \A c \in Callers : call[c].try \in Nat
    BY Values
  <2>3. \A c \in Callers : Goes(c)
    BY <1>4, <2>2 DEF Goes, vars
  <2>4. CacheInv' /\ acked' \subseteq Applied
    BY <1>4 DEF vars, StoreInv, CacheInv, Applied
  <2> QED
    BY <1>1, <1>4, <2>1, <2>3, <2>4, QuietInv DEF vars
<1> QED
  BY <1>1, <1>2, <1>3, <1>4, CleanInv, CrashInv DEF Next

LEMMA InitStoreInv ==
    ASSUME Init
    PROVE  StoreInv
<1>1. Applied = {}
  BY DEF Init, Applied
<1>2. \A c \in Callers : call[c] = Idle
  BY DEF Init
<1>3. Idle.op = None /\ Idle.pc = "idle"
  BY DEF Idle
<1>4. \A c \in Callers : Begun(c) /\ CallInv(c)
  BY <1>1, <1>2, <1>3 DEF Begun, CallInv, At
<1> QED
  BY <1>1, <1>4 DEF Init, StoreInv, CacheInv

(* What the operations rely on, in every reachable state: the record names   *)
(* nodes of its generation, and an operation that can still commit works on  *)
(* the state there is.                                                       *)
THEOREM StoreInvariant ==
    ASSUME Deleters = {}
    PROVE  Spec => [](TypeInv /\ StoreInv)
<1>1. Init => TypeInv /\ StoreInv
  BY InitTypeInv, InitStoreInv
<1>2. TypeInv /\ StoreInv /\ [Next]_vars => (TypeInv /\ StoreInv)'
  BY NextTypeInv, NextStoreInv
<1> QED
  BY <1>1, <1>2, PTL DEF Spec

LEMMA ValueApplied ==
    ASSUME TypeInv, StoreInv
    PROVE  Value = IF record = None THEN None ELSE Applied
  BY DEF Value, Applied, StoreInv

(* A cached state of the current generation is the current state, and no     *)
(* cache is ahead of the record, whatever the processes do.                  *)
THEOREM StoreCacheCoherent ==
    ASSUME Deleters = {}
    PROVE  Spec => []CacheCoherent
<1>1. TypeInv /\ StoreInv => CacheCoherent
  BY ValueApplied DEF CacheCoherent, CacheInv, StoreInv
<1> QED
  BY <1>1, StoreInvariant, PTL

(* A cleanup does not delete what a load of a recent generation needs.       *)
THEOREM StoreLoadSurvives ==
    ASSUME Deleters = {}
    PROVE  Spec => []LoadSurvivesClean
<1>1. TypeInv /\ StoreInv => LoadSurvivesClean
  BY DEF LoadSurvivesClean, StoreInv, CallInv, Loading, At
<1> QED
  BY <1>1, StoreInvariant, PTL

(* The record never names nodes that are gone.                               *)
THEOREM StoreRecordHasNodes ==
    ASSUME Deleters = {}
    PROVE  Spec => []RecordHasNodes
<1>1. TypeInv /\ StoreInv => RecordHasNodes
  BY DEF RecordHasNodes, StoreInv
<1> QED
  BY <1>1, StoreInvariant, PTL

(* Every step is one of the atomic state's, or changes neither the state nor *)
(* what is acknowledged.                                                     *)
LEMMA StepIsAtomic ==
    ASSUME TypeInv, StoreInv, Deleters = {}, [Next]_vars
    PROVE  [Atomic!Next]_(Atomic!vars)
<1>1. StoreInv' /\ StateKept /\ TypeInv'
  BY NextStoreInv, NextTypeInv
<1>2. /\ Value = IF record = None THEN None ELSE Applied
      /\ Value' = IF record' = None THEN None ELSE Applied'
  <2>1. TypeInv' /\ StoreInv' => Value' = IF record' = None THEN None ELSE Applied'
    BY DEF Value, Applied, StoreInv
  <2> QED
    BY <1>1, <2>1, ValueApplied
<1>3. record' = record => Value' = Value
  BY <1>1, <1>2 DEF StateKept
<1>4. CASE record' = record /\ acked' = acked
  BY <1>3, <1>4 DEF Atomic!vars
<1>5. ASSUME NEW c \in Batchers \cup Admins, SetCached(c)
      PROVE  Atomic!Next
  <2>1. c \in Callers /\ c \notin Cleaners /\ call[c].pc = "set-cached"
    BY <1>5, StoreAssumption DEF Callers, SetCached, At
  <2>2. Committed(c) /\ Shape(c)
    BY <2>1 DEF StoreInv, TypeInv, CallInv, At
  <2>3. call[c].op \in Ops /\ Applied # None
    BY <2>1, <2>2, AppliedType, NoneAssumption DEF Shape, ShapeOf
  <2>4. /\ Value # None /\ call[c].op \in Value
        /\ Value' = Value /\ acked' = acked \cup {call[c].op}
    BY <1>2, <1>3, <1>5, <2>2, <2>3 DEF Committed, SetCached
  <2>5. Atomic!Acknowledge(call[c].op)
    BY <2>4 DEF Atomic!Acknowledge
  <2> QED
    BY <2>3, <2>5 DEF Atomic!Next
<1>6. ASSUME NEW c \in Batchers \cup Admins, Commit(c)
      PROVE  Atomic!Next
  <2>1. /\ record # None /\ call[c].op \in Ops /\ call[c].op \notin Applied
        /\ Applied' = Applied \cup {call[c].op}
    BY <1>6, CommitFacts
  <2>2. record' # None
    BY <2>1 DEF Applied
  <2>3. Applied # None
    BY AppliedType, NoneAssumption
  <2>4. /\ Value # None /\ call[c].op \notin Value
        /\ Value' = Value \cup {call[c].op} /\ acked' = acked
    BY <1>2, <1>6, <2>1, <2>2, <2>3 DEF Commit
  <2>5. Atomic!Apply(call[c].op)
    BY <2>4 DEF Atomic!Apply
  <2> QED
    BY <2>1, <2>5 DEF Atomic!Next
<1>7. ASSUME NEW c \in Batchers \cup Admins, CreateRecord(c)
      PROVE  Atomic!Next
  <2>1. record = None /\ record' # None /\ Applied' = {}
    BY <1>7, CreateRecordFacts
  <2>2. Value = None /\ Value' = {} /\ acked' = acked
    BY <1>2, <1>7, <2>1 DEF CreateRecord
  <2>3. Atomic!Create
    BY <2>2 DEF Atomic!Create
  <2> QED
    BY <2>3 DEF Atomic!Next
<1>8. ASSUME NEW c \in Batchers \cup Admins, RunStep(c) \/ PoolStep(c)
      PROVE  \/ record' = record /\ acked' = acked
             \/ SetCached(c) \/ Commit(c) \/ CreateRecord(c)
  BY <1>8, NoDelete
     DEF RunStep, PoolStep, Run, Modify, Marshal, Put, WrongGeneration,
         Create, CreatePut
<1>9. ASSUME NEW c \in Callers, Step(c)
      PROVE  record' = record /\ acked' = acked
  BY <1>9 DEF Step, LoadRecord, LoadNodes, DeleteNode, NodesDeleted, Fail
<1>10. ASSUME NEW c \in Cleaners, CleanStep(c)
       PROVE  record' = record /\ acked' = acked
  BY <1>10 DEF CleanStep, Clean, CleanLoaded, CleanQuery
<1>11. ASSUME NEW s \in Stores, Crash(s)
       PROVE  record' = record /\ acked' = acked
  BY <1>11 DEF Crash
<1>12. UNCHANGED vars => record' = record /\ acked' = acked
  BY DEF vars
<1> QED
  BY <1>4, <1>5, <1>6, <1>7, <1>8, <1>9, <1>10, <1>11, <1>12 DEF Next

(* Run is a compare-and-swap: the operators are applied one after the other, *)
(* each at most once, and an operator whose Run returned nil has been.       *)
THEOREM StoreRunIsAtomic ==
    ASSUME Deleters = {}
    PROVE  Spec => RunIsAtomic
<1>1. Init => Atomic!Init
  BY DEF Init, Atomic!Init, Value
<1>2. TypeInv /\ StoreInv /\ [Next]_vars => [Atomic!Next]_(Atomic!vars)
  BY StepIsAtomic
<1>3. Spec => [](TypeInv /\ StoreInv)
  BY StoreInvariant
<1> QED
  BY <1>1, <1>2, <1>3, PTL DEF Spec, RunIsAtomic, Atomic!Spec

-----------------------------------------------------------------------------
(* A caller on his own, who may delete the pool.                             *)

(* The nodes to which he is about to point the record are there; when he     *)
(* deletes nodes the record is gone, and a cleanup never sees one.           *)
SoleInv(a) ==
    /\ RecordHasNodes
    /\ a \in Cleaners => record = None
    /\ call[a].pc \in {"txn", "create-txn"} => nodes[call[a].node] # None
    /\ call[a].pc \in {"delete-query", "delete-nodes"} => record = None

\* A step of his that leaves the record and the nodes alone.
LEMMA SoleGoto ==
    ASSUME NEW a \in Callers, SoleInv(a), record' = record, nodes' = nodes,
           call'[a].pc \notin {"txn", "create-txn"},
           call'[a].pc \in {"delete-query", "delete-nodes"} => record = None
    PROVE  SoleInv(a)'
BY DEF SoleInv, RecordHasNodes

\* Nodes are written before the record points to them.
LEMMA SoleWrites ==
    ASSUME TypeInv, NEW a \in Callers, SoleInv(a), a \notin Cleaners,
           Put(a) \/ CreatePut(a)
    PROVE  SoleInv(a)'
<1>1. TypeOK /\ Shape(a) /\ call[a] \in CallType
  BY DEF TypeInv, TypeOK
<1>2. IdOf(a) \in Ids
  <2>1. call[a].pc # "idle"
    BY DEF Put, CreatePut, At
  <2> QED
    BY <1>1, <2>1 DEF Shape, ShapeOf, IdOf, Ids, CallType
<1>3. PICK n \in NodeType, pc \in {"txn", "create-txn"} :
        /\ nodes' = [nodes EXCEPT ![IdOf(a)] = n]
        /\ Goto(a, [call[a] EXCEPT !.pc = pc, !.node = IdOf(a)])
        /\ record' = record
  <2>1. CASE Put(a)
    <3> DEFINE n == [gen |-> call[a].gen + 1, sched |-> call[a].sched, recon |-> call[a].recon]
    <3>1. n \in NodeType
      BY <1>1 DEF CallType, NodeType, Gens
    <3> QED
      BY <2>1, <3>1 DEF Put
  <2>2. CASE CreatePut(a)
    <3>1. [gen |-> 0, sched |-> {}, recon |-> {}] \in NodeType
      BY DEF NodeType, Gens
    <3> QED
      BY <2>2, <3>1 DEF CreatePut
  <2> QED
    BY <2>1, <2>2
<1>4. n # None
  BY NoneAssumption
<1>5. call'[a].pc = pc /\ call'[a].node = IdOf(a)
  <2>1. call'[a] = [call[a] EXCEPT !.pc = pc, !.node = IdOf(a)]
    BY <1>1, <1>3, GotoCall
  <2> QED
    BY <1>1, <2>1 DEF CallType
<1>6. nodes'[IdOf(a)] # None /\ \A i \in Ids : nodes[i] # None => nodes'[i] # None
  BY <1>1, <1>2, <1>3, <1>4 DEF TypeOK
<1>7. record # None => record.node \in Ids
  BY <1>1 DEF TypeOK, RecordType
<1> QED
  BY <1>3, <1>5, <1>6, <1>7 DEF SoleInv, RecordHasNodes

\* Nodes are deleted when there is no record.
LEMMA SoleDeletes ==
    ASSUME TypeInv, NEW a \in Callers, SoleInv(a), DeleteNode(a)
    PROVE  SoleInv(a)'
<1>1. PICK i \in call[a].keys :
        /\ At(a, "delete-nodes") /\ Goto(a, [call[a] EXCEPT !.keys = @ \ {i}])
        /\ record' = record
  BY DEF DeleteNode
<1>2. call[a] \in CallType /\ call'[a] = [call[a] EXCEPT !.keys = @ \ {i}]
  BY <1>1, GotoCall DEF TypeInv, TypeOK
<1>3. call'[a].pc = "delete-nodes" /\ record' = None
  BY <1>1, <1>2 DEF CallType, SoleInv, At
<1> QED
  BY <1>3 DEF SoleInv, RecordHasNodes

\* Every step of one caller, or of a process that stops.
LEMMA SoleNext ==
    ASSUME NEW a, Callers = {a}, TypeInv, SoleInv(a), [Next]_vars
    PROVE  SoleInv(a)'
<1>1. /\ a \in Callers /\ call[a] \in CallType /\ call \in [Callers -> CallType] /\ TypeOK
      /\ \A c \in Callers : c = a
  BY DEF TypeInv, TypeOK
<1>2. Idle.pc = "idle"
  BY DEF Idle
<1>3. CASE a \in Batchers \cup Admins /\ (RunStep(a) \/ PoolStep(a))
  <2>1. a \notin Cleaners
    BY <1>3, StoreAssumption
  <2>2. CASE Run(a)
    <3>1. call'[a].pc \in {"modify", "load"}
      BY <1>1, <2>2 DEF Goto, Run, Idle
    <3> QED
      BY <1>1, <2>2, <3>1, SoleGoto DEF Run
  <2>3. CASE Modify(a) \/ Marshal(a)
    <3>1. call'[a].pc \in {"marshal", "put"}
      BY <1>1, <2>3 DEF Goto, Modify, Marshal, CallType
    <3> QED
      BY <1>1, <2>3, <3>1, SoleGoto DEF Modify, Marshal
  <2>4. CASE Put(a) \/ CreatePut(a)
    BY <1>1, <2>1, <2>4, SoleWrites
  <2>5. CASE Commit(a)
    <3>1. PICK pc \in {"set-cached", "lost"} : Goto(a, [call[a] EXCEPT !.pc = pc])
      BY <2>5 DEF Commit
    <3>2. call'[a].pc \in {"set-cached", "lost"}
      BY <1>1, <3>1 DEF Goto, CallType
    <3>3. nodes[call[a].node] # None /\ nodes' = nodes /\ record'.node = call[a].node
      BY <2>5 DEF Commit, SoleInv, At
    <3> QED
      BY <2>1, <3>2, <3>3 DEF SoleInv, RecordHasNodes
  <2>6. CASE WrongGeneration(a) \/ SetCached(a)
    <3>1. WrongGeneration(a) => call'[a].pc \in {"load", "idle"}
      <4>1. CASE call[a].try < MaxAttempts
        BY <1>1, <4>1 DEF Goto, WrongGeneration, Idle
      <4>2. CASE ~(call[a].try < MaxAttempts)
        BY <1>1, <1>2, <4>2 DEF Goto, WrongGeneration, Return
      <4> QED
        BY <4>1, <4>2
    <3>2. SetCached(a) => call'[a] = Idle
      BY <1>1 DEF Goto, SetCached, Return
    <3> QED
      BY <1>1, <1>2, <2>6, <3>1, <3>2, SoleGoto DEF WrongGeneration, SetCached
  <2>7. CASE Create(a)
    <3>1. call'[a].pc = "create-put"
      BY <1>1, <2>7 DEF Goto, Create, Idle
    <3> QED
      BY <1>1, <2>7, <3>1, SoleGoto DEF Create
  <2>8. CASE CreateRecord(a)
    <3>1. call'[a] = Idle
      BY <1>1, <2>8 DEF Goto, CreateRecord, Return
    <3>2. nodes[call[a].node] # None /\ nodes' = nodes /\ record'.node = call[a].node
      BY <2>8 DEF CreateRecord, SoleInv, At
    <3> QED
      BY <1>2, <2>1, <3>1, <3>2 DEF SoleInv, RecordHasNodes
  <2>9. CASE Delete(a)
    <3>1. call'[a].pc = IF record = None THEN "delete-query" ELSE "delete-record"
      BY <1>1, <2>9 DEF Goto, Delete, Idle
    <3> QED
      BY <1>1, <2>9, <3>1, SoleGoto DEF Delete
  <2>10. CASE DeleteRecord(a)
    <3>1. record' = None /\ Goto(a, [call[a] EXCEPT !.pc = "delete-query"])
      BY <2>10 DEF DeleteRecord
    <3>2. call'[a].pc = "delete-query"
      BY <1>1, <3>1 DEF Goto, CallType
    <3> QED
      BY <3>1, <3>2 DEF SoleInv, RecordHasNodes
  <2>11. CASE DeleteQuery(a)
    <3>1. call'[a].pc = "delete-nodes"
      BY <1>1, <2>11 DEF Goto, DeleteQuery, CallType
    <3>2. record = None
      BY <2>11 DEF DeleteQuery, SoleInv, At
    <3> QED
      BY <1>1, <2>11, <3>1, <3>2, SoleGoto DEF DeleteQuery
  <2> QED
    BY <1>3, <2>2, <2>3, <2>4, <2>5, <2>6, <2>7, <2>8, <2>9, <2>10, <2>11 DEF RunStep, PoolStep
<1>4. CASE a \in Cleaners /\ CleanStep(a)
  <2>1. call'[a].pc \in {"load", "delete-query", "delete-nodes"}
    <3>1. Clean(a) => call'[a].pc = "load"
      BY <1>1 DEF Goto, Clean, Idle
    <3>2. CleanLoaded(a) => call'[a].pc = "delete-query"
      BY <1>1 DEF Goto, CleanLoaded, Idle
    <3>3. CleanQuery(a) => call'[a].pc = "delete-nodes"
      BY <1>1 DEF Goto, CleanQuery, CallType
    <3> QED
      BY <1>4, <3>1, <3>2, <3>3 DEF CleanStep
  <2>2. record = None
    BY <1>4 DEF SoleInv
  <2> QED
    BY <1>1, <1>4, <2>1, <2>2, SoleGoto DEF CleanStep, Clean, CleanLoaded, CleanQuery
<1>5. CASE Step(a)
  <2>1. CASE LoadRecord(a) \/ LoadNodes(a)
    <3>1. LoadRecord(a) => call'[a].pc = "load-nodes"
      BY <1>1 DEF Goto, LoadRecord, CallType
    <3>2. LoadNodes(a) => call'[a].pc = "modify"
      BY <1>1 DEF Goto, LoadNodes, CallType
    <3> QED
      BY <1>1, <2>1, <3>1, <3>2, SoleGoto DEF LoadRecord, LoadNodes
  <2>2. CASE DeleteNode(a)
    BY <1>1, <2>2, SoleDeletes
  <2>3. CASE NodesDeleted(a) \/ Fail(a)
    <3>1. call'[a] = Idle
      BY <1>1, <2>3 DEF Goto, NodesDeleted, Fail, Return
    <3> QED
      BY <1>1, <1>2, <2>3, <3>1, SoleGoto DEF NodesDeleted, Fail
  <2> QED
    BY <1>5, <2>1, <2>2, <2>3 DEF Step
<1>6. ASSUME NEW s \in Stores, Crash(s) PROVE SoleInv(a)'
  <2>1. (call'[a] = Idle \/ call'[a] = call[a]) /\ record' = record /\ nodes' = nodes
    BY <1>1, <1>6 DEF Crash
  <2> QED
    BY <1>2, <2>1 DEF SoleInv, RecordHasNodes
<1>7. CASE UNCHANGED vars
  BY <1>7 DEF vars, SoleInv, RecordHasNodes
<1> QED
  BY <1>1, <1>3, <1>4, <1>5, <1>6, <1>7 DEF Next, Callers

(* The record never names nodes that are gone, even if the pool is deleted   *)
(* and created again, whatever fails or crashes half way: for a caller whose *)
(* operations no other one overlaps.                                         *)
THEOREM StoreRecordHasNodesAlone ==
    ASSUME NEW a, Callers = {a}
    PROVE  Spec => []RecordHasNodes
<1>1. Init => SoleInv(a)
  BY DEF Init, SoleInv, RecordHasNodes, Idle
<1>2. TypeInv /\ SoleInv(a) /\ [Next]_vars => TypeInv' /\ SoleInv(a)'
  BY NextTypeInv, SoleNext
<1>3. Spec => [](TypeInv /\ SoleInv(a))
  BY <1>1, <1>2, InitTypeInv, PTL DEF Spec
<1>4. SoleInv(a) => RecordHasNodes
  BY DEF SoleInv
<1> QED
  BY <1>3, <1>4, PTL
=============================================================================
