------------------------- MODULE TaskNumbersProofs -------------------------
(* Proofs about the assignment of task numbers, for every finite set of      *)
(* instances, every expiry and every bound on the clock.                     *)
EXTENDS TaskNumbers, FiniteSetTheorems, TLAPS

-----------------------------------------------------------------------------
(* The inductive invariant.                                                  *)

(* An instance that may be given a number: nothing was sent for it since its *)
(* metrics were reset, and its entity has no number.                         *)
Free(i) ==
    /\ base[i] = Unassigned
    /\ ~Flushing(i)
    /\ entity[i] = None \/ entity[i].num = Unassigned

(* What an instance has sent, is sending and will flush next goes under one  *)
(* number, or its entity is gone.                                            *)
OneNumber(i) ==
    /\ base[i] # Unassigned =>
          /\ target[i] # Unassigned
          /\ entity[i] = None \/ entity[i].num = base[i]
    /\ Flushing(i) =>
          /\ flush[i].num # Unassigned /\ target[i] = flush[i].num
          /\ base[i] \in {Unassigned, flush[i].num}
          /\ entity[i] = None \/ entity[i].num = flush[i].num

Assigned(view, i, n) == view[i] # None /\ view[i].num = n

(* A number that an instance may be using, but for a flush from before the   *)
(* end of the last run of the cron.                                          *)
Uses(i, n) == Assigned(entity, i, n) \/ (Flushing(i) /\ ~flush[i].old /\ flush[i].num = n)

(* Between two runs of the cron: whichever of the two versions of an entity  *)
(* the query will see, it finds each number that a serving instance uses,    *)
(* and an instance that waits in either version is free to get one.          *)
Visible(i) ==
    /\ Assigned(settled, i, Unassigned) => Free(i)
    /\ i \in alive => \A n \in Numbers :
           Uses(i, n) => Assigned(entity, i, n) /\ Assigned(settled, i, n)

(* The numbers that a run is about to give are for instances that are free,  *)
(* all different, and nobody else's who serves.                              *)
PutFits(p) ==
    /\ Free(p[1]) /\ p[2].num \in Numbers
    /\ \A q \in cron.puts : q # p => q[1] # p[1] /\ q[2].num # p[2].num
    /\ \A k \in alive : k # p[1] => p[2].num \notin Claims(k)

NumbersInv ==
    /\ TypeOK
    /\ \A i \in Instances : OneNumber(i)
    /\ cron.pc = "idle" => cron.puts = {} /\ cron.deletes = {}
    /\ cron.pc = "idle" => \A i \in Instances : Visible(i)
    /\ \A p \in cron.puts : PutFits(p)
    /\ NumbersUnique

-----------------------------------------------------------------------------
(* Constants and types.                                                      *)

Flush == [todo : SUBSET {"put", "send"}, num : TaskNums, updated : 0 .. MaxTime, old : BOOLEAN]

\* Unassigned is no number, and None no entity.
LEMMA NumberTypes ==
    /\ Numbers \subseteq Nat /\ Unassigned \notin Numbers
    /\ Unassigned \in TaskNums /\ 0 \in 0 .. MaxTime
    /\ None \notin Instance /\ NoFlush \in Flush
<1>1. Cardinality(Instances) \in Nat
  BY TaskNumbersAssumption, FS_CardinalityType
<1>2. Numbers \subseteq Nat /\ Unassigned \notin Numbers /\ Unassigned \in TaskNums
  BY <1>1 DEF Numbers, Unassigned, TaskNums
<1> QED
  BY <1>2, TaskNumbersAssumption DEF NoFlush, Flush

\* What an entity has when it is there, and what a flush in progress has.
LEMMA FieldTypes ==
    ASSUME TypeOK, NEW i \in Instances
    PROVE  /\ now \in 0 .. MaxTime
           /\ entity[i] # None => entity[i] \in Instance /\ entity[i].num \in TaskNums
           /\ settled[i] # None => settled[i] \in Instance /\ settled[i].num \in TaskNums
           /\ flush[i] \in Flush
           /\ target[i] \in TaskNums /\ base[i] \in TaskNums
BY DEF TypeOK, Instance, Flush

\* At first no instance has an entity.
LEMMA InitNumbers == Init => NumbersInv
<1> SUFFICES ASSUME Init PROVE NumbersInv
  OBVIOUS
<1> USE NumberTypes DEF Init
<1>1. TypeOK
  BY DEF TypeOK, NoRun, Flush
<1>2. ASSUME NEW i \in Instances
      PROVE  /\ entity[i] = None /\ settled[i] = None /\ base[i] = Unassigned
             /\ ~Flushing(i)
  BY DEF NoFlush, Flushing
<1>3. cron.puts = {} /\ cron.deletes = {}
  BY DEF NoRun
<1>4. \A i \in Instances : OneNumber(i) /\ Visible(i)
  BY <1>2 DEF OneNumber, Visible, Uses, Assigned
<1>5. NumbersUnique
  BY <1>2 DEF NumbersUnique, Claims
<1> QED
  BY <1>1, <1>3, <1>4, <1>5 DEF NumbersInv

-----------------------------------------------------------------------------
(* Steps of one instance.                                                    *)

Same(k) ==
    /\ entity'[k] = entity[k] /\ settled'[k] = settled[k]
    /\ target'[k] = target[k] /\ flush'[k] = flush[k] /\ base'[k] = base[k]

\* What is said of an instance stays true while nothing of it changes.
LEMMA SameKept ==
    ASSUME NEW k \in Instances, Same(k)
    PROVE  /\ OneNumber(k) => OneNumber(k)'
           /\ Free(k) => Free(k)'
           /\ Claims(k)' = Claims(k)
           /\ Visible(k) /\ (k \in alive' => k \in alive) => Visible(k)'
<1> USE DEF Same
<1>1. OneNumber(k) => OneNumber(k)'
  BY DEF OneNumber, Flushing
<1>2. Free(k)' = Free(k)
  BY DEF Free, Flushing
<1>3. Claims(k)' = Claims(k)
  BY DEF Claims, Flushing
<1>4. \A n \in Numbers : Uses(k, n)' = Uses(k, n)
  BY DEF Uses, Assigned, Flushing
<1>5. \A n : Assigned(entity, k, n)' = Assigned(entity, k, n)
             /\ Assigned(settled, k, n)' = Assigned(settled, k, n)
  BY DEF Assigned
<1>6. Visible(k) /\ (k \in alive' => k \in alive) => Visible(k)'
  BY <1>2, <1>4, <1>5 DEF Visible
<1> QED
  BY <1>1, <1>2, <1>3, <1>6

\* A step of one instance that takes no number and leaves it free if it was.
LEMMA InstanceStepInv ==
    ASSUME NumbersInv, TypeOK', NEW i \in Instances,
           alive' \subseteq alive,
           cron'.pc = cron.pc, cron'.puts = cron.puts, cron'.deletes \subseteq cron.deletes,
           \A k \in Instances : k # i => Same(k),
           OneNumber(i)',
           Free(i) => Free(i)',
           i \in alive' => Claims(i)' \subseteq Claims(i) \cup {Unassigned},
           cron.pc = "idle" => Visible(i)'
    PROVE  NumbersInv'
<1>1. alive \subseteq Instances /\ cron.puts \subseteq Instances \X Instance
  BY DEF NumbersInv, TypeOK
<1>2. \A k \in Instances : OneNumber(k)' /\ (Free(k) => Free(k)')
  BY SameKept DEF NumbersInv
<1>3. \A k \in alive' : Claims(k)' \subseteq Claims(k) \cup {Unassigned}
  BY <1>1, SameKept
<1>4. cron.pc = "idle" => \A k \in Instances : Visible(k)'
  BY SameKept DEF NumbersInv
<1>5. ASSUME NEW p \in cron.puts PROVE PutFits(p)'
  <2>1. PutFits(p) /\ p[1] \in Instances
    BY <1>1 DEF NumbersInv
  <2>2. Free(p[1])'
    BY <1>2, <2>1 DEF PutFits
  <2>3. ASSUME NEW k \in alive', k # p[1] PROVE p[2].num \notin Claims(k)'
    BY <1>3, <2>1, <2>3, NumberTypes DEF PutFits
  <2> QED
    BY <2>1, <2>2, <2>3 DEF PutFits
<1>6. NumbersUnique'
  <2> SUFFICES ASSUME NEW j \in alive', NEW k \in alive', j # k
               PROVE  Claims(j)' \cap Claims(k)' \subseteq {Unassigned}
    BY DEF NumbersUnique
  <2>1. Claims(j) \cap Claims(k) \subseteq {Unassigned}
    BY DEF NumbersInv, NumbersUnique
  <2> QED
    BY <1>3, <2>1
<1> QED
  BY <1>2, <1>4, <1>5, <1>6 DEF NumbersInv

\* An instance learns that it has no number, and forgets what it has sent.
LEMMA FlushUnassignedInv ==
    ASSUME NumbersInv, NEW i \in Instances, FlushUnassigned(i)
    PROVE  NumbersInv'
<1> USE DEF FlushUnassigned
<1>1. /\ TypeOK /\ OneNumber(i) /\ (cron.pc = "idle" => Visible(i))
      /\ now \in 0 .. MaxTime /\ alive \subseteq Instances
  BY DEF NumbersInv, TypeOK
<1>2. Got(i) \in Instance /\ Got(i) # None /\ Got(i).num = Unassigned
  BY <1>1, NumberTypes, FieldTypes DEF Got, Instance
<1>3. /\ entity'[i] = Got(i) /\ target'[i] = Unassigned /\ base'[i] = Unassigned
      /\ settled'[i] = settled[i] /\ flush'[i] = flush[i] /\ ~Flushing(i)
  BY <1>1 DEF Write, TypeOK, OneNumber
<1>4. TypeOK'
  BY <1>1, <1>2, NumberTypes DEF TypeOK, Write
<1>5. \A k \in Instances : k # i => Same(k)
  BY <1>1 DEF Same, Write, TypeOK
<1>6. Free(i)' /\ OneNumber(i)'
  BY <1>2, <1>3 DEF Free, OneNumber, Flushing
<1>7. Claims(i)' = {Unassigned}
  BY <1>2, <1>3 DEF Claims, Flushing
<1>8. cron.pc = "idle" => Visible(i)'
  BY <1>2, <1>3, <1>6, NumberTypes DEF Visible, Uses, Assigned, Flushing
<1> QED
  BY <1>4, <1>5, <1>6, <1>7, <1>8, InstanceStepInv

\* A flush starts under the number of the entity.
LEMMA FlushStartInv ==
    ASSUME NumbersInv, NEW i \in Instances, FlushStart(i)
    PROVE  NumbersInv'
<1> USE DEF FlushStart
<1>1. /\ TypeOK /\ OneNumber(i) /\ (cron.pc = "idle" => Visible(i))
      /\ now \in 0 .. MaxTime /\ alive \subseteq Instances
  BY DEF NumbersInv, TypeOK
<1>2. entity[i] # None /\ Got(i) = entity[i] /\ entity[i].num \in Numbers
  BY <1>1, NumberTypes, FieldTypes DEF Got, TaskNums
<1>3. /\ target'[i] = entity[i].num
      /\ flush'[i] = [todo |-> {"put", "send"}, num |-> entity[i].num,
                      updated |-> now, old |-> FALSE]
      /\ entity' = entity /\ settled' = settled /\ base' = base
  BY <1>1, <1>2 DEF TypeOK
<1>4. TypeOK'
  BY <1>1, <1>2, NumberTypes DEF TypeOK, TaskNums
<1>5. \A k \in Instances : k # i => Same(k)
  BY <1>1 DEF Same, TypeOK
<1>6. OneNumber(i)' /\ Flushing(i)' /\ ~Free(i)
  BY <1>1, <1>2, <1>3, NumberTypes DEF OneNumber, Flushing, Free
<1>7. Claims(i)' \subseteq Claims(i)
  BY <1>2, <1>3 DEF Claims, Flushing
<1>8. cron.pc = "idle" => Visible(i)'
  BY <1>1, <1>2, <1>3, <1>6 DEF Visible, Uses, Assigned, Flushing
<1> QED
  BY <1>4, <1>5, <1>6, <1>7, <1>8, InstanceStepInv

\* After one of its two calls a flush is over, or goes on as it was.
LEMMA DidFlush ==
    ASSUME TypeOK, NEW i \in Instances, NEW what \in flush[i].todo, Did(i, what)
    PROVE  /\ flush' \in [Instances -> Flush]
           /\ \A k \in Instances : k # i => flush'[k] = flush[k]
           /\ Flushing(i)
           /\ Flushing(i)' => flush'[i].num = flush[i].num /\ flush'[i].old = flush[i].old
<1>1. flush \in [Instances -> Flush] /\ NoFlush \in Flush
  BY NumberTypes DEF TypeOK, Flush
<1> DEFINE left == flush[i].todo \ {what}
           rest == [flush[i] EXCEPT !.todo = left]
<1>2. rest \in Flush /\ rest.num = flush[i].num /\ rest.old = flush[i].old
  BY <1>1 DEF Flush
<1>3. flush' = [flush EXCEPT ![i] = IF left = {} THEN NoFlush ELSE rest]
  BY DEF Did
<1> HIDE DEF left, rest
<1>4. flush'[i] = IF left = {} THEN NoFlush ELSE rest
  BY <1>1, <1>3
<1>5. Flushing(i)' => flush'[i] = rest
  BY <1>4 DEF Flushing, NoFlush
<1> QED
  BY <1>1, <1>2, <1>3, <1>5 DEF Flushing

\* The put of a flush: if the entity was deleted meanwhile, it is back.
LEMMA FlushPutInv ==
    ASSUME NumbersInv, NEW i \in Instances, FlushPut(i)
    PROVE  NumbersInv'
<1> DEFINE e == [num |-> flush[i].num, updated |-> flush[i].updated]
<1> USE DEF FlushPut
<1>1. /\ TypeOK /\ OneNumber(i) /\ (cron.pc = "idle" => Visible(i))
      /\ flush[i] \in Flush
  BY FieldTypes DEF NumbersInv
<1>2. /\ flush' \in [Instances -> Flush] /\ Flushing(i)
      /\ \A k \in Instances : k # i => flush'[k] = flush[k]
      /\ Flushing(i)' => flush'[i].num = flush[i].num /\ flush'[i].old = flush[i].old
  BY <1>1, DidFlush
<1>3. e \in Instance /\ e # None /\ e.num = flush[i].num /\ e.num \in Numbers
  BY <1>1, <1>2, NumberTypes DEF Flush, Instance, OneNumber, TaskNums
<1>4. /\ Write(i, e) /\ settled' = IF flush[i].old THEN [settled EXCEPT ![i] = e] ELSE settled
      /\ UNCHANGED <<now, alive, target, cron, base>>
  OBVIOUS
<1> HIDE DEF e, FlushPut
<1>5. /\ entity'[i] = e /\ settled'[i] = IF flush[i].old THEN e ELSE settled[i]
      /\ target'[i] = target[i] /\ base'[i] = base[i]
  BY <1>1, <1>4 DEF TypeOK, Write
<1>6. TypeOK'
  BY <1>1, <1>2, <1>3, <1>4 DEF TypeOK, Write, Flush
<1>7. \A k \in Instances : k # i => Same(k)
  BY <1>1, <1>2, <1>4 DEF Same, Write, TypeOK
<1>8. OneNumber(i)' /\ ~Free(i)
  BY <1>1, <1>2, <1>3, <1>5, NumberTypes DEF OneNumber, Free
<1>9. Claims(i)' \subseteq Claims(i)
  BY <1>2, <1>3, <1>5 DEF Claims
<1>10. cron.pc = "idle" => Visible(i)'
  <2> SUFFICES ASSUME cron.pc = "idle" PROVE Visible(i)'
    OBVIOUS
  <2>1. Visible(i) /\ alive' = alive
    BY <1>1, <1>4
  <2>2. ~Assigned(settled, i, Unassigned)'
    BY <1>3, <1>5, <1>8, <2>1, NumberTypes DEF Visible, Assigned
  <2>3. ASSUME NEW n \in Numbers, Uses(i, n)' PROVE n = flush[i].num
    BY <1>2, <1>3, <1>5, <2>3 DEF Uses, Assigned
  <2>4. entity'[i] # None /\ entity'[i].num = flush[i].num
    BY <1>3, <1>5
  <2>5. i \in alive => settled'[i] # None /\ settled'[i].num = flush[i].num
    BY <1>2, <1>3, <1>5, <2>1 DEF Visible, Uses, Assigned
  <2>6. ASSUME i \in alive, NEW n \in Numbers, Uses(i, n)'
        PROVE  Assigned(entity, i, n)' /\ Assigned(settled, i, n)'
    BY <2>3, <2>4, <2>5, <2>6 DEF Assigned
  <2> QED
    BY <2>1, <2>2, <2>6 DEF Visible
<1> QED
  BY <1>4, <1>6, <1>7, <1>8, <1>9, <1>10, InstanceStepInv

\* The metrics are sent, under the number of the flush.
LEMMA FlushSendInv ==
    ASSUME NumbersInv, NEW i \in Instances, FlushSend(i)
    PROVE  NumbersInv'
<1> USE DEF FlushSend
<1>1. /\ TypeOK /\ OneNumber(i) /\ (cron.pc = "idle" => Visible(i))
      /\ flush[i] \in Flush
  BY FieldTypes DEF NumbersInv
<1>2. /\ flush' \in [Instances -> Flush] /\ Flushing(i)
      /\ \A k \in Instances : k # i => flush'[k] = flush[k]
      /\ Flushing(i)' => flush'[i].num = flush[i].num /\ flush'[i].old = flush[i].old
  BY <1>1, DidFlush
<1>3. /\ base' = [base EXCEPT ![i] = flush[i].num]
      /\ UNCHANGED <<now, entity, settled, alive, target, cron>>
  OBVIOUS
<1> HIDE DEF FlushSend
<1>4. base'[i] = flush[i].num /\ flush[i].num \in TaskNums
  BY <1>1, <1>3 DEF TypeOK, Flush
<1>5. TypeOK'
  BY <1>1, <1>2, <1>3, <1>4 DEF TypeOK, Flush
<1>6. \A k \in Instances : k # i => Same(k)
  BY <1>1, <1>2, <1>3 DEF Same, TypeOK
<1>7. OneNumber(i)' /\ ~Free(i)
  BY <1>1, <1>2, <1>3, <1>4 DEF OneNumber, Free
<1>8. Claims(i)' \subseteq Claims(i)
  BY <1>2, <1>3 DEF Claims
<1>9. ASSUME cron.pc = "idle" PROVE Visible(i)'
  BY <1>1, <1>2, <1>3, <1>7, <1>9 DEF Visible, Uses, Assigned
<1> QED
  BY <1>3, <1>5, <1>6, <1>7, <1>8, <1>9, InstanceStepInv

\* A flush fails, and its metrics are not sent or not known to be.
LEMMA FlushFailsInv ==
    ASSUME NumbersInv, NEW i \in Instances, FlushFails(i)
    PROVE  NumbersInv'
<1> USE DEF FlushFails
<1>1. TypeOK /\ OneNumber(i) /\ (cron.pc = "idle" => Visible(i))
  BY DEF NumbersInv
<1>2. /\ flush'[i] = NoFlush /\ ~Flushing(i)' /\ Flushing(i)
      /\ UNCHANGED <<now, entity, settled, alive, target, cron, base>>
  BY <1>1 DEF TypeOK, Flushing, NoFlush
<1>3. TypeOK'
  BY <1>1, NumberTypes DEF TypeOK, Flush
<1>4. \A k \in Instances : k # i => Same(k)
  BY <1>1 DEF Same, TypeOK
<1>5. OneNumber(i)' /\ ~Free(i)
  BY <1>1, <1>2 DEF OneNumber, Free
<1>6. Claims(i)' \subseteq Claims(i)
  BY <1>2 DEF Claims
<1>7. ASSUME cron.pc = "idle" PROVE Visible(i)'
  BY <1>1, <1>2, <1>5, <1>7 DEF Visible, Uses, Assigned
<1> QED
  BY <1>2, <1>3, <1>4, <1>5, <1>6, <1>7, InstanceStepInv

\* An instance goes, and with a shutdown its entity too.
LEMMA GoneInv ==
    ASSUME NumbersInv, NEW i \in Instances, Shutdown(i) \/ Vanish(i)
    PROVE  NumbersInv'
<1>1. TypeOK /\ OneNumber(i) /\ (cron.pc = "idle" => Visible(i))
  BY DEF NumbersInv
<1>2. /\ alive' = alive \ {i} /\ entity' \in {entity, [entity EXCEPT ![i] = None]}
      /\ UNCHANGED <<now, settled, target, flush, cron, base>>
  BY DEF Shutdown, Vanish, Write
<1>3. entity'[i] \in {None, entity[i]}
  BY <1>1, <1>2 DEF TypeOK
<1>4. TypeOK'
  BY <1>1, <1>2 DEF TypeOK
<1>5. \A k \in Instances : k # i => Same(k)
  BY <1>1, <1>2 DEF Same, TypeOK
<1>6. OneNumber(i)' /\ (Free(i) => Free(i)')
  BY <1>1, <1>2, <1>3 DEF OneNumber, Free, Flushing
<1>7. ASSUME cron.pc = "idle" PROVE Visible(i)'
  BY <1>1, <1>2, <1>6, <1>7 DEF Visible, Assigned
<1> QED
  BY <1>2, <1>4, <1>5, <1>6, <1>7, InstanceStepInv

-----------------------------------------------------------------------------
(* Steps of the cron.                                                        *)

\* An instance that waits in what the query has seen is free.
LEMMA WaitingIsFree ==
    ASSUME NumbersInv, cron.pc = "idle", NEW view, NEW i \in Waiting(view),
           view[i] \in {entity[i], settled[i]}
    PROVE  i \in Instances /\ Free(i)
<1>1. /\ i \in Instances /\ view[i] # None /\ view[i].num = Unassigned
      /\ OneNumber(i) /\ Visible(i)
  BY DEF Waiting, NumbersInv
<1>2. CASE view[i] = entity[i]
  BY <1>1, <1>2 DEF OneNumber, Free
<1>3. CASE view[i] = settled[i]
  BY <1>1, <1>3 DEF Visible, Assigned
<1> QED
  BY <1>1, <1>2, <1>3

\* A number that a serving instance has is used in what the query has seen.
LEMMA ClaimedIsUsed ==
    ASSUME NumbersInv, cron.pc = "idle", NEW view, NEW k \in alive, ~flush[k].old,
           view[k] \in {entity[k], settled[k]}, NEW n \in Numbers, n \in Claims(k)
    PROVE  n \in Used(view)
<1>1. k \in Instances /\ Visible(k)
  BY DEF NumbersInv, TypeOK
<1>2. Uses(k, n)
  BY DEF Claims, Uses, Assigned
<1>3. view[k] # None /\ view[k].num = n
  BY <1>1, <1>2 DEF Visible, Assigned
<1> QED
  BY <1>1, <1>3, NumberTypes DEF Used

\* The query and the decisions: gaps go to instances that wait.
LEMMA CronQueryInv ==
    ASSUME NumbersInv, CronQuery
    PROVE  NumbersInv'
<1>0. PICK view \in [Instances -> Instance \cup {None}] :
        /\ \A i \in Instances : view[i] \in {entity[i], settled[i]}
        /\ \E num \in [Waiting(view) -> Gaps(Used(view), Cardinality(Waiting(view)))] :
             /\ \A i, k \in Waiting(view) : num[i] = num[k] => i = k
             /\ cron' = [pc |-> "running",
                         puts |-> {<<i, [view[i] EXCEPT !.num = num[i]]>> : i \in Waiting(view)},
                         deletes |-> Expired(view)]
  BY DEF CronQuery
<1>1. PICK num \in [Waiting(view) -> Gaps(Used(view), Cardinality(Waiting(view)))] :
        /\ \A i, k \in Waiting(view) : num[i] = num[k] => i = k
        /\ cron' = [pc |-> "running",
                    puts |-> {<<i, [view[i] EXCEPT !.num = num[i]]>> : i \in Waiting(view)},
                    deletes |-> Expired(view)]
  BY <1>0
<1>2. /\ cron.pc = "idle" /\ \A i \in Instances : ~flush[i].old
      /\ UNCHANGED <<now, entity, settled, alive, target, flush, base>>
      /\ alive \subseteq Instances
  BY DEF CronQuery, NumbersInv, TypeOK
<1>3. Waiting(view) \subseteq Instances /\ Expired(view) \subseteq Instances
  BY DEF Waiting, Expired
<1> DEFINE E(i) == [view[i] EXCEPT !.num = num[i]]
<1>4. ASSUME NEW i \in Waiting(view)
      PROVE  /\ num[i] \in Numbers \ Used(view)
             /\ E(i) \in Instance /\ E(i).num = num[i]
  <2>1. num[i] \in Numbers \ Used(view)
    BY DEF Gaps
  <2>2. view[i] \in Instance
    BY <1>3 DEF Waiting
  <2> QED
    BY <2>1, <2>2 DEF Instance, TaskNums
<1>5. /\ cron'.pc = "running"
      /\ cron'.puts = {<<i, E(i)>> : i \in Waiting(view)}
  BY <1>1
<1> HIDE DEF E
<1>6. cron'.puts \subseteq Instances \X Instance
  BY <1>3, <1>4, <1>5
<1>7. TypeOK'
  <2>1. cron' \in [pc : {"idle", "running"}, puts : SUBSET (Instances \X Instance),
                   deletes : SUBSET Instances]
    BY <1>1, <1>3, <1>6
  <2> QED
    BY <1>2, <2>1 DEF NumbersInv, TypeOK
<1>8. \A i \in Instances : Same(i)
  BY <1>2 DEF Same
<1>9. ASSUME NEW p \in cron'.puts PROVE PutFits(p)'
  <2>1. PICK i \in Waiting(view) : p = <<i, E(i)>>
    BY <1>5
  <2>2. p[1] = i /\ p[2].num = num[i] /\ num[i] \in Numbers \ Used(view) /\ i \in Instances
    BY <1>3, <1>4, <2>1
  <2>3. Free(i)'
    BY <1>0, <1>2, <1>8, <2>2, WaitingIsFree, SameKept
  <2>4. ASSUME NEW q \in cron'.puts, q # p
        PROVE  q[1] # p[1] /\ q[2].num # p[2].num
    <3>1. PICK k \in Waiting(view) : q = <<k, E(k)>>
      BY <1>5
    <3>2. k # i
      BY <2>1, <2>4, <3>1
    <3>3. num[k] # num[i]
      BY <1>1, <3>2
    <3> QED
      BY <1>4, <2>2, <3>1, <3>2, <3>3
  <2>5. ASSUME NEW k \in alive', k # p[1] PROVE p[2].num \notin Claims(k)'
    <3>1. k \in alive /\ k \in Instances /\ Claims(k)' = Claims(k)
      BY <1>2, <1>8, SameKept
    <3> QED
      BY <1>0, <1>2, <2>2, <3>1, ClaimedIsUsed
  <2> QED
    BY <2>2, <2>3, <2>4, <2>5 DEF PutFits
<1>10. \A i \in Instances : OneNumber(i)' /\ Claims(i)' = Claims(i)
  BY <1>8, SameKept DEF NumbersInv
<1>11. NumbersUnique'
  BY <1>2, <1>10 DEF NumbersInv, NumbersUnique
<1> QED
  BY <1>5, <1>7, <1>9, <1>10, <1>11 DEF NumbersInv

\* The entity of an instance gets its number.
LEMMA CronPutInv ==
    ASSUME NumbersInv, NEW i \in Instances, CronPut(i)
    PROVE  NumbersInv'
<1>1. PICK p \in cron.puts :
        /\ p[1] = i /\ Write(i, p[2]) /\ cron' = [cron EXCEPT !.puts = @ \ {p}]
        /\ UNCHANGED <<now, settled, alive, target, flush, base>>
  BY DEF CronPut
<1>2. /\ TypeOK /\ PutFits(p) /\ alive \subseteq Instances
      /\ cron.puts \subseteq Instances \X Instance
  BY DEF NumbersInv, TypeOK
<1>3. p[2] \in Instance /\ p[2] # None /\ p[2].num \in Numbers
  BY <1>2, NumberTypes DEF PutFits
<1>4. /\ cron' \in [pc : {"idle", "running"}, puts : SUBSET (Instances \X Instance),
                    deletes : SUBSET Instances]
      /\ cron'.pc = "running" /\ cron'.puts = cron.puts \ {p}
  BY <1>1, <1>2 DEF NumbersInv, TypeOK
<1>5. entity'[i] = p[2] /\ \A k \in Instances : k # i => Same(k)
  BY <1>1, <1>2 DEF TypeOK, Write, Same
<1>6. TypeOK'
  BY <1>1, <1>2, <1>3, <1>4 DEF TypeOK, Write
<1>7. OneNumber(i)' /\ Claims(i)' = {p[2].num}
  BY <1>1, <1>2, <1>3, <1>5 DEF PutFits, Free, OneNumber, Claims, Flushing
<1>8. \A k \in Instances : k # i => OneNumber(k)' /\ Claims(k)' = Claims(k)
  BY <1>5, SameKept DEF NumbersInv
<1>9. ASSUME NEW q \in cron'.puts PROVE PutFits(q)'
  <2>1. PutFits(q) /\ q # p /\ q \in cron.puts /\ q[1] \in Instances
    BY <1>2, <1>4 DEF NumbersInv
  <2>2. q[1] # i /\ q[2].num # p[2].num
    BY <1>1, <1>2, <2>1 DEF PutFits
  <2>3. Free(q[1])'
    BY <1>5, <2>1, <2>2, SameKept DEF PutFits
  <2>4. ASSUME NEW k \in alive', k # q[1] PROVE q[2].num \notin Claims(k)'
    BY <1>1, <1>2, <1>7, <1>8, <2>1, <2>2, <2>4 DEF PutFits
  <2> QED
    BY <1>4, <2>1, <2>3, <2>4 DEF PutFits
<1>10. NumbersUnique'
  <2> SUFFICES ASSUME NEW j \in alive', NEW k \in alive', j # k
               PROVE  Claims(j)' \cap Claims(k)' \subseteq {Unassigned}
    BY DEF NumbersUnique
  <2>1. j \in alive /\ k \in alive /\ Claims(j) \cap Claims(k) \subseteq {Unassigned}
    BY <1>1 DEF NumbersInv, NumbersUnique
  <2>2. \A m \in alive : m # i => p[2].num \notin Claims(m)
    BY <1>1, <1>2 DEF PutFits
  <2> QED
    BY <1>2, <1>7, <1>8, <2>1, <2>2
<1> QED
  BY <1>4, <1>6, <1>7, <1>8, <1>9, <1>10 DEF NumbersInv

\* The entity of an instance that looked dead is deleted.
LEMMA CronDeleteInv ==
    ASSUME NumbersInv, NEW i \in Instances, CronDelete(i)
    PROVE  NumbersInv'
<1>1. /\ TypeOK /\ OneNumber(i) /\ i \in cron.deletes
      /\ Write(i, None) /\ cron' = [cron EXCEPT !.deletes = @ \ {i}]
      /\ UNCHANGED <<now, settled, alive, target, flush, base>>
  BY DEF CronDelete, NumbersInv
<1>2. /\ cron' \in [pc : {"idle", "running"}, puts : SUBSET (Instances \X Instance),
                    deletes : SUBSET Instances]
      /\ cron.pc # "idle"
      /\ cron'.pc = cron.pc /\ cron'.puts = cron.puts /\ cron'.deletes \subseteq cron.deletes
  BY <1>1 DEF NumbersInv, TypeOK
<1>3. entity'[i] = None /\ \A k \in Instances : k # i => Same(k)
  BY <1>1 DEF TypeOK, Write, Same
<1>4. TypeOK'
  BY <1>1, <1>2 DEF TypeOK, Write
<1>5. OneNumber(i)' /\ (Free(i) => Free(i)') /\ Claims(i)' \subseteq Claims(i)
  BY <1>1, <1>3 DEF OneNumber, Free, Claims, Flushing
<1> QED
  BY <1>1, <1>2, <1>3, <1>4, <1>5, InstanceStepInv

\* The run ends: the next query sees the entities as they are, at least.
LEMMA CronEndInv ==
    ASSUME NumbersInv, CronEnd
    PROVE  NumbersInv'
<1>1. /\ TypeOK /\ alive \subseteq Instances
      /\ cron' = NoRun /\ settled' = entity
      /\ flush' = [i \in Instances |-> [flush[i] EXCEPT !.old = Flushing(i)]]
      /\ UNCHANGED <<now, entity, alive, target, base>>
  BY DEF CronEnd, NumbersInv, TypeOK
<1>2. cron'.pc = "idle" /\ cron'.puts = {} /\ cron'.deletes = {}
  BY <1>1 DEF NoRun
<1>3. ASSUME NEW i \in Instances
      PROVE  /\ flush'[i] \in Flush /\ (Flushing(i)' <=> Flushing(i))
             /\ flush'[i].old = Flushing(i) /\ flush'[i].num = flush[i].num
  BY <1>1, FieldTypes DEF Flush, Flushing
<1>4. TypeOK'
  <2>1. flush' \in [Instances -> Flush]
    BY <1>1, <1>3
  <2> QED
    BY <1>1, <1>2, <2>1 DEF TypeOK, NoRun, Flush
<1>5. ASSUME NEW i \in Instances
      PROVE  OneNumber(i)' /\ Claims(i)' = Claims(i) /\ Visible(i)'
  <2>1. OneNumber(i)
    BY DEF NumbersInv
  <2>2. OneNumber(i)' /\ Claims(i)' = Claims(i) /\ (Free(i) => Free(i)')
    BY <1>1, <1>3, <2>1 DEF OneNumber, Claims, Free
  <2>3. Assigned(settled, i, Unassigned)' => Free(i)
    BY <1>1, <2>1 DEF Assigned, OneNumber, Free
  <2>4. \A n \in Numbers : Uses(i, n)' => Assigned(entity, i, n)' /\ Assigned(settled, i, n)'
    BY <1>1, <1>3 DEF Uses, Assigned
  <2> QED
    BY <2>2, <2>3, <2>4 DEF Visible
<1>6. NumbersUnique'
  BY <1>1, <1>5 DEF NumbersInv, NumbersUnique
<1> QED
  BY <1>2, <1>4, <1>5, <1>6 DEF NumbersInv

\* Time passes, or nothing.
LEMMA TimeInv ==
    ASSUME NumbersInv, Tick \/ UNCHANGED vars
    PROVE  NumbersInv'
<1>1. /\ UNCHANGED <<entity, settled, alive, target, flush, cron, base>>
      /\ now' \in 0 .. MaxTime /\ alive \subseteq Instances
      /\ cron.puts \subseteq Instances \X Instance
  BY TaskNumbersAssumption DEF NumbersInv, TypeOK, Tick, vars
<1>2. TypeOK'
  BY <1>1 DEF NumbersInv, TypeOK
<1>3. \A i \in Instances : Same(i)
  BY <1>1 DEF Same
<1>4. \A i \in Instances : /\ OneNumber(i)' /\ Claims(i)' = Claims(i) /\ (Free(i) => Free(i)')
                           /\ cron.pc = "idle" => Visible(i)'
  BY <1>1, <1>3, SameKept DEF NumbersInv
<1>5. NumbersUnique'
  BY <1>1, <1>4 DEF NumbersInv, NumbersUnique
<1>6. ASSUME NEW p \in cron.puts PROVE PutFits(p)'
  BY <1>1, <1>4 DEF NumbersInv, PutFits
<1> QED
  BY <1>1, <1>2, <1>4, <1>5, <1>6 DEF NumbersInv

\* All steps, and stuttering.
LEMMA NumbersNext == NumbersInv /\ [Next]_vars => NumbersInv'
<1>1. ASSUME NumbersInv, NEW i \in Instances, FlushStep(i)
      PROVE  NumbersInv'
  BY <1>1, FlushUnassignedInv, FlushStartInv, FlushPutInv, FlushSendInv, FlushFailsInv
     DEF FlushStep
<1>2. ASSUME NumbersInv, NEW i \in Instances,
             Shutdown(i) \/ Vanish(i) \/ CronPut(i) \/ CronDelete(i)
      PROVE  NumbersInv'
  BY <1>2, GoneInv, CronPutInv, CronDeleteInv
<1> QED
  BY <1>1, <1>2, CronQueryInv, CronEndInv, TimeInv DEF Next

-----------------------------------------------------------------------------
(* The invariant: instances use one number at a time, and between two runs   *)
(* of the cron both versions that its query may see of an entity tell it.    *)
THEOREM NumbersInvariant == Spec => []NumbersInv
BY InitNumbers, NumbersNext, PTL DEF Spec

(* Type correctness: the cron gives only numbers below the number of         *)
(* instances, and every flush has one of them.                               *)
THEOREM NumbersTypeOK == Spec => []TypeOK
<1>1. NumbersInv => TypeOK
  BY DEF NumbersInv
<1> QED
  BY <1>1, NumbersInvariant, PTL

(* No two serving instances have or use one number, although a flush may put *)
(* back an entity that the cron has deleted.                                 *)
THEOREM NumbersUniqueThm == Spec => []NumbersUnique
<1>1. NumbersInv => NumbersUnique
  BY DEF NumbersInv
<1> QED
  BY <1>1, NumbersInvariant, PTL

(* Cumulative metrics are reset between two numbers.                         *)
THEOREM NumberChangeResetsThm == Spec => []NumberChangeResets
<1>1. NumbersInv => NumberChangeResets
  BY DEF NumbersInv, NumberChangeResets, OneNumber, Flushing
<1> QED
  BY <1>1, NumbersInvariant, PTL
=============================================================================
