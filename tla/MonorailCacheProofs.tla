------------------------ MODULE MonorailCacheProofs ------------------------
(* Proofs about the caches of Monorail, for any jobs, items, kinds, limit of *)
(* rows and bound on timesteps.                                              *)
EXTENDS MonorailCache, FiniteSetTheorems, WellFoundedInduction, TLAPS

-----------------------------------------------------------------------------
(* The inductive invariant.                                                  *)

(* A row that makes a job drop an item when it sees it, if what it has is    *)
(* version v.                                                                *)
About(r, i, v) ==
    \/ r.of = i /\ r.version > v
    \/ r.key = All /\ r.kind = KindOf[i]

(* A job that has read version v of an item since its request began will     *)
(* drop it if it is old: there is a row about a later version, or one is     *)
(* still to be written, or the cron has deleted such a row and left as many  *)
(* as the limit.                                                             *)
Owed(j, i, v) ==
    v < db[i] /\ missed[i] <= v =>
        \/ \E r \in New(j) : About(r, i, v)
        \/ RowDue(i, v)
        \/ Overflow(j) /\ v < cutoff[i]

(* Rows are about an item or its kind; what the cron is going to keep is as  *)
(* much as jobs consider, unless rows were deleted since it looked.          *)
RowsInv ==
    /\ IsFiniteSet(rows)
    /\ \A r \in rows : r.kind = KindOf[r.of] /\ r.key \in {r.of, All}
    /\ cut # None /\ ~raced => Limit <= Cardinality({r \in rows : r.ts >= cut})

(* One job at a time has changed an item and not committed it.               *)
VersionsInv ==
    \A j \in Jobs : At(j, "inserted") =>
        /\ db[req[j].item] < Updates[req[j].item]
        /\ \A k \in Jobs : k # j /\ At(k, "inserted") => req[k].item # req[j].item

(* What a request has read is as new as what was there when it began, and    *)
(* will be known to be old when it is.                                       *)
RequestInv(j) ==
    /\ At(j, "add") => req[j].item \in TwoLevel
    /\ req[j].pc \in {"loaded", "inserted"} \cup Invalidating => req[j].item \in Writes[j]
    /\ req[j].pc \in {"inserted", "late", "purge"} =>
          req[j].key \in KeysOf[req[j].item] /\ req[j].ts \in Steps
    /\ req[j].pc \in {"loaded", "inserted"} => req[j].version >= began[j][req[j].item]
    /\ \A i \in Items : began[j][i] <= db[i]
    /\ req[j].snap # None =>
          /\ \A i \in Writes[j] : began[j][i] <= req[j].snap[i]
          /\ \A i \in Read : Owed(j, i, req[j].snap[i])

RamInv(j) ==
    \A i \in Items : ram[j][i] # None =>
        /\ i \in Read
        /\ ram[j][i].own => Owed(j, i, ram[j][i].version)

MemcacheInv ==
    /\ \A i \in Items : memcache[i] \in Versions => i \in TwoLevel
    /\ MemcacheForgets

CacheInv ==
    /\ TypeOK
    /\ RowsInv
    /\ VersionsInv
    /\ MemcacheInv
    /\ \A j \in Jobs : RequestInv(j) /\ RamInv(j)

-----------------------------------------------------------------------------
(* Numbers and sets.                                                         *)

\* A set of natural numbers has a least one.
LEMMA LeastOf ==
    ASSUME NEW S \in SUBSET Nat, S # {}
    PROVE  \E n \in S : \A m \in S : n <= m
<1> DEFINE R == OpToRel(<, Nat)
<1>1. IsWellFoundedOn(R, Nat)
  BY NatLessThanWellFounded
<1>2. PICK n \in S : \A m \in S : ~ (<<m, n>> \in R)
  <2> HIDE DEF R
  <2> QED
    BY <1>1, WFMin
<1>3. \A m \in S : ~ (m < n)
  BY <1>2 DEF OpToRel
<1> QED
  BY <1>3

\* Max and Min of bounded sets.
LEMMA MaxOf ==
    ASSUME NEW b \in Nat, NEW S \in SUBSET (0 .. b), S # {}
    PROVE  Max(S) \in S /\ \A x \in S : x <= Max(S)
<1>0. \A x \in S : x \in Nat /\ x <= b
  OBVIOUS
<1> DEFINE T == {b - x : x \in S}
<1>1. T \in SUBSET Nat /\ T # {}
  <2>1. \A x \in S : b - x \in Nat
    BY <1>0
  <2> QED
    BY <2>1
<1>2. PICK n \in T : \A m \in T : n <= m
  <2> HIDE DEF T
  <2> QED
    BY <1>1, LeastOf
<1>3. PICK y \in S : n = b - y
  OBVIOUS
<1>4. \A x \in S : y >= x
  <2> TAKE x \in S
  <2>1. n <= b - x
    BY <1>2
  <2> QED
    BY <1>0, <1>3, <2>1
<1>5. \E z \in S : \A x \in S : z >= x
  BY <1>4
<1>6. Max(S) \in S /\ \A x \in S : Max(S) >= x
  BY <1>5 DEF Max
<1> QED
  BY <1>0, <1>6

\* The least element of a set of natural numbers.
LEMMA MinOf ==
    ASSUME NEW S \in SUBSET Nat, S # {}
    PROVE  Min(S) \in S /\ \A x \in S : Min(S) <= x
<1>1. \E n \in S : \A m \in S : n <= m
  BY LeastOf
<1> QED
  BY <1>1 DEF Min

-----------------------------------------------------------------------------
(* Types.                                                                    *)

\* What the constants and the histories are.
LEMMA ConstantTypes ==
    /\ Limit \in Nat /\ Limit > 0 /\ MaxStep \in Nat /\ MaxVersion \in Nat
    /\ Versions \subseteq Nat /\ 0 \in Versions /\ Steps \subseteq 0 .. MaxStep /\ Steps \subseteq Nat
    /\ None \notin Versions /\ Locked \notin Versions /\ None \notin Steps /\ Locked # None
    /\ Read \subseteq Items /\ TwoLevel \subseteq Read
    /\ \A j \in Jobs : Writes[j] \subseteq Items
    /\ \A i \in Items : KindOf[i] \in Kinds /\ KeysOf[i] \subseteq {i, All}
    /\ \A i \in Items : Updates[i] \in Nat /\ Updates[i] <= MaxVersion
    /\ NoItems \in [Items -> Versions] /\ Open \in Request
<1>1. /\ MaxStep \in Nat /\ MaxVersion \in Nat /\ None \notin Nat /\ Locked \notin Nat
      /\ \A i \in Items : Updates[i] \in 0 .. MaxVersion
  BY CacheAssumption
<1>2. /\ Versions \subseteq Nat /\ 0 \in Versions /\ Steps \subseteq 0 .. MaxStep /\ Steps \subseteq Nat
      /\ None \notin Versions /\ Locked \notin Versions /\ None \notin Steps
  BY <1>1 DEF Versions, Steps
<1>3. Open \in Request
  BY <1>1, <1>2 DEF Open, Request
<1> QED
  BY <1>1, <1>2, <1>3, CacheAssumption DEF NoItems

\* The fields of a request.
LEMMA RequestTypes ==
    ASSUME TypeOK, NEW j \in Jobs
    PROVE  /\ req[j] \in Request
           /\ req[j].snap \in [Items -> Versions] \cup {None}
           /\ req[j].version \in Versions
           /\ req[j].item \in Items \cup {None}
           /\ began[j] \in [Items -> Versions]
           /\ done[j] \in 0 .. MaxStep
           /\ \A i \in Items : ram[j][i] \in Cached \cup {None}
BY DEF TypeOK, Request

\* A job's request changes and the others stay.
LEMMA GotoType ==
    ASSUME TypeOK, NEW j \in Jobs, NEW r \in Request, Goto(j, r)
    PROVE  /\ req' \in [Jobs -> Request]
           /\ req'[j] = r
           /\ \A k \in Jobs : k # j => req'[k] = req[k]
BY DEF TypeOK, Goto

\* What a look at the database shows.
LEMMA LookType ==
    ASSUME TypeOK, NEW S
    PROVE  /\ Look(S) \in [Items -> Versions]
           /\ \A i \in Items : Look(S)[i] <= db[i] /\ (i \in S => Look(S)[i] = db[i])
<1>1. \A i \in Items : db[i] \in Versions
  BY DEF TypeOK
<1>2. \A i \in Items : Look(S)[i] = IF i \in S THEN db[i] ELSE 0
  BY DEF Look
<1>3. \A i \in Items : db[i] \in Nat /\ Look(S)[i] \in Versions
  BY <1>1, <1>2, ConstantTypes
<1>4. Look(S) \in [Items -> Versions]
  BY <1>3 DEF Look
<1> QED
  BY <1>2, <1>3, <1>4

\* At first there is no row, no value in a cache and no request.
LEMMA InitCache == Init => CacheInv
<1> SUFFICES ASSUME Init PROVE CacheInv
  OBVIOUS
<1> USE ConstantTypes DEF Init
<1>0. 0 \in 0 .. MaxStep
  OBVIOUS
<1>1. TypeOK
  BY <1>0 DEF TypeOK
<1>2. RowsInv
  BY FS_EmptySet DEF RowsInv
<1>3. VersionsInv
  BY DEF VersionsInv, At, Open
<1>4. MemcacheInv
  BY DEF MemcacheInv, MemcacheForgets
<1>5. ASSUME NEW j \in Jobs PROVE RequestInv(j)
  BY DEF RequestInv, At, Open, Invalidating, Telling, NoItems
<1>6. ASSUME NEW j \in Jobs PROVE RamInv(j)
  BY DEF RamInv
<1> QED
  BY <1>1, <1>2, <1>3, <1>4, <1>5, <1>6 DEF CacheInv

-----------------------------------------------------------------------------
(* What a step has to show.                                                  *)

(* The rows that are still to be written stay so.                            *)
DueStays == \A i, v : RowDue(i, v) => RowDue(i, v)'

\* They do if the job that takes the step has none to write, or still has it.
LEMMA DueKept ==
    ASSUME NEW j \in Jobs, \A k \in Jobs : k # j => req'[k] = req[k],
           req[j].pc \notin Telling \/ (/\ req'[j].pc \in Telling /\ req'[j].item = req[j].item
                                       /\ req'[j].version = req[j].version)
    PROVE  DueStays
BY DEF DueStays, RowDue

\* Then what is owed depends on the tables and on what the job has seen.
LEMMA OwedSame ==
    ASSUME UNCHANGED <<db, rows, missed, cutoff>>, DueStays, NEW j \in Jobs,
           done'[j] = done[j], NEW i, NEW v
    PROVE  Owed(j, i, v) => Owed(j, i, v)'
<1>1. New(j)' = New(j)
  BY DEF New
<1>2. Overflow(j)' = Overflow(j)
  BY <1>1 DEF Overflow
<1>3. RowDue(i, v) => RowDue(i, v)'
  BY DEF DueStays
<1> QED
  BY <1>1, <1>2, <1>3 DEF Owed, About

\* A job that takes no part in a step keeps what is said of it, if it is
\* still owed what it was.
LEMMA OthersInv ==
    ASSUME CacheInv, NEW k \in Jobs,
           req'[k] = req[k], ram'[k] = ram[k], began'[k] = began[k],
           \A i \in Items : db[i] \in Nat /\ db'[i] \in Nat /\ db[i] <= db'[i],
           \A i \in Read, v \in Versions : Owed(k, i, v) => Owed(k, i, v)'
    PROVE  RequestInv(k)' /\ RamInv(k)'
<1>1. TypeOK /\ RequestInv(k) /\ RamInv(k)
  BY DEF CacheInv
<1>2. /\ began[k] \in [Items -> Nat] /\ req[k].snap \in [Items -> Versions] \cup {None}
      /\ \A i \in Items : ram[k][i] \in Cached \cup {None}
  BY <1>1, RequestTypes, ConstantTypes
<1>3. \A i \in Items : began[k][i] <= db'[i]
  <2> TAKE i \in Items
  <2>1. began[k][i] \in Nat /\ began[k][i] <= db[i] /\ db[i] <= db'[i]
    BY <1>1, <1>2 DEF RequestInv
  <2> QED
    BY <2>1
<1>4. req[k].snap # None => \A i \in Read : Owed(k, i, req[k].snap[i])'
  <2> SUFFICES ASSUME req[k].snap # None, NEW i \in Read PROVE Owed(k, i, req[k].snap[i])'
    BY <1>1
  <2>1. PICK v \in Versions : v = req[k].snap[i]
    BY <1>2, ConstantTypes
  <2>2. Owed(k, i, v)
    BY <1>1, <2>1 DEF RequestInv
  <2>3. Owed(k, i, v)'
    BY <2>2
  <2> QED
    BY <2>1, <2>3
<1>5. RequestInv(k)'
  BY <1>1, <1>3, <1>4 DEF RequestInv, At
<1>6. RamInv(k)'
  <2> SUFFICES ASSUME NEW i \in Items, ram[k][i] # None
               PROVE  i \in Read /\ (ram[k][i].own => Owed(k, i, ram[k][i].version)')
    BY DEF RamInv
  <2>1. PICK v \in Versions : v = ram[k][i].version
    BY <1>2 DEF Cached
  <2>2. i \in Read /\ (ram[k][i].own => Owed(k, i, v))
    BY <1>1, <2>1 DEF RamInv
  <2>3. ram[k][i].own => Owed(k, i, v)'
    BY <2>2
  <2> QED
    BY <2>1, <2>2, <2>3
<1> QED
  BY <1>5, <1>6

\* A step of one job that leaves the tables and what jobs have seen alone.
LEMMA QuietInv ==
    ASSUME CacheInv, TypeOK', NEW j \in Jobs,
           UNCHANGED <<db, rows, cut, raced, cutoff, missed, done, began>>, DueStays,
           \A k \in Jobs : k # j => req'[k] = req[k] /\ ram'[k] = ram[k],
           RequestInv(j)', RamInv(j)', VersionsInv', MemcacheInv'
    PROVE  CacheInv'
<1>1. RowsInv'
  BY DEF CacheInv, RowsInv
<1>2. \A i \in Items : db[i] \in Nat
  BY ConstantTypes DEF CacheInv, TypeOK
<1>3. ASSUME NEW k \in Jobs, k # j PROVE RequestInv(k)' /\ RamInv(k)'
  <2>1. \A i \in Read, v \in Versions : Owed(k, i, v) => Owed(k, i, v)'
    BY OwedSame
  <2> QED
    BY <1>2, <1>3, <2>1, OthersInv
<1> QED
  BY <1>1, <1>3 DEF CacheInv

\* The timesteps that are handed out stay as they are, and so do the updates.
LEMMA VersionsSame ==
    ASSUME CacheInv, UNCHANGED <<db, step>>, NEW j \in Jobs, ~At(j, "inserted")',
           \A k \in Jobs : k # j => req'[k] = req[k]
    PROVE  VersionsInv'
<1>1. VersionsInv
  BY DEF CacheInv
<1> QED
  BY <1>1 DEF VersionsInv, At

\* So does memcache, and no deletion was due.
LEMMA MemcacheSame ==
    ASSUME CacheInv, UNCHANGED <<db, memcache, stray>>, NEW j \in Jobs,
           req[j].pc \notin Invalidating \/ (req'[j].pc \in Invalidating /\ req'[j].item = req[j].item),
           \A k \in Jobs : k # j => req'[k] = req[k]
    PROVE  MemcacheInv'
<1>1. MemcacheInv
  BY DEF CacheInv
<1> QED
  BY <1>1 DEF MemcacheInv, MemcacheForgets

-----------------------------------------------------------------------------
(* Reading.                                                                  *)

\* What the snapshot of a request has: it is as new as the request, and what
\* it has of items that are read is current or known to be old.
LEMMA SnapshotInv ==
    ASSUME CacheInv, NEW j \in Jobs
    PROVE  /\ Snapshot(j) \in [Items -> Versions]
           /\ \A i \in Writes[j] : began[j][i] <= Snapshot(j)[i]
           /\ \A i \in Read : Owed(j, i, Snapshot(j)[i])
<1>1. TypeOK /\ RequestInv(j)
  BY DEF CacheInv
<1>2. CASE req[j].snap # None
  <2>1. Snapshot(j) = req[j].snap
    BY <1>2 DEF Snapshot
  <2> QED
    BY <1>1, <1>2, <2>1, RequestTypes DEF RequestInv
<1>3. CASE req[j].snap = None
  <2>1. Snapshot(j) = Look(Read \cup Writes[j])
    BY <1>3 DEF Snapshot
  <2>2. \A i \in Read \cup Writes[j] : i \in Items /\ Look(Read \cup Writes[j])[i] = db[i]
    BY <1>1, LookType, ConstantTypes
  <2>3. \A i \in Read : Owed(j, i, db[i])
    <3>1. \A i \in Read : db[i] \in Nat
      BY <1>1, ConstantTypes DEF TypeOK
    <3> QED
      BY <3>1 DEF Owed
  <2> QED
    BY <1>1, <2>1, <2>2, <2>3, LookType DEF RequestInv
<1> QED
  BY <1>2, <1>3

\* A request that keeps its snapshot, or has taken one.
LEMMA SnapshotRequest ==
    ASSUME CacheInv, NEW j \in Jobs,
           NEW r \in Request, r.snap \in {req[j].snap, Snapshot(j)},
           r.pc \in {"open", "add", "loaded"},
           r.pc = "add" => r.item \in TwoLevel,
           r.pc = "loaded" => r.item \in Writes[j] /\ r.version = Snapshot(j)[r.item],
           req'[j] = r, UNCHANGED <<db, rows, missed, cutoff, done, began>>, DueStays
    PROVE  RequestInv(j)'
<1>1. TypeOK /\ RequestInv(j)
  BY DEF CacheInv
<1>2. r.snap # None =>
          /\ \A i \in Writes[j] : began[j][i] <= r.snap[i]
          /\ \A i \in Read : Owed(j, i, r.snap[i])
  BY <1>1, SnapshotInv DEF RequestInv
<1>3. \A i \in Read : Owed(j, i, r.snap[i]) => Owed(j, i, r.snap[i])'
  <2> TAKE i \in Read
  <2>1. PICK v : v = r.snap[i]
    OBVIOUS
  <2>2. Owed(j, i, v) => Owed(j, i, v)'
    BY OwedSame
  <2> QED
    BY <2>1, <2>2
<1>4. r.pc = "loaded" => r.version >= began[j][r.item]
  <2> SUFFICES ASSUME r.pc = "loaded" PROVE r.version >= began[j][r.item]
    OBVIOUS
  <2>1. r.item \in Items /\ began[j][r.item] <= r.version
    BY SnapshotInv, ConstantTypes
  <2>2. began[j] \in [Items -> Versions] /\ r.version \in Versions
    BY <1>1, RequestTypes DEF Request
  <2>3. began[j][r.item] \in Nat /\ r.version \in Nat
    BY <2>1, <2>2, ConstantTypes
  <2> QED
    BY <2>1, <2>3
<1>5. \A i \in Items : (began[j][i] <= db[i])'
  BY <1>1 DEF RequestInv
<1> QED
  BY <1>2, <1>3, <1>4, <1>5 DEF RequestInv, At, Invalidating, Telling

\* A value that was read goes to RAM.
LEMMA RamSet ==
    ASSUME CacheInv, NEW j \in Jobs, NEW i \in Read, NEW c \in Cached,
           ram' = [ram EXCEPT ![j][i] = c],
           c.own => Owed(j, i, c.version),
           UNCHANGED <<db, rows, missed, cutoff, done>>, DueStays
    PROVE  /\ ram' \in [Jobs -> [Items -> Cached \cup {None}]]
           /\ RamInv(j)'
           /\ \A k \in Jobs : k # j => ram'[k] = ram[k]
<1>1. TypeOK /\ RamInv(j) /\ i \in Items
  BY ConstantTypes DEF CacheInv
<1>2. /\ ram' \in [Jobs -> [Items -> Cached \cup {None}]]
      /\ \A k \in Jobs : k # j => ram'[k] = ram[k]
      /\ ram'[j] = [ram[j] EXCEPT ![i] = c]
  BY <1>1 DEF TypeOK
<1>3. \A k \in Items : ram'[j][k] = IF k = i THEN c ELSE ram[j][k]
  BY <1>1, <1>2 DEF TypeOK
<1>4. ASSUME NEW k \in Items, ram'[j][k] # None, NEW v, v = ram'[j][k].version
      PROVE  k \in Read /\ (ram'[j][k].own => Owed(j, k, v)')
  <2>1. k \in Read /\ (ram'[j][k].own => Owed(j, k, v))
    BY <1>1, <1>3, <1>4 DEF RamInv
  <2>2. Owed(j, k, v) => Owed(j, k, v)'
    BY OwedSame
  <2> QED
    BY <2>1, <2>2
<1>5. RamInv(j)'
  <2> SUFFICES ASSUME NEW k \in Items, ram'[j][k] # None
               PROVE  k \in Read /\ (ram'[j][k].own => Owed(j, k, ram[j][k].version)')
    BY DEF RamInv
  <2>1. PICK v : v = ram'[j][k].version
    OBVIOUS
  <2>2. k \in Read /\ (ram'[j][k].own => Owed(j, k, v)')
    BY <1>4, <2>1
  <2> QED
    BY <2>1, <2>2
<1> QED
  BY <1>2, <1>5

\* A value from memcache is not known to be current.
LEMMA ReadMemcacheInv ==
    ASSUME CacheInv, NEW j \in Jobs, NEW i \in Read, ReadMemcache(j, i)
    PROVE  CacheInv'
<1> DEFINE c == [version |-> memcache[i], own |-> FALSE]
<1>1. /\ At(j, "open") /\ c \in Cached /\ ~c.own /\ ram' = [ram EXCEPT ![j][i] = c]
      /\ UNCHANGED <<db, memcache, done, req, began, tableVars, stray>>
  BY DEF ReadMemcache, Cached
<1> HIDE DEF c
<1>0. DueStays
  BY <1>1 DEF DueStays, RowDue
<1>2. /\ ram' \in [Jobs -> [Items -> Cached \cup {None}]] /\ RamInv(j)'
      /\ \A k \in Jobs : k # j => ram'[k] = ram[k]
  BY <1>0, <1>1, RamSet DEF tableVars
<1>3. TypeOK'
  BY <1>1, <1>2 DEF CacheInv, TypeOK, tableVars
<1>4. RequestInv(j)'
  <2>1. req[j] \in Request /\ req[j].pc = "open"
    BY <1>1, RequestTypes DEF CacheInv, At
  <2> QED
    BY <1>0, <1>1, <2>1, SnapshotRequest DEF tableVars, At
<1>5. VersionsInv' /\ MemcacheInv'
  BY <1>1, VersionsSame, MemcacheSame DEF tableVars, At, Invalidating, Telling
<1> QED
  BY <1>0, <1>1, <1>2, <1>3, <1>4, <1>5, QuietInv DEF tableVars

\* A value from the master database is the one of the snapshot.
LEMMA FetchInv ==
    ASSUME CacheInv, NEW j \in Jobs, NEW i \in Read, Fetch(j, i)
    PROVE  CacheInv'
<1> DEFINE c == [version |-> Snapshot(j)[i], own |-> TRUE]
           r == IF i \in TwoLevel
                THEN [req[j] EXCEPT !.pc = "add", !.snap = Snapshot(j), !.item = i,
                                    !.version = Snapshot(j)[i]]
                ELSE [req[j] EXCEPT !.snap = Snapshot(j)]
<1>1. /\ At(j, "open") /\ Goto(j, r) /\ ram' = [ram EXCEPT ![j][i] = c]
      /\ UNCHANGED <<db, memcache, done, began, tableVars, stray>>
  BY DEF Fetch
<1>2. /\ TypeOK /\ req[j] \in Request /\ i \in Items
      /\ Snapshot(j) \in [Items -> Versions] /\ Snapshot(j)[i] \in Versions
      /\ Owed(j, i, Snapshot(j)[i])
  BY RequestTypes, SnapshotInv, ConstantTypes DEF CacheInv
<1>3. /\ c \in Cached /\ c.version = Snapshot(j)[i]
  BY <1>2 DEF Cached
<1>4. /\ r \in Request /\ r.snap = Snapshot(j) /\ r.pc \in {"open", "add"}
      /\ r.pc = "add" => r.item \in TwoLevel
  BY <1>1, <1>2 DEF Request, At
<1> HIDE DEF c, r
<1>5. /\ req' \in [Jobs -> Request] /\ req'[j] = r
      /\ \A k \in Jobs : k # j => req'[k] = req[k]
  BY <1>1, <1>2, <1>4, GotoType
<1>0. DueStays
  BY <1>1, <1>5, DueKept DEF At, Telling
<1>6. /\ ram' \in [Jobs -> [Items -> Cached \cup {None}]] /\ RamInv(j)'
      /\ \A k \in Jobs : k # j => ram'[k] = ram[k]
  BY <1>0, <1>1, <1>2, <1>3, RamSet DEF tableVars
<1>7. TypeOK'
  BY <1>1, <1>2, <1>5, <1>6 DEF TypeOK, tableVars
<1>8. RequestInv(j)'
  BY <1>0, <1>1, <1>4, <1>5, SnapshotRequest DEF tableVars
<1>9. VersionsInv' /\ MemcacheInv'
  BY <1>1, <1>4, <1>5, VersionsSame, MemcacheSame DEF tableVars, At, Invalidating, Telling
<1> QED
  BY <1>0, <1>1, <1>5, <1>6, <1>7, <1>8, <1>9, QuietInv DEF tableVars

\* Nor is a value from a replica.
LEMMA FetchReplicaInv ==
    ASSUME CacheInv, NEW j \in Jobs, NEW i \in Read, FetchReplica(j, i)
    PROVE  CacheInv'
<1>1. PICK v \in 0 .. db[i] :
        /\ At(j, "open") /\ i \in TwoLevel
        /\ ram' = [ram EXCEPT ![j][i] = [version |-> v, own |-> FALSE]]
        /\ Goto(j, [req[j] EXCEPT !.pc = "add", !.item = i, !.version = v])
        /\ UNCHANGED <<db, memcache, done, began, tableVars, stray>>
  BY DEF FetchReplica
<1> DEFINE c == [version |-> v, own |-> FALSE]
           r == [req[j] EXCEPT !.pc = "add", !.item = i, !.version = v]
<1>2. /\ TypeOK /\ req[j] \in Request /\ i \in Items /\ v \in Versions
  <2>1. TypeOK /\ i \in Items /\ db[i] \in Versions /\ req[j] \in Request
    BY RequestTypes, ConstantTypes DEF CacheInv, TypeOK
  <2> QED
    BY <2>1, ConstantTypes DEF Versions
<1>3. c \in Cached /\ ~c.own
  BY <1>2 DEF Cached
<1>4. r \in Request /\ r.snap = req[j].snap /\ r.pc = "add" /\ r.item \in TwoLevel
  BY <1>1, <1>2 DEF Request
<1> HIDE DEF c, r
<1>5. ram' = [ram EXCEPT ![j][i] = c] /\ Goto(j, r)
  BY <1>1 DEF c, r
<1>7. /\ req' \in [Jobs -> Request] /\ req'[j] = r
      /\ \A k \in Jobs : k # j => req'[k] = req[k]
  BY <1>2, <1>4, <1>5, GotoType
<1>0. DueStays
  BY <1>1, <1>7, DueKept DEF At, Telling
<1>6. /\ ram' \in [Jobs -> [Items -> Cached \cup {None}]] /\ RamInv(j)'
      /\ \A k \in Jobs : k # j => ram'[k] = ram[k]
  BY <1>0, <1>1, <1>3, <1>5, RamSet DEF tableVars
<1>8. TypeOK'
  BY <1>1, <1>2, <1>6, <1>7 DEF TypeOK, tableVars
<1>9. RequestInv(j)'
  BY <1>0, <1>1, <1>4, <1>7, SnapshotRequest DEF tableVars
<1>10. VersionsInv' /\ MemcacheInv'
  BY <1>1, <1>4, <1>7, VersionsSame, MemcacheSame DEF tableVars, At, Invalidating, Telling
<1> QED
  BY <1>0, <1>1, <1>6, <1>7, <1>8, <1>9, <1>10, QuietInv DEF tableVars

\* Values in RAM stay or are dropped, in a step that keeps what is owed.
LEMMA RamKept ==
    ASSUME CacheInv, NEW j \in Jobs,
           \A i \in Items : ram'[j][i] = ram[j][i] \/ ram'[j][i] = None,
           \A i \in Read, v \in Versions : Owed(j, i, v) => Owed(j, i, v)'
    PROVE  RamInv(j)'
<1>1. RamInv(j) /\ \A i \in Items : ram[j][i] \in Cached \cup {None}
  BY RequestTypes DEF CacheInv
<1> SUFFICES ASSUME NEW i \in Items, ram'[j][i] # None
             PROVE  i \in Read /\ (ram'[j][i].own => Owed(j, i, ram[j][i].version)')
  BY DEF RamInv
<1>2. PICK v \in Versions : v = ram[j][i].version
  BY <1>1 DEF Cached
<1>3. ram'[j][i] = ram[j][i] /\ i \in Read /\ (ram[j][i].own => Owed(j, i, v))
  BY <1>1, <1>2 DEF RamInv
<1>4. Owed(j, i, v) => Owed(j, i, v)'
  BY <1>3
<1> QED
  BY <1>2, <1>3, <1>4

\* So does a step that leaves the tables alone.
LEMMA RamDropped ==
    ASSUME CacheInv, NEW j \in Jobs,
           \A i \in Items : ram'[j][i] = ram[j][i] \/ ram'[j][i] = None,
           UNCHANGED <<db, rows, missed, cutoff>>, done'[j] = done[j], DueStays
    PROVE  RamInv(j)'
<1>1. \A i \in Read, v \in Versions : Owed(j, i, v) => Owed(j, i, v)'
  BY OwedSame
<1> QED
  BY <1>1, RamKept

-----------------------------------------------------------------------------
(* Memcache.                                                                 *)

\* An old value that is added to memcache is accounted for.
LEMMA AddToMemcacheInv ==
    ASSUME CacheInv, NEW j \in Jobs, AddToMemcache(j)
    PROVE  CacheInv'
<1> DEFINE i == req[j].item
           r == [Open EXCEPT !.snap = req[j].snap]
<1>1. /\ At(j, "add") /\ Goto(j, r)
      /\ \/ /\ memcache' = [memcache EXCEPT ![i] = req[j].version]
            /\ stray' = IF req[j].version < db[i] THEN stray \cup {i} ELSE stray \ {i}
         \/ UNCHANGED <<memcache, stray>>
         \/ memcache' = [memcache EXCEPT ![i] = Locked] /\ stray' = stray \ {i}
      /\ UNCHANGED <<db, done, ram, began, tableVars>>
  BY DEF AddToMemcache
<1>2. /\ TypeOK /\ req[j] \in Request /\ i \in TwoLevel /\ i \in Items
      /\ req[j].version \in Versions
  BY <1>1, RequestTypes, ConstantTypes DEF CacheInv, RequestInv
<1>3. r \in Request /\ r.snap = req[j].snap /\ r.pc = "open"
  BY <1>2, ConstantTypes DEF Request, Open
<1> HIDE DEF r
<1>4. /\ req' \in [Jobs -> Request] /\ req'[j] = r
      /\ \A k \in Jobs : k # j => req'[k] = req[k]
  BY <1>1, <1>2, <1>3, GotoType
<1>5. /\ memcache' \in [Items -> Versions \cup {None, Locked}] /\ stray' \subseteq Items
      /\ \A k \in Items : k # i => memcache'[k] = memcache[k] /\ (k \in stray' <=> k \in stray)
      /\ \/ memcache'[i] = memcache[i] /\ (i \in stray' <=> i \in stray)
         \/ memcache'[i] = req[j].version /\ (req[j].version < db[i] => i \in stray')
         \/ memcache'[i] = Locked
  <2> HIDE DEF i
  <2> QED
    BY <1>1, <1>2 DEF TypeOK
<1>6. TypeOK'
  BY <1>1, <1>2, <1>4, <1>5 DEF TypeOK, tableVars
<1>0. DueStays
  BY <1>1, <1>4, DueKept DEF At, Telling
<1>7. RequestInv(j)'
  BY <1>0, <1>1, <1>3, <1>4, SnapshotRequest DEF tableVars
<1>8. VersionsInv'
  BY <1>1, <1>3, <1>4, VersionsSame DEF tableVars, At
<1>9. MemcacheInv'
  <2>1. MemcacheInv /\ req[j].pc \notin Invalidating /\ db' = db
    BY <1>1 DEF CacheInv, At, Invalidating, Telling, tableVars
  <2>2. \A k \in Items : (memcache[k] \in Versions => k \in TwoLevel) /\ memcache'[k] \in Versions
                           => k \in TwoLevel
    BY <1>2, <1>5
  <2>3. ASSUME NEW k \in Items, memcache'[k] \in Versions, memcache'[k] < db[k]
        PROVE  \/ k \in stray'
               \/ \E l \in Jobs : req'[l].pc \in Invalidating /\ req'[l].item = k
    <3>1. CASE memcache'[k] = memcache[k] /\ (k \in stray' <=> k \in stray)
      BY <1>4, <2>1, <2>3, <3>1 DEF MemcacheInv, MemcacheForgets
    <3>2. CASE k = i /\ memcache'[i] = req[j].version /\ (req[j].version < db[i] => i \in stray')
      BY <2>3, <3>2
    <3>3. CASE k = i /\ memcache'[i] = Locked
      BY <2>3, <3>3, ConstantTypes
    <3> QED
      BY <1>5, <3>1, <3>2, <3>3
  <2> QED
    BY <2>1, <2>2, <2>3 DEF MemcacheInv, MemcacheForgets
<1>10. RamInv(j)'
  BY <1>0, <1>1, RamDropped DEF tableVars
<1> QED
  BY <1>0, <1>1, <1>4, <1>6, <1>7, <1>8, <1>9, <1>10, QuietInv DEF tableVars

\* After an update the old value goes, and none comes back at once.
LEMMA DeleteFromMemcacheInv ==
    ASSUME CacheInv, NEW j \in Jobs, DeleteFromMemcache(j)
    PROVE  CacheInv'
<1> DEFINE i == req[j].item
           r == Open
<1>1. /\ At(j, "forget") /\ Goto(j, r)
      /\ memcache' = IF i \in TwoLevel THEN [memcache EXCEPT ![i] = Locked] ELSE memcache
      /\ stray' = stray \ {i}
      /\ UNCHANGED <<db, done, ram, began, tableVars>>
  BY DEF DeleteFromMemcache
<1>2. TypeOK /\ req[j] \in Request /\ i \in Items
  BY <1>1, RequestTypes, ConstantTypes DEF CacheInv, RequestInv, At, Invalidating
<1>3. r \in Request /\ r.snap = None /\ r.pc = "open"
  BY <1>2, ConstantTypes DEF Request, Open
<1> HIDE DEF r
<1>4. /\ req' \in [Jobs -> Request] /\ req'[j] = r
      /\ \A k \in Jobs : k # j => req'[k] = req[k]
  BY <1>1, <1>2, <1>3, GotoType
<1>5. TypeOK'
  BY <1>1, <1>2, <1>4 DEF TypeOK, tableVars
<1>0. DueStays
  BY <1>1, <1>4, DueKept DEF At, Telling
<1>6. RequestInv(j)'
  <2>1. began' = began /\ db' = db /\ \A k \in Items : began[j][k] <= db[k]
    BY <1>1 DEF tableVars, CacheInv, RequestInv
  <2> QED
    BY <1>3, <1>4, <2>1 DEF RequestInv, At, Invalidating, Telling
<1>7. VersionsInv'
  BY <1>1, <1>3, <1>4, VersionsSame DEF tableVars, At
<1>8. MemcacheInv'
  <2>1. MemcacheInv
    BY DEF CacheInv
  <2>2. \A k \in Items : memcache'[k] \in Versions =>
            k # i /\ memcache'[k] = memcache[k] /\ (k \in stray' <=> k \in stray)
    BY <1>1, <1>2, <2>1, ConstantTypes DEF TypeOK, MemcacheInv
  <2> QED
    BY <1>1, <1>4, <2>1, <2>2 DEF MemcacheInv, MemcacheForgets, tableVars
<1>9. RamInv(j)'
  BY <1>0, <1>1, RamDropped DEF tableVars
<1> QED
  BY <1>0, <1>1, <1>4, <1>5, <1>6, <1>7, <1>8, <1>9, QuietInv DEF tableVars

\* Memcache forgets on its own.
LEMMA EvictInv ==
    ASSUME CacheInv, NEW i \in Items, Evict(i)
    PROVE  CacheInv'
<1>1. /\ memcache' = [memcache EXCEPT ![i] = None]
      /\ UNCHANGED <<db, done, ram, req, began, tableVars, stray>>
  BY DEF Evict
<1>2. TypeOK'
  BY <1>1 DEF CacheInv, TypeOK, tableVars
<1>3. RowsInv' /\ VersionsInv'
  BY <1>1 DEF CacheInv, RowsInv, VersionsInv, At, tableVars
<1>4. MemcacheInv'
  <2>1. \A k \in Items : memcache'[k] \in Versions => memcache'[k] = memcache[k]
    BY <1>1, ConstantTypes DEF CacheInv, TypeOK
  <2> QED
    BY <1>1, <2>1 DEF CacheInv, MemcacheInv, MemcacheForgets
<1>5. \A k \in Items : db[k] \in Nat /\ db'[k] = db[k]
  BY <1>1, ConstantTypes DEF CacheInv, TypeOK
<1>6. ASSUME NEW k \in Jobs PROVE RequestInv(k)' /\ RamInv(k)'
  <2>0. DueStays
    BY <1>1 DEF DueStays, RowDue
  <2>1. \A l \in Read, v \in Versions : Owed(k, l, v) => Owed(k, l, v)'
    BY <1>1, <2>0, OwedSame DEF tableVars
  <2> QED
    BY <1>1, <1>5, <2>1, OthersInv
<1> QED
  BY <1>2, <1>3, <1>4, <1>6 DEF CacheInv

-----------------------------------------------------------------------------
(* Updating.                                                                 *)

\* An update is made from the snapshot.
LEMMA LoadForUpdateInv ==
    ASSUME CacheInv, NEW j \in Jobs, NEW i \in Items, LoadForUpdate(j, i)
    PROVE  CacheInv'
<1> DEFINE r == [req[j] EXCEPT !.pc = "loaded", !.snap = Snapshot(j), !.item = i,
                               !.version = Snapshot(j)[i]]
<1>1. /\ At(j, "open") /\ i \in Writes[j] /\ Goto(j, r)
      /\ UNCHANGED <<db, memcache, done, ram, began, tableVars, stray>>
  BY DEF LoadForUpdate
<1>2. /\ TypeOK /\ req[j] \in Request
      /\ Snapshot(j) \in [Items -> Versions] /\ Snapshot(j)[i] \in Versions
  BY RequestTypes, SnapshotInv DEF CacheInv
<1>3. /\ r \in Request /\ r.snap = Snapshot(j) /\ r.pc = "loaded" /\ r.item = i
      /\ r.version = Snapshot(j)[i]
  BY <1>1, <1>2 DEF Request
<1> HIDE DEF r
<1>4. /\ req' \in [Jobs -> Request] /\ req'[j] = r
      /\ \A k \in Jobs : k # j => req'[k] = req[k]
  BY <1>1, <1>2, <1>3, GotoType
<1>5. TypeOK'
  BY <1>1, <1>2, <1>4 DEF TypeOK, tableVars
<1>0. DueStays
  BY <1>1, <1>4, DueKept DEF At, Telling
<1>6. RequestInv(j)'
  BY <1>0, <1>1, <1>3, <1>4, SnapshotRequest DEF tableVars
<1>7. VersionsInv' /\ MemcacheInv'
  BY <1>1, <1>3, <1>4, VersionsSame, MemcacheSame DEF tableVars, At, Invalidating, Telling
<1>8. RamInv(j)'
  BY <1>0, <1>1, RamDropped DEF tableVars
<1> QED
  BY <1>0, <1>1, <1>4, <1>5, <1>6, <1>7, <1>8, QuietInv DEF tableVars

\* A request that is in the middle of an update and keeps its snapshot, or
\* ends its transaction.
LEMMA UpdatingRequest ==
    ASSUME CacheInv, NEW j \in Jobs, NEW r \in Request,
           r.pc \in {"inserted"} \cup Invalidating,
           req[j].pc \in {"loaded", "inserted"} \cup Invalidating,
           r.item = req[j].item,
           r.pc = "inserted" => req[j].pc = "loaded" /\ r.version = req[j].version,
           r.pc \in {"inserted", "late", "purge"} => r.key \in KeysOf[r.item] /\ r.ts \in Steps,
           r.snap \in {req[j].snap, None},
           req'[j] = r, began'[j] = began[j],
           \A i \in Items : db[i] \in Nat /\ db'[i] \in Nat /\ db[i] <= db'[i],
           \A i \in Read, v \in Versions : Owed(j, i, v) => Owed(j, i, v)'
    PROVE  RequestInv(j)'
<1>1. TypeOK /\ RequestInv(j) /\ began[j] \in [Items -> Nat]
  BY RequestTypes, ConstantTypes DEF CacheInv
<1>2. r.snap # None =>
          /\ \A i \in Writes[j] : began[j][i] <= r.snap[i]
          /\ \A i \in Read : Owed(j, i, r.snap[i])
  BY <1>1 DEF RequestInv
<1>3. r.snap # None => \A i \in Read : Owed(j, i, r.snap[i])'
  <2> SUFFICES ASSUME r.snap # None, NEW i \in Read PROVE Owed(j, i, r.snap[i])'
    OBVIOUS
  <2>1. PICK v \in Versions : v = r.snap[i]
    BY ConstantTypes DEF Request
  <2>2. Owed(j, i, v)'
    BY <1>2, <2>1
  <2> QED
    BY <2>1, <2>2
<1>4. \A i \in Items : (began[j][i] <= db[i])'
  <2> TAKE i \in Items
  <2>1. began[j][i] \in Nat /\ began[j][i] <= db[i] /\ db[i] <= db'[i]
    BY <1>1 DEF RequestInv
  <2> QED
    BY <2>1
<1>5. r.item \in Writes[j] /\ (r.pc = "inserted" => r.version >= began[j][r.item])
  BY <1>1 DEF RequestInv
<1> QED
  BY <1>2, <1>3, <1>4, <1>5 DEF RequestInv, At, Invalidating, Telling

\* In a step that leaves the tables alone.
LEMMA UpdatingQuietly ==
    ASSUME CacheInv, NEW j \in Jobs, NEW r \in Request,
           r.pc \in {"inserted"} \cup Invalidating,
           req[j].pc \in {"loaded", "inserted"} \cup Invalidating,
           r.item = req[j].item,
           r.pc = "inserted" => req[j].pc = "loaded" /\ r.version = req[j].version,
           r.pc \in {"inserted", "late", "purge"} => r.key \in KeysOf[r.item] /\ r.ts \in Steps,
           r.snap \in {req[j].snap, None},
           req'[j] = r, UNCHANGED <<db, rows, missed, cutoff, done, began>>, DueStays
    PROVE  RequestInv(j)'
<1>1. \A i \in Items : db[i] \in Nat /\ db'[i] \in Nat /\ db[i] <= db'[i]
  <2>1. db' = db /\ \A i \in Items : db[i] \in Nat
    BY ConstantTypes DEF CacheInv, TypeOK
  <2> QED
    BY <2>1
<1>2. \A i \in Read, v \in Versions : Owed(j, i, v) => Owed(j, i, v)'
  BY OwedSame
<1> QED
  BY <1>1, <1>2, UpdatingRequest

\* The row of an update gets the next timestep.  If its transaction has also
\* changed the item, no other job changes the item now.
LEMMA InsertInv ==
    ASSUME CacheInv, NEW j \in Jobs, Insert(j)
    PROVE  CacheInv'
<1> DEFINE i == req[j].item
<1>1. PICK key \in KeysOf[i] :
        /\ At(j, "loaded") => Unlocked(i) /\ db[i] < Updates[i]
        /\ step < MaxStep /\ step' = step + 1
        /\ ram' = [ram EXCEPT ![j] = [k \in Items |->
                      IF k \in (IF key = All THEN {l \in Items : KindOf[l] = KindOf[i]} ELSE {i})
                      THEN None ELSE ram[j][k]]]
        /\ Goto(j, [req[j] EXCEPT !.pc = IF @ = "loaded" THEN "inserted" ELSE "late",
                                  !.key = key, !.ts = step + 1])
        /\ UNCHANGED <<db, memcache, done, began, rows, cut, raced, cutoff, missed, stray>>
  BY DEF Insert
<1> DEFINE pc == IF req[j].pc = "loaded" THEN "inserted" ELSE "late"
           r == [req[j] EXCEPT !.pc = pc, !.key = key, !.ts = step + 1]
<1>0. /\ req[j].pc \in {"loaded", "changed"}
      /\ req[j].pc = "loaded" => pc = "inserted"
      /\ req[j].pc = "changed" => pc = "late"
  BY DEF Insert
<1>2. /\ TypeOK /\ req[j] \in Request /\ i \in Items /\ i \in Writes[j] /\ step \in 0 .. MaxStep
  BY <1>0, RequestTypes, ConstantTypes DEF CacheInv, RequestInv, TypeOK, Invalidating, Telling
<1>3. step + 1 \in Steps /\ step + 1 \in 0 .. MaxStep /\ key \in Items \cup {All}
  BY <1>1, <1>2, ConstantTypes DEF Steps
<1> HIDE DEF pc
<1>4. /\ r \in Request /\ r.snap = req[j].snap /\ r.pc = pc /\ r.item = i
      /\ r.version = req[j].version /\ r.key = key /\ r.ts = step + 1
  <2> HIDE DEF i
  <2>1. i = req[j].item /\ pc \in {"inserted", "late"}
    BY <1>0 DEF i
  <2>2. PICK t \in 0 .. MaxStep : t = step + 1
    BY <1>3
  <2>3. r = [req[j] EXCEPT !.pc = pc, !.key = key, !.ts = t]
    BY <2>2
  <2> QED
    BY <1>2, <1>3, <2>1, <2>2, <2>3 DEF Request, Invalidating, Telling
<1>5. /\ req' \in [Jobs -> Request] /\ req'[j] = r
      /\ \A k \in Jobs : k # j => req'[k] = req[k]
  <2>1. Goto(j, r)
    BY <1>1 DEF r, pc, Goto
  <2> QED
    BY <2>1, <1>2, <1>4, GotoType
<1> HIDE DEF r
<1>6. /\ ram' \in [Jobs -> [Items -> Cached \cup {None}]]
      /\ \A k \in Jobs : k # j => ram'[k] = ram[k]
      /\ \A k \in Items : ram'[j][k] = ram[j][k] \/ ram'[j][k] = None
  BY <1>1, <1>2 DEF TypeOK
<1>7. TypeOK'
  BY <1>1, <1>2, <1>3, <1>5, <1>6 DEF TypeOK
<1>8. DueStays
  BY <1>0, <1>4, <1>5, DueKept DEF Telling
<1>9. RequestInv(j)'
  BY <1>0, <1>1, <1>3, <1>4, <1>5, <1>8, UpdatingQuietly DEF Invalidating, Telling
<1>10. RamInv(j)'
  BY <1>1, <1>6, <1>8, RamDropped
<1>11. VersionsInv'
  <2>1. VersionsInv
    BY DEF CacheInv
  <2>2. CASE req[j].pc = "loaded"
    BY <1>0, <1>1, <1>4, <1>5, <2>1, <2>2 DEF VersionsInv, At, Unlocked
  <2>3. CASE req[j].pc = "changed"
    BY <1>0, <1>1, <1>4, <1>5, <2>1, <2>3 DEF VersionsInv, At
  <2> QED
    BY <1>0, <2>2, <2>3
<1>12. MemcacheInv'
  BY <1>0, <1>1, <1>4, <1>5, MemcacheSame DEF Invalidating, Telling
<1> QED
  BY <1>1, <1>5, <1>6, <1>7, <1>8, <1>9, <1>10, <1>11, <1>12, QuietInv

\* A change that is committed before its row leaves the row to be written.
LEMMA ChangeInv ==
    ASSUME CacheInv, NEW j \in Jobs, Change(j)
    PROVE  CacheInv'
<1> DEFINE i == req[j].item
<1>1. PICK v \in {0, db[i] + 1} :
        /\ Unlocked(i) /\ db[i] < Updates[i]
        /\ db' = [db EXCEPT ![i] = Max({db[i], v})]
        /\ Goto(j, [req[j] EXCEPT !.pc = "changed", !.snap = None, !.version = v])
        /\ UNCHANGED <<memcache, done, ram, began, tableVars, stray>>
  BY DEF Change
<1> DEFINE r == [req[j] EXCEPT !.pc = "changed", !.snap = None, !.version = v]
<1>2. /\ TypeOK /\ RowsInv /\ VersionsInv /\ MemcacheInv /\ req[j].pc = "loaded"
      /\ req[j] \in Request /\ i \in Items /\ i \in Writes[j]
  BY RequestTypes, ConstantTypes DEF CacheInv, RequestInv, At, Change
<1>3. /\ db[i] \in Nat /\ Updates[i] \in Nat /\ Updates[i] <= MaxVersion /\ MaxVersion \in Nat
  BY <1>2, ConstantTypes DEF TypeOK
<1>4. db[i] + 1 \in Versions /\ v \in Versions
  BY <1>1, <1>3 DEF Versions
<1>5. Max({db[i], v}) = IF v = 0 THEN db[i] ELSE db[i] + 1
  <2> DEFINE T == {db[i], v}
  <2>1. T \in SUBSET (0 .. MaxVersion) /\ T # {}
    BY <1>2, <1>4 DEF TypeOK, Versions
  <2>2. Max(T) \in T /\ \A x \in T : x <= Max(T)
    <3> HIDE DEF T
    <3> QED
      BY <1>3, <2>1, MaxOf
  <2> QED
    BY <1>1, <1>3, <2>2
<1>6. /\ r \in Request /\ r.pc = "changed" /\ r.snap = None /\ r.item = i /\ r.version = v
  <2> HIDE DEF i
  <2>1. i = req[j].item
    BY DEF i
  <2> QED
    BY <1>2, <1>4, <2>1 DEF Request, Invalidating, Telling
<1> HIDE DEF i, r
<1>7. /\ req' \in [Jobs -> Request] /\ req'[j] = r
      /\ \A k \in Jobs : k # j => req'[k] = req[k]
  <2>1. Goto(j, r)
    BY <1>1 DEF r
  <2> QED
    BY <1>2, <1>6, <2>1, GotoType
<1>8. /\ db' \in [Items -> Versions] /\ db'[i] = IF v = 0 THEN db[i] ELSE db[i] + 1
      /\ \A k \in Items : k # i => db'[k] = db[k]
  <2>1. (IF v = 0 THEN db[i] ELSE db[i] + 1) \in Versions
    BY <1>2, <1>4 DEF TypeOK
  <2> QED
    BY <1>1, <1>2, <1>5, <2>1 DEF TypeOK
<1>9. TypeOK'
  BY <1>1, <1>2, <1>7, <1>8 DEF TypeOK, tableVars
<1>10. \A k \in Items : db[k] \in Nat /\ db'[k] \in Nat /\ db[k] <= db'[k]
  <2>1. \A k \in Items : db[k] \in Nat /\ db'[k] \in Nat
    BY <1>2, <1>8, ConstantTypes DEF TypeOK
  <2> QED
    BY <1>8, <2>1
<1>11. RowsInv'
  BY <1>1, <1>2 DEF RowsInv, tableVars
<1>12. VersionsInv'
  <2>1. ASSUME NEW k \in Jobs, At(k, "inserted")'
        PROVE  k # j /\ At(k, "inserted") /\ req'[k] = req[k] /\ req[k].item # i
    <3>1. k # j
      BY <1>6, <1>7, <2>1 DEF At
    <3> QED
      BY <1>1, <1>7, <2>1, <3>1 DEF At, Unlocked
  <2>2. ASSUME NEW k \in Jobs, At(k, "inserted")'
        PROVE  db'[req'[k].item] < Updates[req'[k].item]
    <3>1. req[k].item \in Items
      BY <2>1, <2>2, ConstantTypes DEF CacheInv, RequestInv, At
    <3> QED
      BY <1>2, <1>8, <2>1, <2>2, <3>1 DEF VersionsInv
  <2>3. ASSUME NEW k \in Jobs, NEW l \in Jobs, k # l, At(k, "inserted")', At(l, "inserted")'
        PROVE  req'[k].item # req'[l].item
    BY <1>2, <2>1, <2>3 DEF VersionsInv
  <2> QED
    BY <2>2, <2>3 DEF VersionsInv
<1>13. MemcacheInv'
  <2>1. ASSUME NEW k \in Items, memcache'[k] \in Versions, memcache'[k] < db'[k]
        PROVE  \/ k \in stray'
               \/ \E l \in Jobs : req'[l].pc \in Invalidating /\ req'[l].item = k
    <3>1. CASE k = i
      BY <1>6, <1>7, <3>1 DEF Invalidating, Telling
    <3>2. CASE k # i
      BY <1>1, <1>2, <1>7, <1>8, <2>1, <3>2 DEF MemcacheInv, MemcacheForgets, Invalidating, Telling
    <3> QED
      BY <3>1, <3>2
  <2> QED
    BY <1>1, <1>2, <2>1 DEF MemcacheInv, MemcacheForgets
<1>14. ASSUME NEW k \in Jobs, NEW l \in Read, NEW w \in Versions, Owed(k, l, w)
       PROVE  Owed(k, l, w)'
  <2> SUFFICES ASSUME w < db'[l], missed'[l] <= w
               PROVE  \/ \E q \in New(k)' : About(q, l, w)
                      \/ RowDue(l, w)'
                      \/ Overflow(k)' /\ w < cutoff'[l]
    BY DEF Owed, About
  <2>0. l \in Items /\ w \in Nat
    BY ConstantTypes
  <2>1. CASE l = i /\ v # 0
    <3>1. v > w
      BY <1>1, <1>3, <1>8, <2>0, <2>1
    <3> QED
      BY <1>6, <1>7, <2>1, <3>1 DEF RowDue, Telling
  <2>2. CASE ~(l = i /\ v # 0)
    <3>1. db'[l] = db[l] /\ missed' = missed /\ cutoff' = cutoff
      BY <1>1, <1>8, <2>0, <2>2 DEF tableVars
    <3>2. New(k)' = New(k)
      BY <1>1 DEF New, tableVars
    <3>3. Overflow(k)' = Overflow(k)
      BY <3>2 DEF Overflow
    <3>4. DueStays
      BY <1>2, <1>7, DueKept DEF Telling
    <3>5. RowDue(l, w) => RowDue(l, w)'
      BY <3>4 DEF DueStays
    <3> QED
      BY <1>14, <3>1, <3>2, <3>3, <3>5 DEF Owed
  <2> QED
    BY <2>1, <2>2
<1>15. RequestInv(j)' /\ RamInv(j)'
  <2>1. RamInv(j)'
    BY <1>1, <1>14, RamKept
  <2>2. RequestInv(j)'
    BY <1>1, <1>2, <1>6, <1>7, <1>10, <1>14, UpdatingRequest DEF i, Invalidating, Telling
  <2> QED
    BY <2>1, <2>2
<1>16. ASSUME NEW k \in Jobs, k # j PROVE RequestInv(k)' /\ RamInv(k)'
  BY <1>1, <1>7, <1>10, <1>14, <1>16, OthersInv
<1> QED
  BY <1>9, <1>11, <1>12, <1>13, <1>15, <1>16 DEF CacheInv

\* A row that a job will not write is among those that are missed.
LEMMA UntoldBounds ==
    ASSUME TypeOK, NEW j \in Jobs
    PROVE  /\ Untold(j) \in [Read -> Versions]
           /\ \A i \in Read :
                 /\ missed[i] <= Untold(j)[i]
                 /\ req[j].pc \in Telling /\ req[j].item = i => req[j].version <= Untold(j)[i]
<1>1. ASSUME NEW i \in Read
      PROVE  /\ Untold(j)[i] \in Versions /\ missed[i] <= Untold(j)[i]
             /\ req[j].pc \in Telling /\ req[j].item = i => req[j].version <= Untold(j)[i]
  <2> DEFINE T == {missed[i], req[j].version}
  <2>1. missed[i] \in Versions /\ missed[i] \in Nat /\ req[j].version \in Versions
    BY RequestTypes, ConstantTypes DEF TypeOK
  <2>2. T \in SUBSET (0 .. MaxVersion) /\ T # {} /\ MaxVersion \in Nat
    BY <2>1, ConstantTypes DEF Versions
  <2>3. Max(T) \in T /\ \A x \in T : x <= Max(T)
    <3> HIDE DEF T
    <3> QED
      BY <2>2, MaxOf
  <2>4. Untold(j)[i] = IF req[j].pc \in Telling /\ req[j].item = i THEN Max(T) ELSE missed[i]
    BY DEF Untold
  <2> QED
    BY <2>1, <2>3, <2>4
<1>2. Untold(j) = [i \in Read |-> Untold(j)[i]]
  BY DEF Untold
<1> QED
  BY <1>1, <1>2

\* Nothing else is owed when it is given up.
LEMMA UntoldOwed ==
    ASSUME TypeOK, NEW j \in Jobs, missed' = Untold(j), UNCHANGED <<db, rows, cutoff>>,
           \A k \in Jobs : k # j => req'[k] = req[k]
    PROVE  /\ \A i \in Read, v \in Versions :
                 /\ missed'[i] <= v => missed[i] <= v
                 /\ RowDue(i, v) /\ missed'[i] <= v => RowDue(i, v)'
           /\ \A k \in Jobs : done'[k] = done[k] =>
                 \A i \in Read, v \in Versions : Owed(k, i, v) => Owed(k, i, v)'
<1>1. ASSUME NEW i \in Read, NEW v \in Versions, missed'[i] <= v
      PROVE  missed[i] <= v /\ (RowDue(i, v) => RowDue(i, v)')
  <2>1. /\ missed[i] \in Nat /\ missed'[i] \in Nat /\ v \in Nat /\ req[j].version \in Nat
        /\ missed[i] <= missed'[i]
        /\ req[j].pc \in Telling /\ req[j].item = i => req[j].version <= missed'[i]
    <3>1. missed[i] \in Versions /\ missed'[i] \in Versions /\ req[j].version \in Versions
      BY UntoldBounds, RequestTypes DEF TypeOK
    <3> QED
      BY <3>1, UntoldBounds, ConstantTypes
  <2>2. ~(req[j].pc \in Telling /\ req[j].item = i /\ req[j].version > v)
    BY <1>1, <2>1
  <2>3. RowDue(i, v) => RowDue(i, v)'
    BY <2>2 DEF RowDue
  <2> QED
    BY <1>1, <2>1, <2>3
<1>2. ASSUME NEW k \in Jobs, done'[k] = done[k], NEW i \in Read, NEW v \in Versions, Owed(k, i, v)
      PROVE  Owed(k, i, v)'
  <2>1. New(k)' = New(k)
    BY <1>2 DEF New
  <2>2. Overflow(k)' = Overflow(k)
    BY <2>1 DEF Overflow
  <2> QED
    BY <1>1, <1>2, <2>1, <2>2 DEF Owed, About
<1> QED
  BY <1>1, <1>2

\* The requests that are left when a transaction has ended.
LEMMA EndedType ==
    ASSUME TypeOK, NEW j \in Jobs, RequestInv(j), req[j].pc \in {"inserted", "late"}
    PROVE  /\ Ended(j) \in Request /\ Ended(j).pc \in {"purge", "forget"} /\ Ended(j).snap = None
           /\ Ended(j).item = req[j].item
           /\ Ended(j).pc = "purge" => Ended(j).key \in KeysOf[req[j].item] /\ Ended(j).ts \in Steps
<1>1. req[j] \in Request /\ req[j].key \in KeysOf[req[j].item] /\ req[j].ts \in Steps
  BY RequestTypes DEF RequestInv
<1>2. CASE req[j].key = All
  <2>1. Ended(j) = [req[j] EXCEPT !.pc = "purge", !.snap = None, !.version = 0]
    BY <1>2 DEF Ended
  <2> QED
    BY <1>1, <2>1, ConstantTypes DEF Request, Invalidating, Telling
<1>3. CASE req[j].key # All
  <2>1. Ended(j) = [Open EXCEPT !.pc = "forget", !.item = req[j].item]
    BY <1>3 DEF Ended, Forgetting
  <2>2. req[j].item \in Items \cup {None}
    BY RequestTypes
  <2> QED
    BY <2>1, <2>2, ConstantTypes DEF Request, Open, Invalidating, Telling
<1> QED
  BY <1>2, <1>3

\* A commit that fails leaves the tables alone.
LEMMA CommitFailsInv ==
    ASSUME CacheInv, NEW j \in Jobs, CommitFails(j)
    PROVE  CacheInv'
<1> DEFINE r == Ended(j)
<1>1. /\ req[j].pc \in {"inserted", "late"} /\ Goto(j, r) /\ missed' = Untold(j)
      /\ UNCHANGED <<db, memcache, done, ram, began, rows, step, cut, raced, cutoff, stray>>
  BY DEF CommitFails
<1>2. TypeOK /\ RowsInv /\ RequestInv(j)
  BY DEF CacheInv
<1>3. /\ r \in Request /\ r.pc \in {"purge", "forget"} /\ r.snap = None /\ r.item = req[j].item
      /\ r.pc = "purge" => r.key \in KeysOf[r.item] /\ r.ts \in Steps
  BY <1>1, <1>2, EndedType
<1> HIDE DEF r
<1>4. /\ req' \in [Jobs -> Request] /\ req'[j] = r
      /\ \A k \in Jobs : k # j => req'[k] = req[k]
  BY <1>1, <1>2, <1>3, GotoType
<1>5. TypeOK'
  BY <1>1, <1>2, <1>4, UntoldBounds DEF TypeOK
<1>6. \A k \in Jobs, i \in Read, v \in Versions : Owed(k, i, v) => Owed(k, i, v)'
  BY <1>1, <1>2, <1>4, UntoldOwed
<1>7. \A i \in Items : db[i] \in Nat /\ db'[i] \in Nat /\ db[i] <= db'[i]
  <2>1. db' = db /\ \A i \in Items : db[i] \in Nat
    BY <1>1, <1>2, ConstantTypes DEF TypeOK
  <2> QED
    BY <2>1
<1>8. RequestInv(j)'
  BY <1>1, <1>3, <1>4, <1>6, <1>7, UpdatingRequest DEF Invalidating, Telling
<1>9. RamInv(j)'
  BY <1>1, <1>6, RamKept
<1>10. RowsInv'
  BY <1>1, <1>2 DEF RowsInv
<1>11. VersionsInv' /\ MemcacheInv'
  BY <1>1, <1>3, <1>4, VersionsSame, MemcacheSame DEF At, Invalidating, Telling
<1>12. ASSUME NEW k \in Jobs, k # j PROVE RequestInv(k)' /\ RamInv(k)'
  BY <1>1, <1>4, <1>6, <1>7, <1>12, OthersInv
<1> QED
  BY <1>5, <1>8, <1>9, <1>10, <1>11, <1>12 DEF CacheInv

-----------------------------------------------------------------------------
(* The tables.                                                               *)

\* Some rows have a last one.
LEMMA LatestOf ==
    ASSUME TypeOK, NEW S \in SUBSET rows, S # {}
    PROVE  \E r \in S : \A q \in S : q.ts <= r.ts
<1> DEFINE T == {r.ts : r \in S}
<1>1. T \in SUBSET (0 .. MaxStep) /\ T # {} /\ MaxStep \in Nat
  <2>1. \A r \in S : r.ts \in 0 .. MaxStep
    BY ConstantTypes DEF TypeOK, Row
  <2> QED
    BY <2>1, ConstantTypes
<1>2. Max(T) \in T /\ \A x \in T : x <= Max(T)
  <2> HIDE DEF T
  <2> QED
    BY <1>1, MaxOf
<1>3. PICK r \in S : Max(T) = r.ts
  BY <1>2
<1>4. \A q \in S : q.ts <= r.ts
  BY <1>2, <1>3
<1> QED
  BY <1>4

\* Fewer rows than the limit are all among the last ones.
LEMMA LastStepsAll ==
    ASSUME NEW S, IsFiniteSet(S), NEW n \in Nat, Cardinality(S) < n
    PROVE  LastSteps(S, n) = S
<1> SUFFICES ASSUME NEW r \in S PROVE Cardinality({q \in S : q.ts > r.ts}) < n
  BY DEF LastSteps
<1>1. {q \in S : q.ts > r.ts} \in SUBSET S
  OBVIOUS
<1>2. /\ Cardinality({q \in S : q.ts > r.ts}) <= Cardinality(S)
      /\ Cardinality({q \in S : q.ts > r.ts}) \in Nat /\ Cardinality(S) \in Nat
  BY <1>1, FS_Subset, FS_CardinalityType
<1> QED
  BY <1>2

\* As many rows as the limit are at or above the first of the last ones.
LEMMA KeptEnough ==
    ASSUME TypeOK, IsFiniteSet(rows), Cardinality(rows) > Limit,
           NEW m, m = Min({r.ts : r \in LastSteps(rows, Limit)})
    PROVE  m \in Steps /\ Limit <= Cardinality({r \in rows : r.ts >= m})
<1> DEFINE L == LastSteps(rows, Limit)
           K == {r \in rows : r.ts >= m}
           Later(r) == {q \in rows : q.ts > r.ts}
<1>1. \A r \in rows : r.ts \in Steps /\ r.ts \in Nat
  BY ConstantTypes DEF TypeOK, Row
<1>2. \A r \in rows : Cardinality(Later(r)) < Limit => r \in L
  BY DEF LastSteps
<1>3. L \in SUBSET rows
  BY DEF LastSteps
<1>4. L # {}
  <2>1. rows # {} /\ Cardinality({}) < Limit
    BY FS_EmptySet, ConstantTypes
  <2>2. PICK r \in rows : \A q \in rows : q.ts <= r.ts
    BY <2>1, LatestOf
  <2>3. Later(r) = {}
    BY <1>1, <2>2
  <2> QED
    BY <1>2, <2>1, <2>3
<1>5. m \in {r.ts : r \in L} /\ \A r \in L : m <= r.ts
  <2> DEFINE T == {r.ts : r \in L}
  <2>1. T \in SUBSET Nat /\ T # {} /\ m = Min(T)
    BY <1>1, <1>3, <1>4
  <2>2. Min(T) \in T /\ \A x \in T : Min(T) <= x
    <3> HIDE DEF T
    <3> QED
      BY <2>1, MinOf
  <2> QED
    BY <2>1, <2>2
<1> HIDE DEF L, K, Later
<1>6. m \in Steps
  BY <1>1, <1>3, <1>5
<1>7. ~ (Cardinality(K) < Limit)
  <2> SUFFICES ASSUME Cardinality(K) < Limit PROVE FALSE
    OBVIOUS
  <2>1. K \in SUBSET rows /\ IsFiniteSet(K) /\ Cardinality(K) \in Nat /\ Cardinality(rows) \in Nat
    BY FS_Subset, FS_CardinalityType DEF K
  <2>2. K # rows
    BY <2>1, ConstantTypes
  <2>3. rows \ K \in SUBSET rows /\ rows \ K # {}
    BY <2>1, <2>2
  <2>4. PICK r \in rows \ K : \A q \in rows \ K : q.ts <= r.ts
    BY <2>3, LatestOf
  <2>5. Later(r) \in SUBSET K
    BY <1>1, <2>4 DEF Later
  <2>6. Cardinality(Later(r)) <= Cardinality(K) /\ Cardinality(Later(r)) \in Nat
    BY <2>1, <2>5, FS_Subset, FS_CardinalityType
  <2>7. r \in L
    BY <1>2, <2>1, <2>6, ConstantTypes
  <2> QED
    BY <1>5, <1>1, <1>6, <2>4, <2>7, ConstantTypes DEF K
<1>8. Cardinality(K) \in Nat
  BY FS_Subset, FS_CardinalityType DEF K
<1> QED
  BY <1>6, <1>7, <1>8, ConstantTypes DEF K

\* The cron looks at the rows.
LEMMA SelectKeptInv ==
    ASSUME CacheInv, SelectKept
    PROVE  CacheInv'
<1>1. /\ Cardinality(rows) > Limit /\ cut' = Min({r.ts : r \in LastSteps(rows, Limit)})
      /\ UNCHANGED <<db, memcache, done, ram, req, began, rows, step, raced, cutoff, missed, stray>>
  BY DEF SelectKept
<1>2. TypeOK /\ RowsInv
  BY DEF CacheInv
<1>3. PICK m : m = Min({r.ts : r \in LastSteps(rows, Limit)})
  OBVIOUS
<1>4. m \in Steps /\ Limit <= Cardinality({r \in rows : r.ts >= m}) /\ cut' = m
  BY <1>1, <1>2, <1>3, KeptEnough DEF RowsInv
<1>5. TypeOK'
  BY <1>1, <1>2, <1>4 DEF TypeOK
<1>6. RowsInv'
  <2>1. {r \in rows : r.ts >= m}' = {r \in rows : r.ts >= m}
    BY <1>1
  <2> QED
    BY <1>1, <1>2, <1>4 DEF RowsInv
<1>7. VersionsInv' /\ MemcacheInv'
  BY <1>1 DEF CacheInv, VersionsInv, MemcacheInv, MemcacheForgets, At
<1>8. \A k \in Items : db[k] \in Nat /\ db'[k] = db[k]
  BY <1>1, <1>2, ConstantTypes DEF TypeOK
<1>9. ASSUME NEW k \in Jobs PROVE RequestInv(k)' /\ RamInv(k)'
  <2>0. DueStays
    BY <1>1 DEF DueStays, RowDue
  <2>1. \A l \in Read, v \in Versions : Owed(k, l, v) => Owed(k, l, v)'
    BY <1>1, <2>0, OwedSame
  <2> QED
    BY <1>1, <1>8, <2>1, OthersInv
<1> QED
  BY <1>5, <1>6, <1>7, <1>9 DEF CacheInv

\* A job that has too many rows to look at still has, if it gets more.
LEMMA OverflowGrows ==
    ASSUME NEW j \in Jobs, IsFiniteSet(rows'), New(j) \subseteq New(j)', Overflow(j)
    PROVE  Overflow(j)'
<1>1. New(j)' \in SUBSET rows'
  BY DEF New
<1>2. IsFiniteSet(New(j)')
  BY <1>1, FS_Subset
<1>3. /\ Cardinality(New(j)) <= Cardinality(New(j)')
      /\ Cardinality(New(j)) \in Nat /\ Cardinality(New(j)') \in Nat
  BY <1>2, FS_Subset, FS_CardinalityType
<1> QED
  BY <1>3, ConstantTypes DEF Overflow

\* The history of deleted rows goes beyond every version they were about.
LEMMA LastOfBounds ==
    ASSUME TypeOK, NEW h \in [Read -> Versions], NEW S \in SUBSET rows
    PROVE  /\ LastOf(h, S) \in [Read -> Versions]
           /\ \A i \in Read :
                 /\ h[i] <= LastOf(h, S)[i]
                 /\ \A r \in S, v \in Versions :
                       About(r, i, v) /\ v < db[i] => v < LastOf(h, S)[i]
<1>1. ASSUME NEW i \in Read
      PROVE  /\ LastOf(h, S)[i] \in Versions /\ h[i] <= LastOf(h, S)[i]
             /\ \A v \in VersionsOf(i, S) : v \in Versions /\ v <= LastOf(h, S)[i]
  <2> DEFINE T == {h[i]} \cup VersionsOf(i, S)
  <2>1. i \in Items /\ db[i] \in Versions /\ h[i] \in Versions
    BY <1>1, ConstantTypes DEF TypeOK
  <2>2. \A r \in S : r.version \in Versions
    BY DEF TypeOK, Row
  <2>3. VersionsOf(i, S) \in SUBSET Versions
    BY <2>1, <2>2 DEF VersionsOf
  <2>4. T \in SUBSET (0 .. MaxVersion) /\ T # {} /\ MaxVersion \in Nat
    BY <2>1, <2>3, ConstantTypes DEF Versions
  <2>5. Max(T) \in T /\ \A x \in T : x <= Max(T)
    <3> HIDE DEF T
    <3> QED
      BY <2>4, MaxOf
  <2>6. LastOf(h, S)[i] = Max(T)
    BY DEF LastOf
  <2> QED
    BY <2>1, <2>3, <2>5, <2>6
<1>2. LastOf(h, S) \in [Read -> Versions]
  <2>1. LastOf(h, S) = [i \in Read |-> LastOf(h, S)[i]]
    BY DEF LastOf
  <2> QED
    BY <1>1, <2>1
<1>3. ASSUME NEW i \in Read, NEW r \in S, NEW v \in Versions, About(r, i, v), v < db[i]
      PROVE  v < LastOf(h, S)[i]
  <2>1. v \in Nat /\ LastOf(h, S)[i] \in Nat /\ db[i] \in Nat /\ r.version \in Nat
    BY <1>1, <1>3, ConstantTypes DEF TypeOK, Row
  <2>2. CASE r.of = i /\ r.version > v
    <3>1. r.version \in VersionsOf(i, S)
      BY <2>2 DEF VersionsOf
    <3>2. r.version <= LastOf(h, S)[i]
      BY <1>1, <3>1
    <3> QED
      BY <2>1, <2>2, <3>2
  <2>3. CASE r.key = All /\ r.kind = KindOf[i]
    <3>1. db[i] \in VersionsOf(i, S)
      BY <2>3 DEF VersionsOf
    <3>2. db[i] <= LastOf(h, S)[i]
      BY <1>1, <3>1
    <3> QED
      BY <1>3, <2>1, <3>2
  <2> QED
    BY <1>3, <2>2, <2>3 DEF About
<1> QED
  BY <1>1, <1>2, <1>3

\* A committed update is told by its row, unless a job has seen a later one.
LEMMA CommitInv ==
    ASSUME CacheInv, NEW j \in Jobs, Commit(j)
    PROVE  CacheInv'
<1> DEFINE i == req[j].item
           r == Ended(j)
<1>1. /\ req[j].pc \in {"inserted", "late"} /\ Goto(j, r)
      /\ db' = IF At(j, "inserted") THEN [db EXCEPT ![i] = @ + 1] ELSE db
      /\ rows' = rows \cup {NewRow(j)} /\ missed' = Skipped(j)
      /\ UNCHANGED <<memcache, done, ram, began, step, cut, raced, cutoff, stray>>
  BY DEF Commit
<1>2. /\ TypeOK /\ RowsInv /\ VersionsInv /\ MemcacheInv /\ RequestInv(j)
      /\ req[j] \in Request /\ i \in Items /\ req[j].key \in KeysOf[i] /\ req[j].ts \in Steps
      /\ req[j].version \in Versions
  BY <1>1, RequestTypes, ConstantTypes DEF CacheInv, RequestInv, Invalidating, Telling
<1>3. /\ r \in Request /\ r.pc \in {"purge", "forget"} /\ r.snap = None /\ r.item = i
      /\ r.pc = "purge" => r.key \in KeysOf[i] /\ r.ts \in Steps
  BY <1>1, <1>2, EndedType
<1>4. /\ db[i] \in Nat /\ MaxVersion \in Nat /\ Updates[i] \in Nat /\ Updates[i] <= MaxVersion
      /\ At(j, "inserted") => db[i] < Updates[i]
  BY <1>2, ConstantTypes DEF TypeOK, VersionsInv
<1>5. At(j, "inserted") => db[i] + 1 \in Versions
  BY <1>4 DEF Versions
<1>6. Made(j) \in Versions /\ Made(j) = IF At(j, "inserted") THEN db[i] + 1 ELSE req[j].version
  BY <1>2, <1>5 DEF Made
<1>18. NewRow(j) \in Row
  BY <1>2, <1>6, ConstantTypes DEF NewRow, Row
<1>19. ASSUME NEW l \in Read
       PROVE  /\ missed'[l] \in Versions /\ missed[l] <= missed'[l]
              /\ l = i /\ (\E k \in Jobs : done[k] >= req[j].ts) => Made(j) <= missed'[l]
  <2> DEFINE T == {missed[l], Made(j)}
  <2>1. missed[l] \in Versions /\ missed[l] \in Nat
    BY <1>2, ConstantTypes DEF TypeOK
  <2>2. T \in SUBSET (0 .. MaxVersion) /\ T # {}
    BY <1>6, <2>1 DEF Versions
  <2>3. Max(T) \in T /\ \A x \in T : x <= Max(T)
    <3> HIDE DEF T
    <3> QED
      BY <1>4, <2>2, MaxOf
  <2>4. missed'[l] = IF l = i /\ \E k \in Jobs : done[k] >= req[j].ts THEN Max(T) ELSE missed[l]
    BY <1>1 DEF Skipped
  <2> HIDE DEF i
  <2> QED
    BY <1>6, <2>1, <2>3, <2>4
<1>7. missed' \in [Read -> Versions]
  <2>1. missed' = [l \in Read |-> missed'[l]]
    BY <1>1 DEF Skipped
  <2> QED
    BY <1>19, <2>1
<1> HIDE DEF i, r
<1>8. /\ req' \in [Jobs -> Request] /\ req'[j] = r
      /\ \A k \in Jobs : k # j => req'[k] = req[k]
  BY <1>1, <1>2, <1>3, GotoType
<1>9. /\ db' \in [Items -> Versions]
      /\ db'[i] = IF At(j, "inserted") THEN db[i] + 1 ELSE db[i]
      /\ \A k \in Items : k # i => db'[k] = db[k]
  BY <1>1, <1>2, <1>5 DEF TypeOK
<1>10. TypeOK'
  BY <1>1, <1>2, <1>18, <1>7, <1>8, <1>9 DEF TypeOK
<1>11. \A k \in Items : db[k] \in Nat /\ db'[k] \in Nat /\ db[k] <= db'[k]
  <2>1. \A k \in Items : db[k] \in Nat /\ db'[k] \in Nat
    BY <1>2, <1>9, ConstantTypes DEF TypeOK
  <2> QED
    BY <1>4, <1>9, <2>1
<1>12. RowsInv'
  <2>1. IsFiniteSet(rows')
    BY <1>1, <1>2, FS_AddElement DEF RowsInv
  <2>2. \A q \in rows' : q.kind = KindOf[q.of] /\ q.key \in {q.of, All}
    <3>1. NewRow(j).kind = KindOf[NewRow(j).of] /\ NewRow(j).key \in {NewRow(j).of, All}
      BY <1>2, ConstantTypes DEF NewRow, i
    <3> QED
      BY <1>1, <1>2, <3>1 DEF RowsInv
  <2>3. ASSUME cut # None, ~raced PROVE Limit <= Cardinality({q \in rows' : q.ts >= cut})
    <3> DEFINE K == {q \in rows : q.ts >= cut}
               L == {q \in rows' : q.ts >= cut}
    <3>1. Limit <= Cardinality(K) /\ K \in SUBSET L /\ L \in SUBSET rows'
      BY <1>1, <1>2, <2>3 DEF RowsInv
    <3> HIDE DEF K, L
    <3>2. IsFiniteSet(L)
      BY <2>1, <3>1, FS_Subset
    <3>3. Cardinality(K) <= Cardinality(L) /\ Cardinality(K) \in Nat /\ Cardinality(L) \in Nat
      BY <3>1, <3>2, FS_Subset, FS_CardinalityType
    <3>4. Limit <= Cardinality(L)
      BY <3>1, <3>3, ConstantTypes
    <3> QED
      BY <3>4 DEF L
  <2> QED
    BY <1>1, <2>1, <2>2, <2>3 DEF RowsInv
<1>13. VersionsInv'
  <2>2. ASSUME NEW k \in Jobs, At(k, "inserted")'
        PROVE  k # j /\ At(k, "inserted") /\ req'[k] = req[k]
    BY <1>3, <1>8, <2>2 DEF At
  <2>3. ASSUME NEW k \in Jobs, At(k, "inserted")'
        PROVE  db'[req'[k].item] < Updates[req'[k].item]
    <3>1. req[k].item \in Items /\ (At(j, "inserted") => req[k].item # i)
      BY <1>2, <2>2, <2>3, ConstantTypes DEF VersionsInv, CacheInv, RequestInv, At, i
    <3>2. db'[req[k].item] = db[req[k].item]
      BY <1>9, <3>1
    <3> QED
      BY <1>2, <2>2, <2>3, <3>2 DEF VersionsInv
  <2>4. ASSUME NEW k \in Jobs, NEW l \in Jobs, k # l, At(k, "inserted")', At(l, "inserted")'
        PROVE  req'[k].item # req'[l].item
    BY <1>2, <2>2, <2>4 DEF VersionsInv
  <2> QED
    BY <2>3, <2>4 DEF VersionsInv
<1>14. MemcacheInv'
  <2>2. ASSUME NEW k \in Items, memcache'[k] \in Versions, memcache'[k] < db'[k]
        PROVE  \/ k \in stray'
               \/ \E l \in Jobs : req'[l].pc \in Invalidating /\ req'[l].item = k
    <3>1. CASE k = i
      BY <1>3, <1>8, <3>1 DEF Invalidating
    <3>2. CASE k # i
      BY <1>1, <1>2, <1>8, <1>9, <2>2, <3>2 DEF MemcacheInv, MemcacheForgets, i
    <3> QED
      BY <3>1, <3>2
  <2> QED
    BY <1>1, <1>2, <2>2 DEF MemcacheInv, MemcacheForgets
<1>15. ASSUME NEW k \in Jobs, NEW l \in Read, NEW v \in Versions, Owed(k, l, v)
       PROVE  Owed(k, l, v)'
  <2> SUFFICES ASSUME v < db'[l], missed'[l] <= v
               PROVE  \/ \E q \in New(k)' : About(q, l, v)
                      \/ RowDue(l, v)'
                      \/ Overflow(k)' /\ v < cutoff'[l]
    BY DEF Owed, About
  <2>0. /\ l \in Items /\ v \in Nat /\ db[l] \in Nat /\ db'[l] \in Nat
        /\ missed[l] \in Nat /\ missed'[l] \in Nat /\ missed[l] <= missed'[l] /\ Made(j) \in Nat
    BY <1>2, <1>6, <1>11, <1>19, ConstantTypes DEF TypeOK
  <2>1. CASE l = i /\ Made(j) > v
    <3>1. ~(done[k] >= req[j].ts)
      BY <1>19, <2>0, <2>1
    <3>2. done[k] \in Nat /\ req[j].ts \in Nat
      <4>1. done[k] \in 0 .. MaxStep
        BY <1>2, RequestTypes
      <4>2. MaxStep \in Nat /\ req[j].ts \in Nat
        BY <1>2, ConstantTypes
      <4> QED
        BY <4>1, <4>2
    <3>3. NewRow(j) \in New(k)'
      BY <1>1, <3>1, <3>2 DEF New, NewRow
    <3>4. About(NewRow(j), l, v)
      BY <2>1 DEF About, NewRow, i
    <3> QED
      BY <3>3, <3>4
  <2>2. CASE ~(l = i /\ Made(j) > v)
    <3>1. db'[l] = db[l] /\ missed[l] <= v /\ cutoff' = cutoff
      <4>1. l = i /\ At(j, "inserted") => Made(j) > v
        BY <1>6, <1>9, <1>4, <2>0
      <4>2. ~(l = i /\ At(j, "inserted"))
        BY <2>2, <4>1
      <4> QED
        BY <1>1, <1>9, <2>0, <4>2
    <3>2. New(k) \subseteq New(k)'
      BY <1>1 DEF New
    <3>3. Overflow(k) => Overflow(k)'
      BY <1>12, <3>2, OverflowGrows DEF RowsInv
    <3>4. ~(req[j].pc \in Telling /\ req[j].item = l /\ req[j].version > v)
      BY <1>1, <1>6, <2>2 DEF Telling, At, i
    <3>5. RowDue(l, v) => RowDue(l, v)'
      BY <1>8, <3>4 DEF RowDue
    <3> QED
      BY <1>15, <3>1, <3>2, <3>3, <3>5 DEF Owed
  <2> QED
    BY <2>1, <2>2
<1>16. RequestInv(j)' /\ RamInv(j)'
  <2>1. RamInv(j)'
    BY <1>1, <1>15, RamKept
  <2>2. RequestInv(j)'
    BY <1>1, <1>2, <1>3, <1>8, <1>11, <1>15, UpdatingRequest DEF i, Invalidating, Telling
  <2> QED
    BY <2>1, <2>2
<1>17. ASSUME NEW k \in Jobs, k # j PROVE RequestInv(k)' /\ RamInv(k)'
  BY <1>1, <1>8, <1>11, <1>15, <1>17, OthersInv
<1> QED
  BY <1>10, <1>12, <1>13, <1>14, <1>16, <1>17 DEF CacheInv

\* The row for all stands for those before it; if it is not there, jobs may
\* miss what they were about.
LEMMA PurgeRowsInv ==
    ASSUME CacheInv, NEW j \in Jobs, PurgeRows(j)
    PROVE  CacheInv'
<1> DEFINE kind == KindOf[req[j].item]
           older == {r \in rows : r.kind = kind /\ r.ts < req[j].ts}
           superseded == \E r \in rows : r.kind = kind /\ r.key = All /\ r.ts >= req[j].ts
           needed == {i \in Read : older # {} /\ ~(superseded /\ KindOf[i] = kind)}
           r == Forgetting(j)
<1>1. /\ At(j, "purge") /\ Goto(j, r)
      /\ rows' = rows \ older
      /\ missed' = [i \in Read |-> IF i \in needed THEN Max({LastOf(missed, older)[i], cutoff[i]})
                                                   ELSE missed[i]]
      /\ raced' = (raced \/ (cut # None /\ older # {}))
      /\ UNCHANGED <<db, memcache, done, ram, began, step, cut, cutoff, stray>>
  BY DEF PurgeRows
<1>2. /\ TypeOK /\ RowsInv /\ req[j] \in Request /\ req[j].item \in Items \cup {None}
      /\ req[j].ts \in Steps
  BY <1>1, RequestTypes DEF CacheInv, RequestInv, At
<1>3. /\ r \in Request /\ r.pc = "forget" /\ r.snap = None /\ r.item = req[j].item
  BY <1>2, ConstantTypes DEF Forgetting, Open, Request, Invalidating, Telling
<1>4. older \in SUBSET rows /\ needed \in SUBSET Read
  OBVIOUS
<1>5. /\ missed \in [Read -> Versions] /\ cutoff \in [Read -> Versions]
      /\ LastOf(missed, older) \in [Read -> Versions]
      /\ \A i \in Read :
            /\ missed[i] <= LastOf(missed, older)[i]
            /\ \A q \in older, v \in Versions :
                  About(q, i, v) /\ v < db[i] => v < LastOf(missed, older)[i]
  <2> HIDE DEF older
  <2>1. missed \in [Read -> Versions] /\ cutoff \in [Read -> Versions]
    BY <1>2 DEF TypeOK
  <2> QED
    BY <1>2, <1>4, <2>1, LastOfBounds
<1>6. \A q \in rows : q \in rows' <=> ~(q.kind = kind /\ q.ts < req[j].ts)
  BY <1>1
<1>7. \A q \in rows : q.kind = kind /\ q.ts < req[j].ts => q \in older
  OBVIOUS
<1>8. superseded => \E q \in rows : q.kind = kind /\ q.key = All /\ q.ts >= req[j].ts
  OBVIOUS
<1>9. \A i \in Read : i \notin needed => older = {} \/ (superseded /\ KindOf[i] = kind)
  OBVIOUS
<1> HIDE DEF older, needed, r, superseded, kind
<1>10. ASSUME NEW i \in Read
       PROVE  /\ missed'[i] \in Versions /\ missed[i] <= missed'[i]
              /\ i \in needed => LastOf(missed, older)[i] <= missed'[i] /\ cutoff[i] <= missed'[i]
  <2>1. /\ missed[i] \in Versions /\ cutoff[i] \in Versions /\ LastOf(missed, older)[i] \in Versions
        /\ missed[i] <= LastOf(missed, older)[i]
    BY <1>5
  <2>2. CASE i \in needed
    <3> DEFINE T == {LastOf(missed, older)[i], cutoff[i]}
    <3>1. T \in SUBSET (0 .. MaxVersion) /\ T # {} /\ MaxVersion \in Nat
      BY <2>1, ConstantTypes DEF Versions
    <3>2. Max(T) \in T /\ \A x \in T : x <= Max(T)
      <4> HIDE DEF T
      <4> QED
        BY <3>1, MaxOf
    <3>3. missed'[i] = Max(T)
      BY <1>1, <2>2
    <3>4. missed'[i] \in T /\ LastOf(missed, older)[i] <= missed'[i] /\ cutoff[i] <= missed'[i]
      BY <3>2, <3>3
    <3>5. missed[i] <= missed'[i]
      <4>1. /\ missed'[i] \in Nat /\ missed[i] \in Nat /\ LastOf(missed, older)[i] \in Nat
        BY <2>1, <3>4, ConstantTypes
      <4> QED
        BY <2>1, <3>4, <4>1
    <3> QED
      BY <2>1, <3>4, <3>5
  <2>3. CASE i \notin needed
    <3>1. missed'[i] = missed[i] /\ missed[i] \in Nat
      BY <1>1, <2>1, <2>3, ConstantTypes
    <3> QED
      BY <2>1, <2>3, <3>1
  <2> QED
    BY <2>2, <2>3
<1>11. missed' \in [Read -> Versions]
  <2>1. missed' = [i \in Read |-> missed'[i]]
    BY <1>1
  <2> QED
    BY <1>10, <2>1
<1>12. /\ req' \in [Jobs -> Request] /\ req'[j] = r
       /\ \A k \in Jobs : k # j => req'[k] = req[k]
  BY <1>1, <1>2, <1>3, GotoType
<1>13. TypeOK'
  BY <1>1, <1>2, <1>11, <1>12 DEF TypeOK
<1>14. RowsInv'
  <2>1. IsFiniteSet(rows')
    BY <1>1, <1>2, <1>4, FS_Subset DEF RowsInv
  <2>2. \A q \in rows' : q.kind = KindOf[q.of] /\ q.key \in {q.of, All}
    BY <1>1, <1>2 DEF RowsInv
  <2>3. cut' # None /\ ~raced' => Limit <= Cardinality({q \in rows' : q.ts >= cut'})
    <3>1. cut' # None /\ ~raced' => rows' = rows /\ cut' = cut /\ ~raced
      BY <1>1, <1>2 DEF TypeOK
    <3> QED
      BY <1>2, <3>1 DEF RowsInv
  <2> QED
    BY <2>1, <2>2, <2>3 DEF RowsInv
<1>15. VersionsInv' /\ MemcacheInv'
  BY <1>1, <1>3, <1>12, VersionsSame, MemcacheSame DEF At, Invalidating, Telling
<1>16. \A k \in Items : db[k] \in Nat /\ db'[k] \in Nat /\ db[k] <= db'[k]
  <2>1. db' = db /\ \A k \in Items : db[k] \in Nat
    BY <1>1, <1>2, ConstantTypes DEF TypeOK
  <2> QED
    BY <2>1
<1>17. ASSUME NEW k \in Jobs, NEW l \in Read, NEW v \in Versions, Owed(k, l, v)
       PROVE  Owed(k, l, v)'
  <2> SUFFICES ASSUME v < db[l], missed'[l] <= v
               PROVE  \/ \E q \in New(k)' : About(q, l, v)
                      \/ RowDue(l, v)'
                      \/ Overflow(k)' /\ v < cutoff[l]
    BY <1>1 DEF Owed, About
  <2>0. /\ l \in Items /\ v \in Nat /\ missed[l] \in Nat /\ missed'[l] \in Nat
        /\ cutoff[l] \in Nat /\ LastOf(missed, older)[l] \in Nat
    BY <1>5, <1>10, ConstantTypes
  <2>1. missed[l] <= v
    BY <1>10, <2>0
  <2> SUFFICES ASSUME ~RowDue(l, v)
               PROVE  \/ \E q \in New(k)' : About(q, l, v)
                      \/ Overflow(k)' /\ v < cutoff[l]
    <3>1. DueStays
      BY <1>1, <1>12, DueKept DEF At, Telling
    <3>2. RowDue(l, v) => RowDue(l, v)'
      BY <3>1 DEF DueStays
    <3> QED
      BY <3>2
  <2>2. \/ \E q \in New(k) : About(q, l, v)
        \/ Overflow(k) /\ v < cutoff[l]
    BY <1>17, <2>1 DEF Owed
  <2>3. New(k)' = {q \in rows' : q.ts > done[k]}
    BY <1>1 DEF New
  <2>4. CASE New(k)' = New(k)
    BY <2>2, <2>4 DEF Overflow
  <2>5. CASE l \in needed
    <3>1. ~(v < LastOf(missed, older)[l]) /\ ~(v < cutoff[l])
      BY <1>10, <2>0, <2>5
    <3>2. PICK q \in New(k) : About(q, l, v)
      BY <2>2, <3>1
    <3>3. q \notin older
      BY <1>5, <3>1, <3>2
    <3>4. q \in New(k)'
      BY <1>1, <2>3, <3>2, <3>3 DEF New
    <3> QED
      BY <3>2, <3>4
  <2>6. CASE older = {}
    <3>1. New(k)' = New(k)
      BY <1>1, <2>3, <2>6 DEF New
    <3> QED
      BY <2>4, <3>1
  <2>7. CASE superseded /\ KindOf[l] = kind
    <3>1. PICK q \in rows : q.kind = kind /\ q.key = All /\ q.ts >= req[j].ts
      BY <1>8, <2>7
    <3>2. \A p \in rows : p.ts \in Nat
      BY <1>2, ConstantTypes DEF TypeOK, Row
    <3>3. done[k] \in Nat /\ req[j].ts \in Nat
      <4>1. done[k] \in 0 .. MaxStep
        BY <1>2, RequestTypes
      <4>2. MaxStep \in Nat /\ req[j].ts \in Nat
        BY <1>2, ConstantTypes
      <4> QED
        BY <4>1, <4>2
    <3>4. CASE done[k] < q.ts
      <4>1. q \in rows'
        BY <1>6, <3>1, <3>2, <3>3
      <4>2. q \in New(k)'
        BY <2>3, <3>2, <3>3, <3>4, <4>1
      <4>3. About(q, l, v)
        BY <2>7, <3>1 DEF About
      <4> QED
        BY <4>2, <4>3
    <3>5. CASE ~(done[k] < q.ts)
      <4>1. \A p \in rows : p.ts > done[k] => p \in rows'
        BY <1>6, <3>1, <3>2, <3>3, <3>5
      <4>2. New(k)' = New(k)
        BY <1>1, <2>3, <4>1 DEF New
      <4> QED
        BY <2>4, <4>2
    <3> QED
      BY <3>4, <3>5
  <2> QED
    BY <1>9, <2>5, <2>6, <2>7
<1>18. RequestInv(j)' /\ RamInv(j)'
  <2>1. RamInv(j)'
    BY <1>1, <1>17, RamKept
  <2>2. RequestInv(j)'
    BY <1>1, <1>2, <1>3, <1>12, <1>16, <1>17, UpdatingRequest DEF At, Invalidating
  <2> QED
    BY <2>1, <2>2
<1>19. ASSUME NEW k \in Jobs, k # j PROVE RequestInv(k)' /\ RamInv(k)'
  BY <1>1, <1>12, <1>16, <1>17, <1>19, OthersInv
<1> QED
  BY <1>13, <1>14, <1>15, <1>18, <1>19 DEF CacheInv

\* The cron leaves as many rows as make a job drop everything, if it has not
\* seen those that are deleted.
LEMMA DeleteOldInv ==
    ASSUME CacheInv, DeleteOld
    PROVE  CacheInv'
<1> DEFINE old == {r \in rows : r.ts < cut}
<1>1. /\ cut # None /\ rows' = rows \ old /\ cutoff' = LastOf(cutoff, old)
      /\ missed' = IF raced THEN [i \in Read |-> Max({missed[i], LastOf(cutoff, old)[i]})]
                            ELSE missed
      /\ cut' = None /\ raced' = FALSE
      /\ UNCHANGED <<db, memcache, done, ram, req, began, step, stray>>
  BY DEF DeleteOld
<1>2. /\ TypeOK /\ RowsInv /\ cut \in Steps /\ cut \in Nat
      /\ \A r \in rows : r.ts \in Nat
  BY <1>1, ConstantTypes DEF CacheInv, TypeOK, Row
<1>3. old \in SUBSET rows /\ rows' = {r \in rows : r.ts >= cut}
  BY <1>1, <1>2
<1>4. \A q \in rows : q \in rows' <=> ~(q.ts < cut)
  BY <1>1
<1> HIDE DEF old
<1>5. /\ missed \in [Read -> Versions] /\ cutoff \in [Read -> Versions]
      /\ cutoff' \in [Read -> Versions]
      /\ \A i \in Read :
            /\ cutoff[i] <= cutoff'[i]
            /\ \A q \in old, v \in Versions : About(q, i, v) /\ v < db[i] => v < cutoff'[i]
  <2>1. missed \in [Read -> Versions] /\ cutoff \in [Read -> Versions]
    BY <1>2 DEF TypeOK
  <2>2. /\ LastOf(cutoff, old) \in [Read -> Versions]
        /\ \A i \in Read :
              /\ cutoff[i] <= LastOf(cutoff, old)[i]
              /\ \A q \in old, v \in Versions :
                    About(q, i, v) /\ v < db[i] => v < LastOf(cutoff, old)[i]
    BY <1>2, <1>3, <2>1, LastOfBounds
  <2> QED
    BY <1>1, <2>1, <2>2
<1>6. ASSUME NEW i \in Read
      PROVE  /\ missed'[i] \in Versions /\ missed[i] <= missed'[i]
             /\ raced => cutoff'[i] <= missed'[i]
  <2>1. missed[i] \in Versions /\ cutoff'[i] \in Versions
    BY <1>5
  <2>2. CASE raced
    <3> DEFINE T == {missed[i], cutoff'[i]}
    <3>1. T \in SUBSET (0 .. MaxVersion) /\ T # {} /\ MaxVersion \in Nat
      BY <2>1, ConstantTypes DEF Versions
    <3>2. Max(T) \in T /\ \A x \in T : x <= Max(T)
      <4> HIDE DEF T
      <4> QED
        BY <3>1, MaxOf
    <3>3. missed'[i] = Max(T)
      BY <1>1, <2>2
    <3> QED
      BY <2>1, <3>2, <3>3
  <2>3. CASE ~raced
    <3>1. missed'[i] = missed[i] /\ missed[i] \in Nat
      BY <1>1, <2>1, <2>3, ConstantTypes
    <3> QED
      BY <2>1, <2>3, <3>1
  <2> QED
    BY <2>2, <2>3
<1>7. missed' \in [Read -> Versions]
  <2>1. CASE ~raced
    BY <1>1, <1>5, <2>1
  <2>2. CASE raced
    <3>1. missed' = [i \in Read |-> missed'[i]]
      BY <1>1, <2>2
    <3> QED
      BY <1>6, <3>1
  <2> QED
    BY <2>1, <2>2
<1>8. TypeOK'
  BY <1>1, <1>2, <1>3, <1>5, <1>7 DEF TypeOK
<1>9. RowsInv'
  <2>1. rows' \in SUBSET rows
    BY <1>3
  <2> QED
    BY <1>1, <1>2, <2>1, FS_Subset DEF RowsInv
<1>10. VersionsInv' /\ MemcacheInv'
  BY <1>1 DEF CacheInv, VersionsInv, MemcacheInv, MemcacheForgets, At
<1>11. ASSUME NEW k \in Jobs, NEW l \in Read, NEW v \in Versions, Owed(k, l, v)
       PROVE  Owed(k, l, v)'
  <2> SUFFICES ASSUME v < db[l], missed'[l] <= v
               PROVE  \/ \E q \in New(k)' : About(q, l, v)
                      \/ RowDue(l, v)'
                      \/ Overflow(k)' /\ v < cutoff'[l]
    BY <1>1 DEF Owed, About
  <2>0. /\ v \in Nat /\ missed[l] \in Nat /\ missed'[l] \in Nat
        /\ cutoff[l] \in Nat /\ cutoff'[l] \in Nat
    BY <1>5, <1>6, ConstantTypes
  <2>1. missed[l] <= v
    BY <1>6, <2>0
  <2> SUFFICES ASSUME ~RowDue(l, v)
               PROVE  \/ \E q \in New(k)' : About(q, l, v)
                      \/ Overflow(k)' /\ v < cutoff'[l]
    BY <1>1 DEF RowDue
  <2>2. \/ \E q \in New(k) : About(q, l, v)
        \/ Overflow(k) /\ v < cutoff[l]
    BY <1>11, <2>1 DEF Owed
  <2>3. New(k)' = {q \in rows' : q.ts > done[k]} /\ done[k] \in Nat
    BY <1>1, <1>2, RequestTypes, ConstantTypes DEF New
  <2>4. v < cutoff[l] => v < cutoff'[l]
    BY <1>5, <2>0
  <2>5. ASSUME NEW q \in New(k), About(q, l, v) PROVE q \in New(k)' \/ v < cutoff'[l]
    <3>1. q \in rows /\ q.ts > done[k]
      BY DEF New
    <3>2. q \in old \/ q \in rows'
      BY <1>1, <3>1
    <3> QED
      BY <1>5, <2>3, <2>5, <3>1, <3>2
  <2>6. CASE raced
    <3>1. ~(v < cutoff'[l])
      BY <1>6, <2>0, <2>6
    <3> QED
      BY <2>2, <2>4, <2>5, <3>1
  <2>7. CASE ~raced /\ done[k] < cut
    <3>1. New(k)' = rows'
      BY <1>2, <1>3, <2>3, <2>7
    <3>2. Limit <= Cardinality(rows')
      BY <1>1, <1>2, <1>3, <2>7 DEF RowsInv
    <3>3. Overflow(k)'
      <4>1. Cardinality(rows') \in Nat
        BY <1>9, FS_CardinalityType DEF RowsInv
      <4> QED
        BY <3>1, <3>2, <4>1, ConstantTypes DEF Overflow
    <3> QED
      BY <2>2, <2>4, <2>5, <3>3
  <2>8. CASE ~(done[k] < cut)
    <3>1. New(k)' = New(k)
      BY <1>2, <1>3, <2>3, <2>8 DEF New
    <3> QED
      BY <2>2, <2>4, <3>1 DEF Overflow
  <2> QED
    BY <2>6, <2>7, <2>8
<1>12. \A k \in Items : db[k] \in Nat /\ db'[k] \in Nat /\ db[k] <= db'[k]
  <2>1. db' = db /\ \A k \in Items : db[k] \in Nat
    BY <1>1, <1>2, ConstantTypes DEF TypeOK
  <2> QED
    BY <2>1
<1>13. ASSUME NEW k \in Jobs PROVE RequestInv(k)' /\ RamInv(k)'
  BY <1>1, <1>11, <1>12, OthersInv
<1> QED
  BY <1>8, <1>9, <1>10, <1>13 DEF CacheInv

-----------------------------------------------------------------------------
(* Beginning a request.                                                      *)

\* A row about an item covers it.
LEMMA AboutCovers ==
    ASSUME RowsInv, NEW r \in rows, NEW i, NEW v, About(r, i, v)
    PROVE  Covers(r, i)
BY DEF RowsInv, About, Covers

\* The request before is forgotten; what it did not delete from memcache is
\* accounted for.
LEMMA BeginInv ==
    ASSUME CacheInv, NEW j \in Jobs, Begin(j),
           done' \in [Jobs -> 0 .. MaxStep], ram' \in [Jobs -> [Items -> Cached \cup {None}]],
           \A k \in Jobs : k # j => done'[k] = done[k] /\ ram'[k] = ram[k],
           RamInv(j)'
    PROVE  CacheInv'
<1>1. /\ Goto(j, Open) /\ began' = [began EXCEPT ![j] = Look(Writes[j])]
      /\ stray' = IF req[j].pc \in Invalidating THEN stray \cup {req[j].item} ELSE stray
      /\ missed' = Untold(j)
      /\ UNCHANGED <<db, memcache, rows, step, cut, raced, cutoff>>
  BY DEF Begin
<1>2. TypeOK /\ RowsInv /\ Open \in Request
  BY ConstantTypes DEF CacheInv
<1>3. /\ req' \in [Jobs -> Request] /\ req'[j] = Open
      /\ \A k \in Jobs : k # j => req'[k] = req[k]
  BY <1>1, <1>2, GotoType
<1>4. /\ began' \in [Jobs -> [Items -> Versions]]
      /\ \A i \in Items : began'[j][i] <= db[i]
      /\ \A k \in Jobs : k # j => began'[k] = began[k]
  <2>1. Look(Writes[j]) \in [Items -> Versions] /\ \A i \in Items : Look(Writes[j])[i] <= db[i]
    BY <1>2, LookType
  <2> QED
    BY <1>1, <1>2, <2>1 DEF TypeOK
<1>5. stray' \subseteq Items
  <2>1. req[j].pc \in Invalidating => req[j].item \in Items
    BY ConstantTypes DEF CacheInv, RequestInv
  <2> QED
    BY <1>1, <1>2, <2>1 DEF TypeOK
<1>6. TypeOK'
  BY <1>1, <1>2, <1>3, <1>4, <1>5, UntoldBounds DEF TypeOK
<1>7. RowsInv'
  BY <1>1, <1>2 DEF RowsInv
<1>8. VersionsInv'
  BY <1>1, <1>3, VersionsSame DEF At, Open
<1>9. MemcacheInv'
  <2>1. ASSUME NEW i \in Items, memcache[i] \in Versions, memcache[i] < db[i]
        PROVE  \/ i \in stray'
               \/ \E k \in Jobs : req'[k].pc \in Invalidating /\ req'[k].item = i
    <3>1. \/ i \in stray
          \/ \E k \in Jobs : req[k].pc \in Invalidating /\ req[k].item = i
      BY <2>1 DEF CacheInv, MemcacheInv, MemcacheForgets
    <3> QED
      BY <1>1, <1>3, <3>1
  <2> QED
    BY <1>1, <2>1 DEF CacheInv, MemcacheInv, MemcacheForgets
<1>10. RequestInv(j)'
  <2>1. req'[j].pc = "open" /\ req'[j].snap = None
    BY <1>3 DEF Open
  <2> QED
    BY <1>1, <1>4, <2>1 DEF RequestInv, At, Invalidating, Telling
<1>11. \A i \in Items : db[i] \in Nat /\ db'[i] \in Nat /\ db[i] <= db'[i]
  <2>1. db' = db /\ \A i \in Items : db[i] \in Nat
    BY <1>1, <1>2, ConstantTypes DEF TypeOK
  <2> QED
    BY <2>1
<1>12. ASSUME NEW k \in Jobs, k # j PROVE RequestInv(k)' /\ RamInv(k)'
  <2>1. \A i \in Read, v \in Versions : Owed(k, i, v) => Owed(k, i, v)'
    BY <1>1, <1>2, <1>3, <1>12, UntoldOwed
  <2> QED
    BY <1>3, <1>4, <1>11, <1>12, <2>1, OthersInv
<1> QED
  BY <1>6, <1>7, <1>8, <1>9, <1>10, <1>12 DEF CacheInv

\* The timestep of the last row that a job sees, or the one before.
LEMMA SeenType ==
    ASSUME TypeOK, NEW d \in 0 .. MaxStep, NEW S \in SUBSET rows
    PROVE  Max({d} \cup {r.ts : r \in S}) \in 0 .. MaxStep
<1> DEFINE T == {d} \cup {r.ts : r \in S}
<1>1. \A r \in S : r.ts \in 0 .. MaxStep
  BY ConstantTypes DEF TypeOK, Row
<1>2. T \in SUBSET (0 .. MaxStep) /\ T # {} /\ MaxStep \in Nat
  BY <1>1, ConstantTypes
<1>3. Max(T) \in T
  <2> HIDE DEF T
  <2> QED
    BY <1>2, MaxOf
<1> QED
  BY <1>2, <1>3

\* When a request begins, what its job keeps is current, or one of the
\* values that it may not know to be old.
LEMMA BeginRequestInv ==
    ASSUME CacheInv, NEW j \in Jobs, BeginRequest(j)
    PROVE  CacheInv'
<1> DEFINE seen == LastSteps(New(j), Limit)
<1>1. /\ done' = [done EXCEPT ![j] = Max({done[j]} \cup {r.ts : r \in seen})]
      /\ ram' = [ram EXCEPT ![j] = [i \in Items |->
                    IF Overflow(j) \/ \E r \in seen : Covers(r, i) THEN None ELSE ram[j][i]]]
      /\ Begin(j)
  BY DEF BeginRequest
<1>2. TypeOK /\ RowsInv /\ RamInv(j) /\ done[j] \in 0 .. MaxStep
  BY RequestTypes DEF CacheInv
<1>3. seen \in SUBSET rows
  BY DEF LastSteps, New
<1>4. ~Overflow(j) => seen = New(j)
  <2>1. New(j) \in SUBSET rows
    BY DEF New
  <2>2. IsFiniteSet(New(j)) /\ Cardinality(New(j)) \in Nat
    BY <1>2, <2>1, FS_Subset, FS_CardinalityType DEF RowsInv
  <2>3. ~Overflow(j) => Cardinality(New(j)) < Limit
    BY <2>2, ConstantTypes DEF Overflow
  <2> QED
    BY <2>2, <2>3, LastStepsAll, ConstantTypes
<1> HIDE DEF seen
<1>5. Max({done[j]} \cup {r.ts : r \in seen}) \in 0 .. MaxStep
  BY <1>2, <1>3, SeenType
<1>6. /\ done' \in [Jobs -> 0 .. MaxStep] /\ ram' \in [Jobs -> [Items -> Cached \cup {None}]]
      /\ \A k \in Jobs : k # j => done'[k] = done[k] /\ ram'[k] = ram[k]
      /\ \A i \in Items : ram'[j][i] = IF Overflow(j) \/ \E r \in seen : Covers(r, i)
                                       THEN None ELSE ram[j][i]
  BY <1>1, <1>2, <1>5 DEF TypeOK
<1>7. RamInv(j)'
  <2> SUFFICES ASSUME NEW i \in Items, ram'[j][i] # None
               PROVE  i \in Read /\ (ram'[j][i].own => Owed(j, i, ram[j][i].version)')
    BY DEF RamInv
  <2>1. PICK v : v = ram[j][i].version
    OBVIOUS
  <2>0. v \in Versions
    BY <1>2, <2>1, RequestTypes, ConstantTypes, <1>6 DEF Cached
  <2>2. /\ ram'[j][i] = ram[j][i] /\ ~Overflow(j) /\ ~ \E r \in New(j) : Covers(r, i)
        /\ i \in Read /\ (ram[j][i].own => Owed(j, i, v))
    BY <1>2, <1>4, <1>6, <2>1 DEF RamInv
  <2>3. ~ \E r \in New(j) : About(r, i, v)
    BY <1>2, <2>2, AboutCovers DEF New
  <2>4. Owed(j, i, v) => ~(v < db[i] /\ missed[i] <= v) \/ RowDue(i, v)
    BY <2>2, <2>3 DEF Owed
  <2>5. /\ db' = db
        /\ missed'[i] <= v => missed[i] <= v
        /\ RowDue(i, v) /\ missed'[i] <= v => RowDue(i, v)'
    <3>1. /\ missed' = Untold(j) /\ UNCHANGED <<db, rows, cutoff>>
          /\ \A k \in Jobs : k # j => req'[k] = req[k]
      BY <1>1, <1>2, ConstantTypes, GotoType DEF Begin
    <3> QED
      BY <1>2, <2>0, <2>2, <3>1, UntoldOwed
  <2>6. Owed(j, i, v) => Owed(j, i, v)'
    BY <2>4, <2>5 DEF Owed
  <2> QED
    BY <2>1, <2>2, <2>6
<1> QED
  BY <1>1, <1>6, <1>7, BeginInv

\* A job that starts has no values.
LEMMA RestartInv ==
    ASSUME CacheInv, NEW j \in Jobs, Restart(j)
    PROVE  CacheInv'
<1>1. /\ done' = [done EXCEPT ![j] = Max({0} \cup {r.ts : r \in rows})]
      /\ ram' = [ram EXCEPT ![j] = [i \in Items |-> None]]
      /\ Begin(j)
  BY DEF Restart
<1>2. TypeOK /\ Max({0} \cup {r.ts : r \in rows}) \in 0 .. MaxStep
  BY SeenType, ConstantTypes DEF CacheInv
<1>3. /\ done' \in [Jobs -> 0 .. MaxStep] /\ ram' \in [Jobs -> [Items -> Cached \cup {None}]]
      /\ \A k \in Jobs : k # j => done'[k] = done[k] /\ ram'[k] = ram[k]
      /\ \A i \in Items : ram'[j][i] = None
  BY <1>1, <1>2 DEF TypeOK
<1>4. RamInv(j)'
  BY <1>3 DEF RamInv
<1> QED
  BY <1>1, <1>3, <1>4, BeginInv

-----------------------------------------------------------------------------
(* The theorems.                                                             *)

\* Every step keeps the invariant.
LEMMA CacheNext == CacheInv /\ [Next]_vars => CacheInv'
<1> SUFFICES ASSUME CacheInv, [Next]_vars PROVE CacheInv'
  OBVIOUS
<1>1. ASSUME NEW j \in Jobs, JobStep(j) PROVE CacheInv'
  <2>1. CASE BeginRequest(j)
    BY <2>1, BeginRequestInv
  <2>2. CASE Restart(j)
    BY <2>2, RestartInv
  <2>3. CASE \E i \in Read : ReadMemcache(j, i) \/ Fetch(j, i) \/ FetchReplica(j, i)
    BY <2>3, ReadMemcacheInv, FetchInv, FetchReplicaInv
  <2>4. CASE \E i \in Items : LoadForUpdate(j, i)
    BY <2>4, LoadForUpdateInv
  <2>5. CASE AddToMemcache(j)
    BY <2>5, AddToMemcacheInv
  <2>6. CASE Insert(j)
    BY <2>6, InsertInv
  <2>11. CASE Change(j)
    BY <2>11, ChangeInv
  <2>7. CASE Commit(j)
    BY <2>7, CommitInv
  <2>8. CASE CommitFails(j)
    BY <2>8, CommitFailsInv
  <2>9. CASE PurgeRows(j)
    BY <2>9, PurgeRowsInv
  <2>10. CASE DeleteFromMemcache(j)
    BY <2>10, DeleteFromMemcacheInv
  <2> QED
    BY <1>1, <2>1, <2>2, <2>3, <2>4, <2>5, <2>6, <2>7, <2>8, <2>9, <2>10, <2>11 DEF JobStep
<1>2. CASE \E i \in Items : Evict(i)
  BY <1>2, EvictInv
<1>3. CASE SelectKept
  BY <1>3, SelectKeptInv
<1>4. CASE DeleteOld
  BY <1>4, DeleteOldInv
<1>5. CASE UNCHANGED vars
  <2>1. UNCHANGED <<db, rows, step, cut, raced, cutoff, missed, memcache, done, ram, req, began, stray>>
    BY <1>5 DEF vars, tableVars
  <2>2. TypeOK' /\ RowsInv' /\ VersionsInv' /\ MemcacheInv'
    BY <2>1 DEF CacheInv, TypeOK, RowsInv, VersionsInv, MemcacheInv, MemcacheForgets, At
  <2>3. \A i \in Items : db[i] \in Nat /\ db'[i] = db[i]
    BY <2>1, ConstantTypes DEF CacheInv, TypeOK
  <2>4. ASSUME NEW j \in Jobs PROVE RequestInv(j)' /\ RamInv(j)'
    <3>0. DueStays
      BY <2>1 DEF DueStays, RowDue
    <3>1. \A i \in Read, v \in Versions : Owed(j, i, v) => Owed(j, i, v)'
      BY <2>1, <3>0, OwedSame
    <3> QED
      BY <2>1, <2>3, <3>1, OthersInv
  <2> QED
    BY <2>2, <2>4 DEF CacheInv
<1> QED
  BY <1>1, <1>2, <1>3, <1>4, <1>5 DEF Next

\* Whatever the jobs and the cron do, in whatever order rows become visible,
\* the invariant holds.
THEOREM CacheInvariant == Spec => []CacheInv
<1>1. CacheInv /\ [Next]_vars => CacheInv'
  BY CacheNext
<1> QED
  BY <1>1, InitCache, PTL DEF Spec

\* Versions, timesteps and requests are what the model says.
THEOREM CacheTypeOK == Spec => []TypeOK
<1>1. CacheInv => TypeOK
  BY DEF CacheInv
<1> QED
  BY <1>1, CacheInvariant, PTL

\* What the invariant says of values in RAM is what the code promises.
LEMMA CacheStale == CacheInv => StaleWillBeDropped
<1> SUFFICES ASSUME CacheInv, NEW j \in Jobs, NEW i \in Items,
                    ram[j][i] # None, ram[j][i].own, ram[j][i].version < db[i],
                    ~RowDue(i, ram[j][i].version), ~(missed[i] > ram[j][i].version)
             PROVE  (\E r \in New(j) : Covers(r, i)) \/ Overflow(j)
  BY DEF StaleWillBeDropped
<1>1. TypeOK /\ RowsInv /\ RamInv(j) /\ ram[j][i] \in Cached
  BY RequestTypes DEF CacheInv
<1>2. PICK v \in Versions : v = ram[j][i].version
  BY <1>1 DEF Cached
<1>3. i \in Read /\ Owed(j, i, v)
  BY <1>1, <1>2 DEF RamInv
<1>4. missed[i] \in Nat /\ v \in Nat
  BY <1>1, <1>3, ConstantTypes DEF TypeOK
<1>5. (\E r \in New(j) : About(r, i, v)) \/ Overflow(j)
  BY <1>2, <1>3, <1>4 DEF Owed
<1> QED
  BY <1>1, <1>5, AboutCovers DEF New

\* A value that a job has read from the master itself is dropped when the
\* next request of the job begins, if it is old by then: the rows that tell
\* it are there, however late they became visible, however many the cron and
\* StoreInvalidateAll deleted, except in the cases that the property names:
\* that of a change committed before its row is the main one.
THEOREM StaleWillBeDroppedThm == Spec => []StaleWillBeDropped
BY CacheStale, CacheInvariant, PTL

\* No request stores what it made from a version older than the one when it
\* began.
THEOREM UpdatesFreshVersionThm == Spec => []UpdatesFreshVersion
<1>1. CacheInv => UpdatesFreshVersion
  BY DEF CacheInv, RequestInv, UpdatesFreshVersion
<1> QED
  BY <1>1, CacheInvariant, PTL

\* Memcache holds an old value only while its deletion is due, or by one of
\* the races that are named.
THEOREM MemcacheForgetsThm == Spec => []MemcacheForgets
<1>1. CacheInv => MemcacheForgets
  BY DEF CacheInv, MemcacheInv
<1> QED
  BY <1>1, CacheInvariant, PTL
=============================================================================
