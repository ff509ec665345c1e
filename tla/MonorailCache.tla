---------------------------- MODULE MonorailCache ----------------------------
(* The caches of Monorail (services/caches.py, services/cachemanager_svc.py) *)
(* and the updates of issues that rely on them (services/issue_svc.py).      *)
(*                                                                           *)
(* Every job keeps values in RAM for as long as it lives; all jobs share     *)
(* memcache and the database.  A job that changes an item writes a row to    *)
(* the Invalidate table, in the transaction that changes the item or in a    *)
(* later one, and every job looks for new rows when it begins a request.  A  *)
(* job serves one request at a time.  Values are the versions of an item:    *)
(* the number of updates that made it.                                       *)
EXTENDS Integers, FiniteSets, FiniteSetsExt

CONSTANTS
    Jobs,      \* frontends and backends
    Writes,    \* items that the requests of each job change
    Backends,  \* jobs with requests that prefetch items from a replica
    Items,     \* what is updated
    Read,      \* items that requests read through the caches
    TwoLevel,  \* items of two-level caches, which use memcache too
    Kinds,     \* kinds of items
    KindOf,    \* the kind of each item
    Alone,     \* items that may be changed in a transaction of its own
    KeysOf,    \* what an update of an item may invalidate: the item, All
    All,       \* cache_key of a row for all items: INVALIDATE_ALL_KEYS
    Limit,     \* MAX_INVALIDATE_ROWS_TO_CONSIDER
    MaxStep,   \* bound on timesteps
    MaxVersion, \* bound on versions
    Updates,   \* bound on the updates of each item
    Locked,    \* a memcache entry that add may not set
    None

ASSUME CacheAssumption ==
    /\ Writes \in [Jobs -> SUBSET Items] /\ Backends \subseteq Jobs
    /\ Read \subseteq Items /\ TwoLevel \subseteq Read
    /\ KindOf \in [Items -> Kinds] /\ Alone \subseteq Items
    /\ \A i \in Items : KeysOf[i] \subseteq {i, All}
    /\ Limit \in Nat \ {0} /\ MaxStep \in Nat /\ MaxVersion \in Nat
    /\ Updates \in [Items -> 0 .. MaxVersion]
    /\ All \notin Items
    /\ {None, Locked} \cap Nat = {} /\ None # Locked /\ None \notin Items

VARIABLES
    db,        \* the committed version of each item
    rows,      \* the Invalidate table
    step,      \* its AUTO_INCREMENT: the last timestep that was given out
    memcache,  \* a version, nothing, or nothing and locked against add
    done,      \* processed_invalidations_up_to of each job
    ram,       \* RamCache: a version and whether the job read it from the
               \* master database itself
    req,       \* the request of each job
    cut,       \* RamCacheConsolidate: earliest_kept, between its statements
    began,     \* history: the versions when the request of a job began
    raced,     \* history: rows were deleted between those statements
    cutoff,    \* history: the last version of an item of which the row was
               \* deleted by RamCacheConsolidate
    missed,    \* history: the last one of which jobs may miss the row, or of
               \* which there will be none
    stray      \* history: items with a stale value in memcache by a race

tableVars == <<rows, step, cut, raced, cutoff, missed>>
vars == <<db, memcache, done, ram, req, began, tableVars, stray>>

Versions == 0 .. MaxVersion
Steps == 1 .. MaxStep

(* cache_key is key; of and version tell which update wrote the row.         *)
Row == [ts : Steps, kind : Kinds, key : Items \cup {All}, of : Items, version : Versions]
Cached == [version : Versions, own : BOOLEAN]

(* snap is the snapshot from which the transaction on the master reads,      *)
(* item and version are those that a fetch, a load or an update is about.    *)
Telling == {"changed", "late"}
Invalidating == {"purge", "forget"} \cup Telling
Request == [pc : {"open", "add", "loaded", "inserted"} \cup Invalidating,
            snap : [Items -> Versions] \cup {None},
            item : Items \cup {None}, version : Versions,
            key : Items \cup {All, None}, ts : 0 .. MaxStep]

NoItems == [i \in Items |-> 0]
Open == [pc |-> "open", snap |-> None, item |-> None, version |-> 0, key |-> None, ts |-> 0]

Init ==
    /\ db = NoItems
    /\ rows = {} /\ step = 0
    /\ memcache = [i \in Items |-> None]
    /\ done = [j \in Jobs |-> 0]
    /\ ram = [j \in Jobs |-> [i \in Items |-> None]]
    /\ req = [j \in Jobs |-> Open]
    /\ cut = None /\ raced = FALSE
    /\ began = [j \in Jobs |-> NoItems]
    /\ cutoff = [i \in Read |-> 0] /\ missed = cutoff /\ stray = {}

-----------------------------------------------------------------------------
At(j, pc) == req[j].pc = pc
Goto(j, r) == req' = [req EXCEPT ![j] = r]
Covers(r, i) == r.key = i \/ (r.key = All /\ r.kind = KindOf[i])

\* The committed versions of some items, which are all that a request needs.
Look(S) == [i \in Items |-> IF i \in S THEN db[i] ELSE 0]

New(j) == {r \in rows : r.ts > done[j]}
LastSteps(S, n) == {r \in S : Cardinality({q \in S : q.ts > r.ts}) < n}

\* Variant: rows beyond the limit make the job drop everything.
OverflowBeyond(j) == Cardinality(New(j)) > Limit

\* DoDistributedInvalidation: the last rows, and everything if they are many.
Overflow(j) == Cardinality(New(j)) >= Limit

\* A job that has changed an item has still to write the row.
RowDue(i, v) == \E k \in Jobs : req[k].pc \in Telling /\ req[k].item = i /\ req[k].version > v

\* It does not write it.
Untold(j) == [i \in Read |-> IF req[j].pc \in Telling /\ req[j].item = i
                             THEN Max({missed[i], req[j].version}) ELSE missed[i]]

\* A request begins when the one before has ended, or was cut off at its
\* deadline: then what it has not committed is rolled back, the row that it
\* has not written is not written, and what it has not done to memcache is
\* not done.
Begin(j) ==
    /\ Goto(j, Open)
    /\ began' = [began EXCEPT ![j] = Look(Writes[j])]
    /\ missed' = Untold(j)
    /\ stray' = IF req[j].pc \in Invalidating THEN stray \cup {req[j].item} ELSE stray
    /\ UNCHANGED <<db, memcache, rows, step, cut, raced, cutoff>>

BeginRequest(j) ==
    LET seen == LastSteps(New(j), Limit) IN
    /\ done' = [done EXCEPT ![j] = Max({@} \cup {r.ts : r \in seen})]
    /\ ram' = [ram EXCEPT ![j] = [i \in Items |->
                  IF Overflow(j) \/ \E r \in seen : Covers(r, i) THEN None ELSE ram[j][i]]]
    /\ Begin(j)

\* The instance is stopped, and started again by a request.
Restart(j) ==
    /\ done' = [done EXCEPT ![j] = Max({0} \cup {r.ts : r \in rows})]
    /\ ram' = [ram EXCEPT ![j] = [i \in Items |-> None]]
    /\ Begin(j)

-----------------------------------------------------------------------------
(* AbstractTwoLevelCache.GetAll.                                             *)

\* Variant: the mark of a deleted entry is taken for a value.
ReadAnyEntry(j, i) ==
    /\ At(j, "open")
    /\ ram[j][i] = None
    /\ memcache[i] # None
    /\ ram' = [ram EXCEPT ![j][i] = [version |-> memcache[i], own |-> FALSE]]
    /\ UNCHANGED <<db, memcache, done, req, began, tableVars, stray>>

ReadMemcache(j, i) ==
    /\ At(j, "open")
    /\ ram[j][i] = None
    /\ memcache[i] \in Versions
    /\ ram' = [ram EXCEPT ![j][i] = [version |-> memcache[i], own |-> FALSE]]
    /\ UNCHANGED <<db, memcache, done, req, began, tableVars, stray>>

\* Memcache misses, and FetchItems reads the master database: the first read
\* of a transaction takes its snapshot.
Snapshot(j) == IF req[j].snap = None THEN Look(Read \cup Writes[j]) ELSE req[j].snap

Fetch(j, i) ==
    /\ At(j, "open")
    /\ ram[j][i] = None
    /\ ram' = [ram EXCEPT ![j][i] = [version |-> Snapshot(j)[i], own |-> TRUE]]
    /\ Goto(j, IF i \in TwoLevel
               THEN [req[j] EXCEPT !.pc = "add", !.snap = Snapshot(j), !.item = i,
                                   !.version = Snapshot(j)[i]]
               ELSE [req[j] EXCEPT !.snap = Snapshot(j)])
    /\ UNCHANGED <<db, memcache, done, began, tableVars, stray>>

\* The prefetch of a backend search reads a replica, which lags.
FetchReplica(j, i) == \E v \in 0 .. db[i] :
    /\ At(j, "open") /\ j \in Backends /\ i \in TwoLevel
    /\ ram[j][i] = None
    /\ ram' = [ram EXCEPT ![j][i] = [version |-> v, own |-> FALSE]]
    /\ Goto(j, [req[j] EXCEPT !.pc = "add", !.item = i, !.version = v])
    /\ UNCHANGED <<db, memcache, done, began, tableVars, stray>>

\* _WriteToMemcache: add does not replace a value, nor touch a locked entry;
\* an item whose value memcache does not accept is deleted.
AddToMemcache(j) ==
    LET i == req[j].item IN
    /\ At(j, "add")
    /\ \/ /\ memcache[i] = None
          /\ memcache' = [memcache EXCEPT ![i] = req[j].version]
          /\ stray' = IF req[j].version < db[i] THEN stray \cup {i} ELSE stray \ {i}
       \/ memcache[i] # None /\ UNCHANGED <<memcache, stray>>
       \/ memcache' = [memcache EXCEPT ![i] = Locked] /\ stray' = stray \ {i}
    /\ Goto(j, [Open EXCEPT !.snap = req[j].snap])
    /\ UNCHANGED <<db, done, ram, began, tableVars>>

\* Memcache, external: entries expire or are evicted, locks end.
Evict(i) ==
    /\ memcache[i] # None
    /\ memcache' = [memcache EXCEPT ![i] = None]
    /\ UNCHANGED <<db, done, ram, req, began, tableVars, stray>>

-----------------------------------------------------------------------------
(* A request that changes an item: load, UpdateIssues.                       *)

\* Variant: GetIssue(use_cache=True) may find the issue in RAM.
LoadThroughCache(j, i) ==
    LET v == IF ram[j][i] = None THEN Snapshot(j)[i] ELSE ram[j][i].version IN
    /\ At(j, "open") /\ i \in Writes[j]
    /\ Goto(j, [req[j] EXCEPT !.pc = "loaded", !.snap = Snapshot(j), !.item = i, !.version = v])
    /\ UNCHANGED <<db, memcache, done, ram, began, tableVars, stray>>

\* GetIssue(use_cache=False): assume_stale is False.
LoadForUpdate(j, i) ==
    /\ At(j, "open") /\ i \in Writes[j]
    /\ Goto(j, [req[j] EXCEPT !.pc = "loaded", !.snap = Snapshot(j), !.item = i,
                              !.version = Snapshot(j)[i]])
    /\ UNCHANGED <<db, memcache, done, ram, began, tableVars, stray>>

\* UPDATE locks the row of the item until the change is committed.
Unlocked(i) == \A k \in Jobs : At(k, "inserted") => req[k].item # i

\* Bulk edits of issues, updates of projects and others commit the change
\* before they invalidate anything.  If the commit fails, nothing is changed.
Change(j) == At(j, "loaded") /\ \E v \in {0, db[req[j].item] + 1} :
    LET i == req[j].item IN
    /\ i \in Alone /\ Unlocked(i) /\ db[i] < Updates[i]
    /\ db' = [db EXCEPT ![i] = Max({@, v})]
    /\ Goto(j, [req[j] EXCEPT !.pc = "changed", !.snap = None, !.version = v])
    /\ UNCHANGED <<memcache, done, ram, began, tableVars, stray>>

\* InvalidateKeys or InvalidateAllKeys (of derived fields) drop the item or
\* its kind from RAM, and INSERT draws a timestep.  This may be a part of the
\* transaction that changes the item, and nothing is committed yet.
Insert(j) == req[j].pc \in {"loaded", "changed"} /\ \E key \in KeysOf[req[j].item] :
    LET i == req[j].item
        dropped == IF key = All THEN {k \in Items : KindOf[k] = KindOf[i]} ELSE {i}
    IN
    /\ At(j, "loaded") => Unlocked(i) /\ db[i] < Updates[i]
    /\ step < MaxStep
    /\ step' = step + 1
    /\ ram' = [ram EXCEPT ![j] = [k \in Items |-> IF k \in dropped THEN None ELSE ram[j][k]]]
    /\ Goto(j, [req[j] EXCEPT !.pc = IF @ = "loaded" THEN "inserted" ELSE "late",
                              !.key = key, !.ts = step + 1])
    /\ UNCHANGED <<db, memcache, done, began, rows, cut, raced, cutoff, missed, stray>>

\* The INSERT commits, and what was changed before it.
Made(j) == IF At(j, "inserted") THEN db[req[j].item] + 1 ELSE req[j].version
NewRow(j) == [ts |-> req[j].ts, kind |-> KindOf[req[j].item], key |-> req[j].key,
              of |-> req[j].item, version |-> Made(j)]

\* The versions that jobs learned of from some rows: a row for all stood for
\* all rows of its kind before it.
VersionsOf(i, S) == {r.version : r \in {q \in S : q.of = i}}
    \cup {db[i] : r \in {q \in S : q.key = All /\ q.kind = KindOf[i]}}
LastOf(history, S) == [i \in Read |-> Max({history[i]} \cup VersionsOf(i, S))]

\* A job that has seen a later row will not look for this one.
Skipped(j) == [i \in Read |->
    IF i = req[j].item /\ \E k \in Jobs : done[k] >= req[j].ts
    THEN Max({missed[i], Made(j)}) ELSE missed[i]]

\* The transaction has ended.  What is left to do is about rows for all, and
\* the values in memcache.
Forgetting(j) == [Open EXCEPT !.pc = "forget", !.item = req[j].item]
Ended(j) == IF req[j].key = All THEN [req[j] EXCEPT !.pc = "purge", !.snap = None, !.version = 0]
                                ELSE Forgetting(j)

\* Variant: the values in memcache are left to expire.
CommitOnly(j) ==
    /\ req[j].pc \in {"inserted", "late"}
    /\ db' = IF At(j, "inserted") THEN [db EXCEPT ![req[j].item] = @ + 1] ELSE db
    /\ rows' = rows \cup {NewRow(j)}
    /\ missed' = Skipped(j)
    /\ Goto(j, Open)
    /\ UNCHANGED <<memcache, done, ram, began, step, cut, raced, cutoff, stray>>

Commit(j) ==
    /\ req[j].pc \in {"inserted", "late"}
    /\ db' = IF At(j, "inserted") THEN [db EXCEPT ![req[j].item] = @ + 1] ELSE db
    /\ rows' = rows \cup {NewRow(j)}
    /\ missed' = Skipped(j)
    /\ Goto(j, Ended(j))
    /\ UNCHANGED <<memcache, done, ram, began, step, cut, raced, cutoff, stray>>

\* An error of the commit is logged, and the request goes on.
CommitFails(j) ==
    /\ req[j].pc \in {"inserted", "late"}
    /\ missed' = Untold(j)
    /\ Goto(j, Ended(j))
    /\ UNCHANGED <<db, memcache, done, ram, began, rows, step, cut, raced, cutoff, stray>>

\* StoreInvalidateAll: the older rows of the kind are not needed any more,
\* unless the row for all is not there: its commit failed, or it was deleted
\* already.  For items of other kinds, a job that has not seen what the cron
\* deleted may now find fewer rows than the limit.
PurgeRows(j) ==
    LET kind == KindOf[req[j].item]
        older == {r \in rows : r.kind = kind /\ r.ts < req[j].ts}
        superseded == \E r \in rows : r.kind = kind /\ r.key = All /\ r.ts >= req[j].ts
        needed == {i \in Read : older # {} /\ ~(superseded /\ KindOf[i] = kind)}
    IN
    /\ At(j, "purge")
    /\ rows' = rows \ older
    /\ missed' = [i \in Read |-> IF i \in needed THEN Max({LastOf(missed, older)[i], cutoff[i]})
                                                 ELSE missed[i]]
    /\ raced' = (raced \/ (cut # None /\ older # {}))
    /\ Goto(j, Forgetting(j))
    /\ UNCHANGED <<db, memcache, done, ram, began, step, cut, cutoff, stray>>

\* delete_multi(seconds=5), of the items updated.
DeleteFromMemcache(j) ==
    LET i == req[j].item IN
    /\ At(j, "forget")
    /\ memcache' = IF i \in TwoLevel THEN [memcache EXCEPT ![i] = Locked] ELSE memcache
    /\ stray' = stray \ {i}
    /\ Goto(j, Open)
    /\ UNCHANGED <<db, done, ram, began, tableVars>>

-----------------------------------------------------------------------------
(* RamCacheConsolidate, a cron: SELECT, then DELETE.                         *)

SelectKept ==
    /\ cut = None
    /\ Cardinality(rows) > Limit
    /\ cut' = Min({r.ts : r \in LastSteps(rows, Limit)})
    /\ UNCHANGED <<db, memcache, done, ram, req, began, rows, step, raced, cutoff, missed, stray>>

\* The rows kept are those selected, unless StoreInvalidateAll came between.
DeleteOld ==
    LET old == {r \in rows : r.ts < cut} IN
    /\ cut # None
    /\ rows' = rows \ old
    /\ cutoff' = LastOf(cutoff, old)
    /\ missed' = IF raced THEN [i \in Read |-> Max({missed[i], LastOf(cutoff, old)[i]})] ELSE missed
    /\ cut' = None /\ raced' = FALSE
    /\ UNCHANGED <<db, memcache, done, ram, req, began, step, stray>>

-----------------------------------------------------------------------------
JobStep(j) ==
    \/ BeginRequest(j) \/ Restart(j)
    \/ \E i \in Read : ReadMemcache(j, i) \/ Fetch(j, i) \/ FetchReplica(j, i)
    \/ \E i \in Items : LoadForUpdate(j, i)
    \/ AddToMemcache(j)
    \/ Change(j) \/ Insert(j) \/ Commit(j) \/ CommitFails(j) \/ PurgeRows(j) \/ DeleteFromMemcache(j)

Next ==
    \/ \E j \in Jobs : JobStep(j)
    \/ \E i \in Items : Evict(i)
    \/ SelectKept \/ DeleteOld

Spec == Init /\ [][Next]_vars

-----------------------------------------------------------------------------
TypeOK ==
    /\ db \in [Items -> Versions]
    /\ rows \subseteq Row
    /\ step \in 0 .. MaxStep
    /\ memcache \in [Items -> Versions \cup {None, Locked}]
    /\ done \in [Jobs -> 0 .. MaxStep]
    /\ ram \in [Jobs -> [Items -> Cached \cup {None}]]
    /\ req \in [Jobs -> Request]
    /\ cut \in Steps \cup {None} /\ raced \in BOOLEAN
    /\ cutoff \in [Read -> Versions] /\ missed \in [Read -> Versions]
    /\ began \in [Jobs -> [Items -> Versions]]
    /\ stray \subseteq Items

(* "This approach makes jobs use cached values that are not stale at the     *)
(* time that processing of each request begins", for the values that a job   *)
(* has read from the master itself: a stale one will be dropped when the     *)
(* next request begins, "it will drop everything" when the cron has deleted  *)
(* rows that it has not seen.  Exempt are updates committed by themselves    *)
(* whose row is not there yet, or never will be because the request was cut  *)
(* off or the row was rolled back; those whose row became visible after some *)
(* job had seen a later one; those whose row a StoreInvalidateAll deleted    *)
(* while its own was not there; and those whose row the cron deleted before, *)
(* or right after, a StoreInvalidateAll deleted others, so that jobs may not *)
(* see "more than the max Invalidate rows".                                  *)
StaleWillBeDropped ==
    \A j \in Jobs, i \in Items :
        LET c == ram[j][i] IN
        c # None /\ c.own /\ c.version < db[i]
            => \/ \E r \in New(j) : Covers(r, i)
               \/ Overflow(j)
               \/ RowDue(i, c.version)
               \/ missed[i] > c.version

(* "We never use the cache to load objects as part of a read-modify-save     *)
(* sequence because that could cause stored data to revert to a previous     *)
(* state": what a job stores is made from a version at least as new as the   *)
(* one when its request began, however long the request takes.               *)
UpdatesFreshVersion ==
    \A j \in Jobs :
        req[j].pc \in {"loaded", "inserted"} => req[j].version >= began[j][req[j].item]

(* Memcache holds an old version of an item only until the job that updates  *)
(* it deletes that one, or when a job added what it had read before the      *)
(* update or from a lagging replica, or died before the deletion.            *)
MemcacheForgets ==
    \A i \in Items :
        memcache[i] \in Versions /\ memcache[i] < db[i]
            => \/ i \in stray
               \/ \E j \in Jobs : req[j].pc \in Invalidating /\ req[j].item = i
=============================================================================
