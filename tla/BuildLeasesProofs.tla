------------------------- MODULE BuildLeasesProofs -------------------------
(* Proofs about leased builds, for every number of clients, limit on dates,  *)
(* timeout and bound on the clock and on the keys.                           *)
EXTENDS BuildLeases, BuildEntityProofs

-----------------------------------------------------------------------------
(* The inductive invariant.                                                  *)

(* Keys in use have been drawn, no two clients have the same, and a client   *)
(* without a key has no date.                                                *)
KeysInv ==
    /\ build.key \in drawn \cup {None}
    /\ \A c \in Clients : held[c].key \in drawn \cup {None}
    /\ \A c \in Clients : held[c].key = None => held[c].exp = 0
    /\ \A c, d \in Clients : held[c].key = held[d].key /\ held[c].key # None => c = d

(* The build is under the key that a client knows, at least until the        *)
(* earliest date that the client must reckon with, until that date passes.   *)
BelievedInv ==
    \A c \in Clients : Live /\ held[c].key \notin forced =>
        \E d \in Until(c) :
            \/ d <= now
            \/ held[c].key = build.key /\ d <= build.exp

LeasesInv ==
    /\ TypeOK
    /\ KeysInv
    /\ LeaseMatchesStatus
    /\ BelievedInv
    /\ QueueInv

-----------------------------------------------------------------------------
(* What the steps of clients, of the cron and of administrators do to the    *)
(* entity, its tasks and the clock.                                          *)

\* A new build is scheduled, and no client has leased it.
LEMMA LeasesInit == Init => LeasesInv
<1> SUFFICES ASSUME Init PROVE LeasesInv
  OBVIOUS
<1> USE DEF Init
<1>1. 1 \in LeaseKeys /\ MaxLease \in Nat /\ MaxLease > 0 /\ None \notin Nat
  BY LeaseAssumption, BuildAssumption DEF LeaseKeys
<1>2. PICK k \in {None, 1}, e \in ValidDates :
        /\ build = [exists |-> TRUE, status |-> "SCHEDULED", key |-> k,
                    exp |-> IF k = None THEN None ELSE e,
                    task |-> None, steps |-> "none"]
        /\ held \in [Clients -> {NoLease, [key |-> k, exp |-> e]}]
  OBVIOUS
<1>3. e \in Nat /\ e <= MaxLease /\ now = 0
  BY <1>1, <1>2 DEF ValidDates
<1>4. build \in Build
  <2>1. k \in LeaseKeys \cup {None} /\ "SCHEDULED" \in Statuses
    BY <1>1 DEF Statuses
  <2> QED
    BY <1>1, <1>2, <1>3, <2>1 DEF Build
<1>5. held \in [Clients -> Lease] /\ lost \in [Clients -> Nat \cup {None}]
  BY <1>1, <1>2, <1>3 DEF NoLease, Lease
<1>6. \A c \in Clients : /\ held[c] = NoLease \/ held[c] = [key |-> k, exp |-> e]
                         /\ held[c] # NoLease => held[c].key # None
                         /\ Until(c) = {held[c].exp}
  BY <1>1, <1>2, <1>3 DEF Until, NoLease
<1>7. TypeOK /\ KeysInv
  <2>1. \A c \in Clients : held[c].exp <= MaxLease
    BY <1>1, <1>3, <1>6 DEF NoLease
  <2>2. TypeOK
    BY <1>1, <1>2, <1>3, <1>4, <1>5, <1>6, <2>1, BuildAssumption DEF TypeOK, EntityTypeOK
  <2>3. KeysInv
    BY <1>1, <1>2, <1>6 DEF KeysInv, NoLease
  <2> QED
    BY <2>2, <2>3
<1>8. LeaseMatchesStatus /\ BelievedInv
  <2>1. LeaseMatchesStatus
    BY <1>1, <1>2, <1>3 DEF LeaseMatchesStatus, IsEnded, Ended
  <2>2. ASSUME NEW c \in Clients
        PROVE  \/ held[c].exp <= now
               \/ held[c].key = build.key /\ held[c].exp <= build.exp
    BY <1>1, <1>2, <1>3, <1>6 DEF NoLease
  <2> QED
    BY <1>6, <2>1, <2>2 DEF BelievedInv
<1>9. QueueInv
  BY DEF QueueInv
<1> QED
  BY <1>7, <1>8, <1>9 DEF LeasesInv

(* A leased build is not ended, and its expiration is a time.                *)
LEMMA LeasedIsLive ==
    ASSUME LeasesInv
    PROVE  /\ build.exp # None => ~IsEnded /\ build.key # None /\ build.exp \in Nat
           /\ build \in Build /\ now \in Nat /\ queue \subseteq Kinds \X Statuses
           /\ build.status \in Statuses
           /\ held \in [Clients -> Lease] /\ lost \in [Clients -> Nat \cup {None}]
           /\ MaxLease \in Nat /\ MaxLease > 0
BY LeaseAssumption, BuildAssumption
   DEF LeasesInv, TypeOK, EntityTypeOK, LeaseMatchesStatus, Build

(* The date of a request is a time, within the limit.                        *)
LEMMA ValidDatesAreTimes ==
    ASSUME LeasesInv, NEW e \in ValidDates
    PROVE  e \in Nat /\ e <= now + MaxLease /\ e # None
BY LeasedIsLive, NoneIsNothing DEF ValidDates

(* A client leases the build: nobody had a lease that still lasts.           *)
LEMMA LeaseBuildInv ==
    ASSUME LeasesInv, NEW c \in Clients, LeaseBuild(c)
    PROVE  LeasesInv'
<1> USE LeasedIsLive
<1>1. PICK k \in LeaseKeys \ drawn, e \in ValidDates :
        /\ build.exists /\ build.status = "SCHEDULED" /\ build.key = None
        /\ drawn' = drawn \cup {k}
        /\ build' = [build EXCEPT !.key = k, !.exp = e]
        /\ \/ /\ held' = [held EXCEPT ![c] = [key |-> k, exp |-> e]]
              /\ lost' = [lost EXCEPT ![c] = None]
           \/ held' = held /\ lost' = lost
        /\ UNCHANGED <<now, queue, handler, sent, cancels, forced>>
  BY DEF LeaseBuild
<1>2. k \in Nat /\ k # None /\ e \in Nat /\ e # None /\ e <= now + MaxLease
  BY NoneIsNothing, ValidDatesAreTimes DEF LeaseKeys
<1>3. /\ build' \in Build /\ build'.key = k /\ build'.exp = e
      /\ build'.status = "SCHEDULED" /\ build'.exists /\ build.status = build'.status
  BY <1>1, <1>2 DEF Build
<1>4. \A d \in Clients :
        \/ held'[d] = held[d] /\ lost'[d] = lost[d]
        \/ held'[d] = [key |-> k, exp |-> e] /\ lost'[d] = None
  BY <1>1
<1>5. held' \in [Clients -> Lease] /\ lost' \in [Clients -> Nat \cup {None}]
  BY <1>1, <1>2 DEF Lease
<1>6. TypeOK'
  BY <1>1, <1>2, <1>3, <1>4, <1>5 DEF LeasesInv, TypeOK, EntityTypeOK, Until
<1>7. KeysInv'
  BY <1>1, <1>2, <1>3, <1>4 DEF LeasesInv, KeysInv
<1>8. LeaseMatchesStatus'
  BY <1>2, <1>3 DEF LeaseMatchesStatus, IsEnded, Ended
<1>9. \A d \in Clients : held[d].key \notin forced => \E x \in Until(d) : x <= now
  <2>1. ASSUME NEW d \in Clients, held[d].key = None
        PROVE  held[d].exp \in Until(d) /\ held[d].exp <= now
    BY <2>1, NoneIsNothing DEF LeasesInv, KeysInv, Until
  <2>2. Live
    BY <1>1 DEF Live, IsEnded, Ended
  <2> QED
    BY <1>1, <2>1, <2>2 DEF LeasesInv, BelievedInv
<1>10. BelievedInv'
  <2>1. ASSUME NEW d \in Clients, (held[d].key \notin forced)'
        PROVE  (\E x \in Until(d) : \/ x <= now
                                    \/ held[d].key = build.key /\ x <= build.exp)'
    <3>1. CASE held'[d] = held[d] /\ lost'[d] = lost[d]
      BY <1>1, <1>9, <2>1, <3>1 DEF Until
    <3>2. CASE held'[d] = [key |-> k, exp |-> e] /\ lost'[d] = None
      BY <1>2, <1>3, <3>2 DEF Until
    <3> QED
      BY <1>4, <3>1, <3>2
  <2> QED
    BY <2>1 DEF BelievedInv
<1>11. QueueInv'
  BY <1>1, <1>3 DEF LeasesInv, QueueInv, IsEnded
<1> QED
  BY <1>6, <1>7, <1>8, <1>10, <1>11 DEF LeasesInv

(* A heartbeat sets a date that its client comes to know or must reckon with.*)
LEMMA HeartbeatInv ==
    ASSUME LeasesInv, NEW c \in Clients, Heartbeat(c)
    PROVE  LeasesInv'
<1> USE LeasedIsLive
<1>1. PICK e \in ValidDates :
        /\ Live /\ held[c].key = build.key /\ build.key # None
        /\ build' = [build EXCEPT !.exp = e]
        /\ \/ held' = [held EXCEPT ![c].exp = e] /\ lost' = lost
           \/ lost' = [lost EXCEPT ![c] = Earliest(e, @)] /\ held' = held
        /\ UNCHANGED <<now, queue, handler, sent, cancels, drawn, forced>>
  BY DEF Heartbeat, HeartbeatSets, HoldsLease
<1>2. e \in Nat /\ e # None /\ e <= now + MaxLease
  BY ValidDatesAreTimes
<1>3. /\ build' \in Build /\ build'.key = build.key /\ build'.exp = e
      /\ build'.status = build.status /\ build'.exists = build.exists
  BY <1>1, <1>2 DEF Build
<1>4. /\ Earliest(e, lost[c]) \in Nat /\ Earliest(e, lost[c]) <= e
      /\ Earliest(e, lost[c]) # None
  BY <1>2, NoneIsNothing DEF Earliest
<1>5. \A d \in Clients :
        /\ held'[d].key = held[d].key
        /\ held'[d].exp = held[d].exp \/ (d = c /\ held'[d].exp = e)
        /\ lost'[d] = lost[d] \/ (d = c /\ lost'[d] = Earliest(e, lost[c]))
  BY <1>1 DEF Lease
<1>6. held' \in [Clients -> Lease] /\ lost' \in [Clients -> Nat \cup {None}]
  BY <1>1, <1>2, <1>4 DEF Lease
<1>7. TypeOK'
  <2>1. \A d \in Clients : \A x \in Until(d)' : x <= now + MaxLease
    BY <1>2, <1>4, <1>5 DEF LeasesInv, TypeOK, Until
  <2> QED
    BY <1>1, <1>2, <1>3, <1>6, <2>1 DEF LeasesInv, TypeOK, EntityTypeOK
<1>8. KeysInv'
  BY <1>1, <1>3, <1>5 DEF LeasesInv, KeysInv
<1>9. LeaseMatchesStatus'
  BY <1>1, <1>2, <1>3 DEF LeasesInv, LeaseMatchesStatus, IsEnded
<1>10. BelievedInv'
  <2>1. ASSUME NEW d \in Clients, (held[d].key \notin forced)'
        PROVE  (\E x \in Until(d) : \/ x <= now
                                    \/ held[d].key = build.key /\ x <= build.exp)'
    <3>1. CASE d = c
      <4>1. held'[c].key = build'.key
        BY <1>1, <1>3, <1>5
      <4>2. \E x \in Until(c)' : x <= e
        <5>1. \/ held'[c].exp = e
              \/ lost'[c] = Earliest(e, lost[c])
          BY <1>1 DEF Lease
        <5>2. (held'[c].exp = e) => e \in Until(c)'
          BY <1>2 DEF Until
        <5>3. (lost'[c] = Earliest(e, lost[c])) => Earliest(e, lost[c]) \in Until(c)'
          BY <1>4 DEF Until
        <5> QED
          BY <1>2, <1>4, <5>1, <5>2, <5>3
      <4> QED
        BY <1>3, <3>1, <4>1, <4>2
    <3>2. CASE held[d].key = build.key /\ d # c
      BY <1>1, <3>2 DEF LeasesInv, KeysInv
    <3>3. CASE held[d].key # build.key
      <4>1. Until(d)' = Until(d) /\ held'[d] = held[d]
        BY <1>1, <3>3 DEF Until
      <4> QED
        BY <1>1, <1>3, <2>1, <3>3, <4>1 DEF LeasesInv, BelievedInv
    <3> QED
      BY <3>1, <3>2, <3>3
  <2> QED
    BY <2>1 DEF BelievedInv
<1>11. QueueInv'
  BY <1>1, <1>3 DEF LeasesInv, QueueInv, IsEnded
<1> QED
  BY <1>7, <1>8, <1>9, <1>10, <1>11 DEF LeasesInv

(* The build starts, with its lease.                                         *)
LEMMA StartBuildInv ==
    ASSUME LeasesInv, NEW c \in Clients, StartBuild(c)
    PROVE  LeasesInv'
<1> USE LeasedIsLive DEF StartBuild
<1>1. /\ Live /\ build.status = "SCHEDULED" /\ held[c].key = build.key /\ build.key # None
      /\ Put([build EXCEPT !.status = "STARTED"])
      /\ UNCHANGED <<now, handler, sent, cancels, drawn, held, lost, forced>>
  BY DEF HoldsLease, leaseVars
<1>2. [build EXCEPT !.status = "STARTED"] \in Build
  BY FieldsTypeOK DEF Statuses
<1>3. /\ build' \in Build /\ queue' \subseteq Kinds \X Statuses
      /\ build'.key = build.key /\ build'.exp = build.exp
      /\ build'.status = "STARTED" /\ build'.exists = build.exists /\ build.exists
  BY <1>1, <1>2, PutTypeOK DEF Build, Put, Live
<1>4. TypeOK'
  BY <1>1, <1>3 DEF LeasesInv, TypeOK, EntityTypeOK, Until
<1>5. KeysInv'
  BY <1>1, <1>3 DEF LeasesInv, KeysInv
<1>6. LeaseMatchesStatus'
  BY <1>1, <1>3 DEF LeasesInv, LeaseMatchesStatus, IsEnded, Ended
<1>7. BelievedInv'
  BY <1>1, <1>3 DEF LeasesInv, BelievedInv, Live, Until
<1>8. QueueInv'
  <2>1. [build EXCEPT !.status = "STARTED"].exists
    BY <1>3 DEF Build
  <2> QED
    BY <1>1, <1>2, <2>1, PutQueueInv DEF LeasesInv
<1> QED
  BY <1>4, <1>5, <1>6, <1>7, <1>8 DEF LeasesInv

(* A transaction that takes a live build from whoever has it.                *)
LEMMA UnleaseInv ==
    ASSUME LeasesInv, Live, NEW s \in Statuses \ {"STARTED"},
           Put(Unleased([build EXCEPT !.status = s])),
           UNCHANGED <<now, handler, sent, cancels, drawn, held, lost>>,
           forced' \subseteq drawn, forced \subseteq forced',
           \/ s \in Ended
           \/ \A c \in Clients : held[c].key \notin forced' => \E d \in Until(c) : d <= now
    PROVE  LeasesInv'
<1> USE LeasedIsLive
<1>1. [build EXCEPT !.status = s] \in Build /\ Unleased([build EXCEPT !.status = s]) \in Build
  BY FieldsTypeOK
<1>2. /\ [build EXCEPT !.status = s].exists = build.exists /\ build.exists
      /\ [build EXCEPT !.status = s].status = s
  BY DEF Live, Build
<1>3. /\ build' \in Build /\ queue' \subseteq Kinds \X Statuses
      /\ build'.key = None /\ build'.exp = None
      /\ build'.status = s /\ build'.exists
  BY <1>1, <1>2, FieldsTypeOK, PutTypeOK DEF Put
<1>4. TypeOK'
  BY <1>3 DEF LeasesInv, TypeOK, EntityTypeOK, Until
<1>5. KeysInv'
  BY <1>3 DEF LeasesInv, KeysInv
<1>6. LeaseMatchesStatus'
  BY <1>3 DEF LeaseMatchesStatus
<1>7. BelievedInv'
  <2>1. CASE s \in Ended
    BY <2>1, <1>3 DEF BelievedInv, Live, IsEnded
  <2>2. CASE \A c \in Clients : held[c].key \notin forced' => \E d \in Until(c) : d <= now
    BY <2>2 DEF BelievedInv, Until
  <2> QED
    BY <2>1, <2>2
<1>8. QueueInv'
  <2>1. Unleased([build EXCEPT !.status = s]).exists
    BY <1>1, <1>2, FieldsTypeOK
  <2> QED
    BY <1>1, <2>1, PutQueueInv DEF LeasesInv
<1> QED
  BY <1>4, <1>5, <1>6, <1>7, <1>8 DEF LeasesInv

-----------------------------------------------------------------------------
(* The steps that all builds share: users, the timeout, tasks and the clock. *)
LEMMA EntityStepInv ==
    ASSUME LeasesInv, EntityStep, UNCHANGED leaseVars
    PROVE  LeasesInv'
<1> USE LeasedIsLive
<1>1. EntityTypeOK' /\ QueueInv'
  BY EntityStepTypeOK, EntityStepQueueInv DEF LeasesInv, TypeOK
<1>2. CASE Announcing \/ Tick
  <2>1. build' = build /\ now' \in Nat /\ now <= now'
    BY <1>2 DEF Announcing, DropTask, ReadBuild, SendTask, SendFails, Tick
  <2>2. TypeOK'
    <3>1. \A c \in Clients : Until(c)' = Until(c) /\ Until(c) \subseteq Nat
      BY DEF Until, Lease, leaseVars
    <3>2. \A c \in Clients : \A d \in Until(c) : d <= now' + MaxLease
      BY <2>1, <3>1 DEF LeasesInv, TypeOK
    <3>3. build'.exp # None => build'.exp <= now' + MaxLease
      BY <2>1 DEF LeasesInv, TypeOK
    <3> QED
      BY <1>1, <2>1, <3>1, <3>2, <3>3 DEF LeasesInv, TypeOK, leaseVars
  <2>3. KeysInv' /\ LeaseMatchesStatus'
    BY <2>1 DEF LeasesInv, KeysInv, LeaseMatchesStatus, IsEnded, leaseVars
  <2>4. BelievedInv'
    <3>1. ASSUME NEW c \in Clients, NEW d \in Until(c), d <= now
          PROVE  d <= now'
      BY <2>1, <3>1 DEF Until, Lease
    <3>2. \A c \in Clients : Until(c)' = Until(c) /\ held'[c] = held[c]
      BY DEF Until, leaseVars
    <3> QED
      BY <2>1, <3>1, <3>2 DEF LeasesInv, BelievedInv, Live, IsEnded, leaseVars
  <2> QED
    BY <1>1, <2>2, <2>3, <2>4 DEF LeasesInv
<1>3. CASE CancelBuild \/ ExpireBuild \/ DeleteBuild
  <2>1. /\ build'.key = None \/ build'.key = build.key
        /\ build'.exp = None \/ build'.exp = build.exp
        /\ ~Live' /\ UNCHANGED now
        /\ LeaseMatchesStatus'
    <3>1. CASE CancelBuild
      <4>1. DEFINE b == Unleased([build EXCEPT !.status = "CANCELED"])
      <4>2. b \in Build /\ b.key = None /\ b.exp = None /\ b.status = "CANCELED"
        <5>1. [build EXCEPT !.status = "CANCELED"] \in Build
              /\ [build EXCEPT !.status = "CANCELED"].status = "CANCELED"
          BY DEF Build, Statuses, Ended
        <5> QED
          BY <5>1, FieldsTypeOK
      <4>3. build' = CancelSteps(b) /\ UNCHANGED now
        BY <3>1 DEF CancelBuild, Put
      <4>4. build'.key = None /\ build'.exp = None /\ build'.status = "CANCELED"
        BY <4>2, <4>3, FieldsTypeOK
      <4> QED
        BY <4>3, <4>4 DEF Live, IsEnded, Ended, LeaseMatchesStatus
    <3>2. CASE ExpireBuild
      <4>1. [build EXCEPT !.status = "INFRA_FAILURE"] \in Build
            /\ [build EXCEPT !.status = "INFRA_FAILURE"].status = "INFRA_FAILURE"
        BY DEF Build, Statuses, Ended
      <4>2. /\ build'.key = None /\ build'.exp = None /\ build'.status = "INFRA_FAILURE"
            /\ UNCHANGED now
        BY <3>2, <4>1, FieldsTypeOK DEF ExpireBuild, Put
      <4> QED
        BY <4>2 DEF Live, IsEnded, Ended, LeaseMatchesStatus
    <3>3. CASE DeleteBuild
      <4>1. /\ build'.key = build.key /\ build'.exp = build.exp
            /\ build'.status = build.status /\ ~build'.exists /\ UNCHANGED now
        BY <3>3 DEF DeleteBuild, Build
      <4> QED
        BY <4>1 DEF LeasesInv, Live, IsEnded, LeaseMatchesStatus
    <3> QED
      BY <1>3, <3>1, <3>2, <3>3
  <2>2. TypeOK'
    BY <1>1, <2>1 DEF LeasesInv, TypeOK, Until, leaseVars
  <2>3. KeysInv'
    BY <2>1 DEF LeasesInv, KeysInv, leaseVars
  <2>4. BelievedInv'
    BY <2>1 DEF BelievedInv
  <2> QED
    BY <1>1, <2>1, <2>2, <2>3, <2>4 DEF LeasesInv
<1> QED
  BY <1>2, <1>3 DEF EntityStep

(* Every step preserves the invariant.                                       *)
LEMMA LeasesNext == LeasesInv /\ [Next]_vars => LeasesInv'
<1> SUFFICES ASSUME LeasesInv, [Next]_vars PROVE LeasesInv'
  OBVIOUS
<1> USE LeasedIsLive
<1>1. ASSUME NEW c \in Clients, NEW s \in Verdicts, CompleteBuild(c, s)
      PROVE  LeasesInv'
  <2>1. s \in Statuses \ {"STARTED"} /\ s \in Ended
    BY BuildAssumption DEF Statuses, Ended
  <2>2. /\ Live /\ Put(Unleased([build EXCEPT !.status = s]))
        /\ UNCHANGED <<now, handler, sent, cancels, drawn, held, lost>> /\ forced' = forced
    BY <1>1 DEF CompleteBuild, leaseVars
  <2>3. forced' \subseteq drawn
    BY <2>2 DEF LeasesInv, TypeOK
  <2> QED
    BY <2>1, <2>2, <2>3, UnleaseInv
<1>2. CASE ResetBuild
  <2>1. /\ Live /\ Put(Unleased([build EXCEPT !.status = "SCHEDULED"]))
        /\ UNCHANGED <<now, handler, sent, cancels, drawn, held, lost>>
        /\ forced' = forced \cup ({build.key} \ {None})
    BY <1>2 DEF ResetBuild
  <2>2. forced' \subseteq drawn
    BY <2>1 DEF LeasesInv, TypeOK, KeysInv
  <2>3. \A c \in Clients : held[c].key \notin forced' => \E d \in Until(c) : d <= now
    <3>1. ASSUME NEW c \in Clients, held[c].key = None
          PROVE  held[c].exp \in Until(c) /\ held[c].exp <= now
      BY <3>1, NoneIsNothing DEF LeasesInv, KeysInv, Until
    <3> QED
      BY <2>1, <3>1 DEF LeasesInv, BelievedInv
  <2>4. "SCHEDULED" \in Statuses \ {"STARTED"}
    BY DEF Statuses
  <2> QED
    BY <2>1, <2>2, <2>3, <2>4, UnleaseInv
<1>3. CASE ExpireLease
  <2>1. /\ Live /\ build.exp <= now /\ build.exp \in Nat
        /\ Put(Unleased([build EXCEPT !.status = "SCHEDULED"]))
        /\ UNCHANGED <<now, handler, sent, cancels, drawn, held, lost>> /\ forced' = forced
    BY <1>3 DEF ExpireLease, LeaseExpired, Live, leaseVars
  <2>2. forced' \subseteq drawn
    BY <2>1 DEF LeasesInv, TypeOK
  <2>3. \A c \in Clients : held[c].key \notin forced' => \E d \in Until(c) : d <= now
    <3>1. \A c \in Clients : \A d \in Until(c) : d \in Nat
      BY DEF Until, Lease
    <3> QED
      BY <2>1, <3>1 DEF LeasesInv, BelievedInv
  <2>4. "SCHEDULED" \in Statuses \ {"STARTED"}
    BY DEF Statuses
  <2> QED
    BY <2>1, <2>2, <2>3, <2>4, UnleaseInv
<1>4. CASE UNCHANGED vars
  BY <1>4 DEF vars, entityVars, leaseVars, LeasesInv, TypeOK, EntityTypeOK, KeysInv,
              LeaseMatchesStatus, BelievedInv, Until, QueueInv, Live, IsEnded
<1> QED
  BY <1>1, <1>2, <1>3, <1>4, LeaseBuildInv, HeartbeatInv, StartBuildInv, EntityStepInv
     DEF Next, ClientStep

-----------------------------------------------------------------------------
(* The invariant: keys in use were drawn, a client has the build at least    *)
(* until the earliest date that it must reckon with, and tasks that announce *)
(* an end find it.                                                           *)
THEOREM LeasesInvariant == Spec => []LeasesInv
BY LeasesInit, LeasesNext, PTL DEF Spec

(* Type correctness: no expiration is later than MAX_LEASE_DURATION from     *)
(* now, whatever heartbeats with or without an answer there have been.       *)
THEOREM LeasesTypeOK == Spec => []TypeOK
<1>1. LeasesInv => TypeOK
  BY DEF LeasesInv
<1> QED
  BY <1>1, LeasesInvariant, PTL

(* The assertions of Build._pre_put_hook hold, and a started build is        *)
(* leased, so that the cron can take it back.                                *)
THEOREM LeaseMatchesStatusThm == Spec => []LeaseMatchesStatus
<1>1. LeasesInv => LeaseMatchesStatus
  BY DEF LeasesInv
<1> QED
  BY <1>1, LeasesInvariant, PTL

(* A client has the build until the earliest date that its requests may have *)
(* set has passed, the build ends or an administrator resets it.             *)
THEOREM LeaseHonouredThm == Spec => []LeaseHonoured
<1>1. LeasesInv => LeaseHonoured
  <2>1. ASSUME LeasesInv, NEW c \in Clients, NEW d \in Until(c), d > now
        PROVE  ~(d <= now)
    BY <2>1 DEF LeasesInv, TypeOK, EntityTypeOK, Until, Lease
  <2> QED
    BY <2>1 DEF LeasesInv, BelievedInv, LeaseHonoured
<1> QED
  BY <1>1, LeasesInvariant, PTL

(* The tasks that export or finalize a build find it, ended with the result  *)
(* that they were enqueued for.                                              *)
THEOREM EndTasksFindEndedBuildThm == Spec => []EndTasksFindEndedBuild
<1>1. LeasesInv => EndTasksFindEndedBuild
  BY DEF LeasesInv, QueueInv, EndTasksFindEndedBuild
<1> QED
  BY <1>1, LeasesInvariant, PTL
=============================================================================
