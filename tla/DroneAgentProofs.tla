-------------------------- MODULE DroneAgentProofs --------------------------
(* Proofs about one drone agent, for every set of DUTs, every bound on the   *)
(* clock, every lease duration and grace interval.                           *)
EXTENDS DroneAgent, TLAPS

-----------------------------------------------------------------------------
(* The inductive invariant.                                                  *)

(* The controller knows exactly the DUTs that have a goroutine, and only a   *)
(* goroutine that listens has a bot or has been told to stop.                *)
RunInv ==
    \A u \in DUTs :
        /\ u \in active <=> run[u].pc # "none"
        /\ run[u].pc # "listen" => run[u].bot = "none" /\ run[u].stop = FALSE
        /\ run[u].pc = "listen" => run[u].bot # "none"

(* The watchers live from the first update of a session to its end; one that *)
(* has acted has blocked the controller; readyToExit is closed by the exit   *)
(* watcher, with nothing left to run.                                        *)
WatchInv ==
    /\ watch.exit = "off" => watch = NoWatch
    /\ main.pc \in {"register", "exited"}
         => active = {} /\ watch.exit = "off"
    /\ main.pc \in {"loop", "report", "join"} => watch.exit # "off"
    /\ ready <=> watch.exit = "done"
    /\ watch.exit \in {"act", "done"} => blocked
    /\ watch.cancel \in {"act", "done"} => blocked
    /\ watch.drain \in {"act", "done"} => blocked
    /\ ready => active = {}

(* A release in progress is that of a DUT's goroutine, or the report loop's  *)
(* for a DUT without one.                                                    *)
MainReleases(u) ==
    main.pc \in {"drain-release", "terminate-release"} /\ main.dut = u

ReleaseInv ==
    /\ \A u \in releasing :
          \/ run[u].pc = "release"
          \/ run[u].pc = "none" /\ MainReleases(u)
    /\ \A u \in DUTs : MainReleases(u) => run[u].pc = "none"

AgentInv ==
    /\ TypeOK
    /\ RunInv
    /\ WatchInv
    /\ ReleaseInv
    /\ SignalsReachAll

-----------------------------------------------------------------------------
(* Every step of the report loop leaves the state well typed.                *)
LEMMA MainTypeOK ==
    ASSUME TypeOK, MainStep
    PROVE  TypeOK'
<1> USE DEF env, timer, signals
<1>1. /\ main \in MainType
      /\ main.dut \in DUTs \cup {NoDUT}
      /\ main.assign \in SUBSET DUTs /\ main.drain \in SUBSET DUTs
      /\ main.todo \in SUBSET DUTs
      /\ run \in [DUTs -> RunType]
  BY DEF TypeOK, MainType
<1>2. ASSUME NEW assign \in SUBSET DUTs, NEW t \in 0 .. MaxTime + Duration,
             NEW drain \in SUBSET assign,
             Register(assign, drain, t) \/ ReportOK(assign, drain, t)
      PROVE  TypeOK'
  <2>1. drain \in SUBSET DUTs /\ t \in Int
    BY AgentAssumption
  <2>2. [main EXCEPT !.pc = "set", !.assign = assign, !.drain = drain]
            \in MainType
    BY <1>1, <2>1 DEF MainType
  <2>3. main' \in MainType /\ lease' = t
    BY <1>2, <2>2 DEF Register, ReportOK
  <2>4. deadline' \in Int
    BY <1>2, <2>1, AgentAssumption DEF TypeOK, Register, ReportOK
  <2> QED
    BY <1>2, <2>3, <2>4 DEF TypeOK, Register, ReportOK
<1>3. CASE SetExpiration
  <2>1. [main EXCEPT !.pc = "drain", !.todo = main.drain] \in MainType
    BY <1>1 DEF MainType
  <2>2. deadline' \in Int
    BY <1>3, AgentAssumption DEF TypeOK, SetExpiration
  <2> QED
    BY <1>3, <2>1, <2>2 DEF TypeOK, SetExpiration
<1>4. CASE StartAdding
  <2>1. [main EXCEPT !.pc = "add", !.todo = main.assign \ main.drain]
            \in MainType
    BY <1>1 DEF MainType
  <2> QED
    BY <1>4, <2>1 DEF TypeOK, StartAdding
<1>5. CASE StartTerminating
  <2>1. [main EXCEPT !.pc = "terminate", !.todo = active \ main.assign]
            \in MainType
    BY <1>1 DEF MainType, TypeOK
  <2> QED
    BY <1>5, <2>1 DEF TypeOK, StartTerminating
<1>6. CASE MainReleased
  <2>1. \A p \in {"drain", "terminate"} :
            [main EXCEPT !.pc = p, !.dut = NoDUT] \in MainType
    BY <1>1 DEF MainType
  <2>2. main' \in MainType
    BY <1>6, <2>1 DEF MainReleased
  <2> QED
    BY <1>6, <2>2 DEF TypeOK, MainReleased
<1>7. CASE Applied
  <2>1. [main EXCEPT !.pc = "loop", !.assign = {}, !.drain = {}] \in MainType
    BY <1>1 DEF MainType
  <2>2. watch' \in [cancel : WatchState, drain : WatchState, exit : WatchState]
    BY <1>7 DEF Applied, TypeOK, WatchState
  <2> QED
    BY <1>7, <2>1, <2>2 DEF TypeOK, Applied
<1>8. ASSUME NEW u \in DUTs, DrainDUT(u)
      PROVE  TypeOK'
  <2>1. /\ [main EXCEPT !.todo = @ \ {u}] \in MainType
        /\ [main EXCEPT !.pc = "drain-release", !.dut = u, !.todo = @ \ {u}]
              \in MainType
    BY <1>1 DEF MainType
  <2>2. main' \in MainType
    BY <1>8, <2>1 DEF DrainDUT
  <2> QED
    BY <1>8, <2>2 DEF TypeOK, DrainDUT
<1>9. ASSUME NEW u \in DUTs, AddDUT(u)
      PROVE  TypeOK'
  <2>1. [main EXCEPT !.todo = @ \ {u}] \in MainType
    BY <1>1 DEF MainType
  <2>2. [NoRun EXCEPT !.pc = "check"] \in RunType
    BY DEF NoRun, RunType
  <2>3. run' \in [DUTs -> RunType]
    BY <1>1, <1>9, <2>2 DEF AddDUT
  <2> QED
    BY <1>9, <2>1, <2>3 DEF TypeOK, AddDUT
<1>10. ASSUME NEW u \in DUTs, TerminateDUT(u)
       PROVE  TypeOK'
  <2>1. /\ [main EXCEPT !.todo = @ \ {u}] \in MainType
        /\ [main EXCEPT !.pc = "terminate-release", !.dut = u,
                        !.todo = @ \ {u}] \in MainType
    BY <1>1 DEF MainType
  <2>2. main' \in MainType
    BY <1>10, <2>1 DEF TerminateDUT
  <2> QED
    BY <1>10, <2>2 DEF TypeOK, TerminateDUT
<1>11. CASE Exit \/ StartReport \/ ReportError
  <2>1. \A p \in {"exited", "report", "loop"} :
            [main EXCEPT !.pc = p] \in MainType
    BY <1>1 DEF MainType
  <2>2. main' \in MainType
    BY <1>11, <2>1 DEF Exit, StartReport, ReportError
  <2> QED
    BY <1>11, <2>2 DEF TypeOK, Exit, StartReport, ReportError
<1>12. CASE ReportUnknown \/ LoopExit
  <2>1. \A r \in {"nil", "error"} :
            [main EXCEPT !.pc = "join", !.ret = r] \in MainType
    BY <1>1 DEF MainType
  <2>2. main' \in MainType
    BY <1>12, <2>1 DEF ReportUnknown, LoopExit
  <2> QED
    BY <1>12, <2>2 DEF TypeOK, ReportUnknown, LoopExit
<1>13. CASE Join
  <2>1. IdleMain \in MainType
    BY DEF IdleMain, MainType
  <2>2. 0 \in 0 .. MaxTime + Duration /\ 0 \in Int
    BY AgentAssumption
  <2>3. NoWatch \in [cancel : WatchState, drain : WatchState, exit : WatchState]
    BY DEF NoWatch, WatchState
  <2> QED
    BY <1>13, <2>1, <2>2, <2>3 DEF TypeOK, Join
<1> QED
  BY <1>2, <1>3, <1>4, <1>5, <1>6, <1>7, <1>8, <1>9, <1>10, <1>11, <1>12, <1>13
  DEF MainStep, UpdateStep, Answer

(* So does every step of a DUT's goroutine and of its bot.                   *)
LEMMA RunTypeOK ==
    ASSUME TypeOK, NEW u \in DUTs, RunStep(u) \/ BotExit(u)
    PROVE  TypeOK'
<1> USE DEF env, timer, signals
<1>1. run \in [DUTs -> RunType] /\ run[u] \in RunType
  BY DEF TypeOK
<1>2. \A p \in {"check", "start", "release", "delete"} :
          /\ [run[u] EXCEPT !.pc = p] \in RunType
          /\ [NoRun EXCEPT !.pc = p] \in RunType
  BY <1>1 DEF NoRun, RunType
<1>3. \A r : run' = [run EXCEPT ![u] = r] /\ r \in RunType
            => run' \in [DUTs -> RunType]
  BY <1>1
<1>4. CASE TakeSignal(u)
  <2>1. run' \in [DUTs -> RunType]
    BY <1>2, <1>3, <1>4 DEF TakeSignal, Leave
  <2> QED
    BY <1>4, <2>1 DEF TypeOK, TakeSignal, Leave
<1>5. CASE NoSignal(u)
  <2>1. run' \in [DUTs -> RunType]
    BY <1>2, <1>3, <1>5 DEF NoSignal
  <2> QED
    BY <1>5, <2>1 DEF TypeOK, NoSignal
<1>6. CASE StartBot(u)
  <2>1. [run[u] EXCEPT !.pc = "listen", !.stop = FALSE, !.bot = "running"]
            \in RunType
    BY <1>1 DEF RunType
  <2>2. run' \in [DUTs -> RunType]
    BY <1>2, <1>3, <1>6, <2>1 DEF StartBot
  <2> QED
    BY <1>6, <2>2 DEF TypeOK, StartBot
<1>7. CASE HearDrain(u)
  <2>1. \A b \in {Drained(run[u].bot), run[u].bot} :
            [run[u] EXCEPT !.stop = TRUE, !.bot = b] \in RunType
    BY <1>1 DEF RunType, Drained
  <2>2. run' \in [DUTs -> RunType]
    BY <1>3, <1>7, <2>1 DEF HearDrain
  <2> QED
    BY <1>7, <2>2 DEF TypeOK, HearDrain
<1>8. CASE HearTerminate(u)
  <2>1. [run[u] EXCEPT !.stop = TRUE, !.bot = Terminated(run[u].bot)]
            \in RunType
    BY <1>1 DEF RunType, Terminated
  <2>2. run' \in [DUTs -> RunType]
    BY <1>3, <1>8, <2>1 DEF HearTerminate
  <2> QED
    BY <1>8, <2>2 DEF TypeOK, HearTerminate
<1>9. CASE BotGone(u)
  <2>1. run' \in [DUTs -> RunType]
    BY <1>2, <1>3, <1>9 DEF BotGone, Leave
  <2> QED
    BY <1>9, <2>1 DEF TypeOK, BotGone, Leave
<1>10. CASE Released(u)
  <2>1. run' \in [DUTs -> RunType]
    BY <1>2, <1>3, <1>10 DEF Released
  <2> QED
    BY <1>10, <2>1 DEF TypeOK, Released
<1>11. CASE Delete(u)
  <2>1. NoRun \in RunType
    BY DEF NoRun, RunType
  <2>2. run' \in [DUTs -> RunType]
    BY <1>3, <1>11, <2>1 DEF Delete
  <2> QED
    BY <1>11, <2>2 DEF TypeOK, Delete
<1>12. CASE BotExit(u)
  <2>1. [run[u] EXCEPT !.bot = "exited"] \in RunType
    BY <1>1 DEF RunType
  <2>2. run' \in [DUTs -> RunType]
    BY <1>3, <1>12, <2>1 DEF BotExit
  <2> QED
    BY <1>12, <2>2 DEF TypeOK, BotExit
<1> QED
  BY <1>4, <1>5, <1>6, <1>7, <1>8, <1>9, <1>10, <1>11, <1>12 DEF RunStep

(* The initial state is well typed.                                          *)
LEMMA InitTypeOK ==
    ASSUME Init
    PROVE  TypeOK
<1>1. 0 \in 0 .. MaxTime /\ 0 \in 0 .. MaxTime + Duration /\ 0 \in Int
  BY AgentAssumption
<1>2. NoRun \in RunType /\ IdleMain \in MainType
  BY DEF NoRun, RunType, IdleMain, MainType
<1>3. NoWatch \in [cancel : WatchState, drain : WatchState, exit : WatchState]
  BY DEF NoWatch, WatchState
<1> QED
  BY <1>1, <1>2, <1>3 DEF Init, TypeOK

(* Every step of the agent leaves the state well typed.                      *)
LEMMA StepTypeOK ==
    ASSUME TypeOK, [Next]_vars
    PROVE  TypeOK'
<1> USE DEF env, timer, signals
<1>1. CASE EnvStep
  <2>1. Tick => clock' \in 0 .. MaxTime
    BY AgentAssumption DEF Tick, TypeOK
  <2>2. Tick => TypeOK'
    BY <2>1 DEF Tick, TypeOK
  <2> QED
    BY <1>1, <2>2 DEF EnvStep, Cancel, Drain, Expire, TypeOK
<1>2. CASE MainStep
  BY <1>2, MainTypeOK
<1>3. CASE CancelWatch \/ DrainWatch \/ ExitWatch
  <2>1. watch' \in [cancel : WatchState, drain : WatchState,
                    exit : WatchState]
    BY <1>3
    DEF CancelWatch, DrainWatch, ExitWatch, CancelBlock, TerminateAll,
        WatchSkip, DrainBlock, DrainAll, ExitBlock, ExitReady, TypeOK,
        WatchState
  <2> QED
    BY <1>3, <2>1
    DEF CancelWatch, DrainWatch, ExitWatch, CancelBlock, TerminateAll,
        WatchSkip, DrainBlock, DrainAll, ExitBlock, ExitReady, TypeOK
<1>4. ASSUME NEW u \in DUTs, RunStep(u) \/ BotExit(u)
      PROVE  TypeOK'
  BY <1>4, RunTypeOK
<1>5. CASE UNCHANGED vars
  BY <1>5 DEF vars, TypeOK
<1> QED
  BY <1>1, <1>2, <1>3, <1>4, <1>5 DEF Next, Exited

-----------------------------------------------------------------------------
(* A step of one DUT's goroutine or bot touches nothing of another DUT, of   *)
(* the report loop or of the watchers.                                       *)
LEMMA RunStepIsLocal ==
    ASSUME TypeOK, NEW u \in DUTs, RunStep(u) \/ BotExit(u)
    PROVE  /\ \A v \in DUTs \ {u} :
                 /\ run'[v] = run[v]
                 /\ v \in active' <=> v \in active
                 /\ v \in drainSig' <=> v \in drainSig
                 /\ v \in termSig' <=> v \in termSig
                 /\ v \in releasing' <=> v \in releasing
           /\ active' \subseteq active
           /\ UNCHANGED <<ready, blocked, main, watch>>
<1> USE DEF signals
<1>1. run \in [DUTs -> RunType]
  BY DEF TypeOK
<1> QED
  BY <1>1
  DEF RunStep, TakeSignal, NoSignal, StartBot, HearDrain, HearTerminate,
      BotGone, Released, Delete, BotExit, Leave

(* The controller's set and the goroutines change outside the goroutines     *)
(* only when a DUT is added.                                                 *)
LEMMA OnlyAdditionsStart ==
    ASSUME EnvStep \/ MainStep \/ CancelWatch \/ DrainWatch \/ ExitWatch
    PROVE  \/ UNCHANGED <<active, run>>
           \/ \E u \in DUTs : AddDUT(u)
BY DEF EnvStep, Tick, Cancel, Drain, Expire, MainStep, Answer, Register,
       ReportOK, UpdateStep, SetExpiration, StartAdding, StartTerminating,
       MainReleased, Applied, DrainDUT, TerminateDUT, Exit, StartReport,
       ReportError, ReportUnknown, LoopExit, Join, CancelWatch, CancelBlock,
       TerminateAll, WatchSkip, DrainWatch, DrainBlock, DrainAll, ExitWatch,
       ExitBlock, ExitReady

(* RunInv is inductive.                                                      *)
LEMMA RunInvStep ==
    ASSUME TypeOK, RunInv, [Next]_vars
    PROVE  RunInv'
<1>1. run \in [DUTs -> RunType]
  BY DEF TypeOK
<1>2. CASE UNCHANGED <<active, run>>
  BY <1>2 DEF RunInv
<1>3. ASSUME NEW u \in DUTs, AddDUT(u)
      PROVE  RunInv'
  BY <1>1, <1>3 DEF RunInv, AddDUT, Accepts, NoRun
<1>4. ASSUME NEW u \in DUTs, RunStep(u) \/ BotExit(u)
      PROVE  RunInv'
  <2>1. \A v \in DUTs \ {u} :
            run'[v] = run[v] /\ (v \in active' <=> v \in active)
    BY <1>4, RunStepIsLocal
  <2>2. /\ u \in active' <=> run'[u].pc # "none"
        /\ run'[u].pc # "listen" => run'[u].bot = "none" /\ run'[u].stop = FALSE
        /\ run'[u].pc = "listen" => run'[u].bot # "none"
    <3>1. /\ u \in active <=> run[u].pc # "none"
          /\ run[u].pc # "listen" => run[u].bot = "none" /\ run[u].stop = FALSE
          /\ run[u].pc = "listen" => run[u].bot # "none"
          /\ run[u] \in RunType
      BY <1>1 DEF RunInv
    <3>2. CASE TakeSignal(u) \/ BotGone(u)
      BY <1>1, <3>1, <3>2 DEF TakeSignal, BotGone, Leave, NoRun
    <3>3. CASE NoSignal(u) \/ Released(u)
      <4>1. \E p \in {"start", "delete"} : run'[u] = [run[u] EXCEPT !.pc = p]
        BY <1>1, <3>3 DEF NoSignal, Released
      <4> QED
        BY <3>1, <3>3, <4>1 DEF NoSignal, Released, RunType
    <3>4. CASE StartBot(u)
      <4>1. \/ run'[u] = [run[u] EXCEPT !.pc = "listen", !.stop = FALSE,
                                        !.bot = "running"]
            \/ run'[u] = [run[u] EXCEPT !.pc = "check"]
        BY <1>1, <3>4 DEF StartBot
      <4> QED
        BY <3>1, <3>4, <4>1 DEF StartBot, RunType
    <3>5. CASE Delete(u)
      BY <1>1, <3>1, <3>5 DEF Delete, NoRun
    <3>6. CASE HearDrain(u) \/ HearTerminate(u)
      <4>1. PICK b \in {run[u].bot, Drained(run[u].bot), Terminated(run[u].bot)} :
                run'[u] = [run[u] EXCEPT !.stop = TRUE, !.bot = b]
        BY <1>1, <3>6 DEF HearDrain, HearTerminate
      <4>2. run[u].pc = "listen" /\ active' = active
        BY <3>6 DEF HearDrain, HearTerminate
      <4>3. b # "none"
        BY <3>1, <4>1, <4>2 DEF Drained, Terminated
      <4>4. run'[u].pc = "listen" /\ run'[u].bot = b
        BY <3>1, <4>1, <4>2 DEF RunType
      <4> QED
        BY <3>1, <4>2, <4>3, <4>4
    <3>7. CASE BotExit(u)
      <4>1. run'[u] = [run[u] EXCEPT !.bot = "exited"] /\ active' = active
        BY <1>1, <3>7 DEF BotExit
      <4>2. run[u].pc = "listen"
        BY <3>1, <3>7 DEF BotExit
      <4>3. run'[u].pc = "listen" /\ run'[u].bot = "exited"
        BY <3>1, <4>1, <4>2 DEF RunType
      <4> QED
        BY <3>1, <4>1, <4>2, <4>3
    <3> QED
      BY <1>4, <3>2, <3>3, <3>4, <3>5, <3>6, <3>7 DEF RunStep
  <2> QED
    BY <2>1, <2>2 DEF RunInv
<1> QED
  BY <1>2, <1>3, <1>4, OnlyAdditionsStart DEF Next, Exited, vars

(* WatchInv is inductive.                                                    *)
LEMMA WatchInvStep ==
    ASSUME TypeOK, RunInv, WatchInv, [Next]_vars
    PROVE  WatchInv'
<1>1. /\ watch \in [cancel : WatchState, drain : WatchState, exit : WatchState]
      /\ main \in MainType
      /\ ready \in BOOLEAN /\ blocked \in BOOLEAN
  BY DEF TypeOK
<1>2. CASE UNCHANGED <<ready, blocked, main, watch>> /\ active' \subseteq active
  BY <1>2 DEF WatchInv
<1>3. CASE Exit \/ StartReport \/ ReportError \/ ReportUnknown \/ LoopExit
  <2>1. /\ UNCHANGED <<ready, blocked, active, watch>>
        /\ \/ main.pc = "register" /\ main'.pc = "exited"
           \/ /\ main.pc \in {"loop", "report"}
              /\ main'.pc \in {"loop", "report", "join"}
    BY <1>1, <1>3
    DEF Exit, StartReport, ReportError, ReportUnknown, LoopExit, MainType
  <2> QED
    BY <2>1 DEF WatchInv
<1>4. CASE Answer \/ (UpdateStep /\ ~Applied)
  <2>1. main'.pc \in {"set", "drain", "add", "terminate", "drain-release",
                      "terminate-release"}
    BY <1>1, <1>4
    DEF Answer, Register, ReportOK, UpdateStep, SetExpiration, StartAdding,
        StartTerminating, MainReleased, DrainDUT, AddDUT, TerminateDUT, MainType
  <2>2. UNCHANGED <<ready, blocked, watch>>
    BY <1>4
    DEF Answer, Register, ReportOK, UpdateStep, SetExpiration, StartAdding,
        StartTerminating, MainReleased, DrainDUT, AddDUT, TerminateDUT
  <2>3. ready => active' = active
    BY <1>4
    DEF Answer, Register, ReportOK, UpdateStep, SetExpiration, StartAdding,
        StartTerminating, MainReleased, DrainDUT, AddDUT, TerminateDUT,
        Accepts, WatchInv
  <2> QED
    BY <2>1, <2>2, <2>3 DEF WatchInv
<1>5. CASE Applied
  <2>1. main'.pc = "loop" /\ UNCHANGED <<ready, blocked, active>>
    BY <1>1, <1>5 DEF Applied, MainType
  <2>2. \/ watch.exit = "off" /\ ~ready
           /\ watch' = [cancel |-> "wait", drain |-> "wait", exit |-> "wait"]
        \/ watch.exit # "off" /\ watch' = watch
    BY <1>5 DEF Applied, NoWatch, WatchInv
  <2> QED
    BY <2>1, <2>2 DEF WatchInv, NoWatch
<1>6. CASE Join
  <2>1. watch.exit = "done"
    BY <1>1, <1>6 DEF Join
  <2>2. active' = {} /\ watch' = NoWatch /\ ready' = FALSE
    BY <1>6, <2>1 DEF Join, WatchInv
  <2>3. main'.pc = "register"
    BY <1>6 DEF Join, IdleMain
  <2> QED
    BY <2>2, <2>3 DEF WatchInv, NoWatch
<1>7. CASE CancelWatch \/ DrainWatch
  <2>1. watch.exit # "off"
    BY <1>7
    DEF CancelWatch, CancelBlock, TerminateAll, WatchSkip, DrainWatch,
        DrainBlock, DrainAll, NoWatch, WatchInv
  <2>2. watch'.exit = watch.exit
    BY <1>1, <1>7
    DEF CancelWatch, CancelBlock, TerminateAll, WatchSkip, DrainWatch,
        DrainBlock, DrainAll
  <2>3. blocked'
    BY <1>1, <1>7
    DEF CancelWatch, CancelBlock, TerminateAll, WatchSkip, DrainWatch,
        DrainBlock, DrainAll, WatchInv
  <2>4. UNCHANGED <<main, ready, active>>
    BY <1>7
    DEF CancelWatch, CancelBlock, TerminateAll, WatchSkip, DrainWatch,
        DrainBlock, DrainAll
  <2> QED
    BY <2>1, <2>2, <2>3, <2>4 DEF WatchInv
<1>8. CASE ExitBlock
  <2>1. watch'.exit = "act" /\ blocked' /\ UNCHANGED <<main, ready, active>>
    BY <1>1, <1>8 DEF ExitBlock
  <2>2. watch.exit = "wait"
    BY <1>8 DEF ExitBlock
  <2> QED
    BY <2>1, <2>2 DEF WatchInv
<1>9. CASE ExitReady
  <2>1. watch'.exit = "done" /\ ready' /\ UNCHANGED <<main, blocked, active>>
    BY <1>1, <1>9 DEF ExitReady
  <2>2. watch.exit = "act"
    BY <1>9 DEF ExitReady
  <2>3. active = {}
    BY <1>9 DEF ExitReady, RunInv, TypeOK
  <2> QED
    BY <2>1, <2>2, <2>3 DEF WatchInv
<1>10. CASE EnvStep
  BY <1>2, <1>10 DEF EnvStep, Tick, Cancel, Drain, Expire
<1>11. ASSUME NEW u \in DUTs, RunStep(u) \/ BotExit(u)
       PROVE  WatchInv'
  BY <1>2, <1>11, RunStepIsLocal
<1> QED
  BY <1>2, <1>3, <1>4, <1>5, <1>6, <1>7, <1>8, <1>9, <1>10, <1>11
  DEF Next, Exited, MainStep, CancelWatch, DrainWatch, ExitWatch, UpdateStep,
      vars

(* ReleaseInv is inductive.                                                  *)
LEMMA ReleaseInvStep ==
    ASSUME TypeOK, RunInv, ReleaseInv, [Next]_vars
    PROVE  ReleaseInv'
<1>1. /\ main \in MainType /\ run \in [DUTs -> RunType]
      /\ releasing \subseteq DUTs /\ active \subseteq DUTs
  BY DEF TypeOK
<1>2. CASE UNCHANGED <<run, releasing>>
           /\ \A u \in DUTs : MainReleases(u)' <=> MainReleases(u)
  BY <1>1, <1>2 DEF ReleaseInv
<1>3. CASE \/ EnvStep \/ CancelWatch \/ DrainWatch \/ ExitWatch
  BY <1>2, <1>3
  DEF EnvStep, Tick, Cancel, Drain, Expire, CancelWatch, CancelBlock,
      TerminateAll, WatchSkip, DrainWatch, DrainBlock, DrainAll, ExitWatch,
      ExitBlock, ExitReady, MainReleases
<1>4. ASSUME NEW u \in DUTs, DrainDUT(u) \/ TerminateDUT(u)
      PROVE  ReleaseInv'
  <2>1. run' = run /\ \A v \in DUTs : ~MainReleases(v)
    BY <1>4 DEF DrainDUT, TerminateDUT, MainReleases
  <2>2. CASE u \in active
    <3>1. releasing' = releasing /\ main'.pc \in {"drain", "terminate"}
      BY <1>1, <1>4, <2>2 DEF DrainDUT, TerminateDUT, MainType
    <3> QED
      BY <1>1, <2>1, <3>1 DEF ReleaseInv, MainReleases
  <2>3. CASE u \notin active
    <3>1. /\ releasing' = releasing \cup {u} /\ main'.dut = u
          /\ main'.pc \in {"drain-release", "terminate-release"}
      BY <1>1, <1>4, <2>3 DEF DrainDUT, TerminateDUT, MainType
    <3>2. run[u].pc = "none"
      BY <2>3 DEF RunInv
    <3> QED
      BY <1>1, <2>1, <3>1, <3>2 DEF ReleaseInv, MainReleases
  <2> QED
    BY <2>2, <2>3
<1>5. CASE MainReleased
  <2>1. /\ releasing' = releasing \ {main.dut} /\ run' = run
        /\ main'.pc \in {"drain", "terminate"}
    BY <1>1, <1>5 DEF MainReleased, MainType
  <2> QED
    BY <1>1, <2>1 DEF ReleaseInv, MainReleases
<1>6. ASSUME NEW u \in DUTs, AddDUT(u)
      PROVE  ReleaseInv'
  <2>1. releasing' = releasing /\ \A v \in DUTs : ~MainReleases(v)
    BY <1>6 DEF AddDUT, MainReleases
  <2>2. main'.pc = "add"
    BY <1>1, <1>6 DEF AddDUT, MainType
  <2>3. u \notin active => run[u].pc = "none"
    BY DEF RunInv
  <2>4. \A v \in releasing : run'[v] = run[v]
    BY <1>1, <1>6, <2>1, <2>3 DEF AddDUT, Accepts, ReleaseInv
  <2> QED
    BY <1>1, <2>1, <2>2, <2>4 DEF ReleaseInv, MainReleases
<1>7. CASE MainStep /\ UNCHANGED <<run, releasing>> /\ ~MainReleased
           /\ \A u \in DUTs : ~DrainDUT(u) /\ ~TerminateDUT(u)
  <2>1. \A u \in DUTs : ~MainReleases(u)
    BY <1>7
    DEF MainStep, Answer, Register, ReportOK, UpdateStep, SetExpiration,
        StartAdding, StartTerminating, Applied, AddDUT, Exit, StartReport,
        ReportError, ReportUnknown, LoopExit, Join, MainReleases
  <2>2. main'.pc \notin {"drain-release", "terminate-release"}
    <3>1. CASE Answer
      BY <1>1, <3>1 DEF Answer, Register, ReportOK, MainType
    <3>2. CASE SetExpiration \/ StartAdding \/ StartTerminating \/ Applied
      BY <1>1, <3>2
      DEF SetExpiration, StartAdding, StartTerminating, Applied, MainType
    <3>3. ASSUME NEW u \in DUTs, AddDUT(u)
          PROVE  main'.pc = "add"
      BY <1>1, <3>3 DEF AddDUT, MainType
    <3>4. CASE Exit \/ StartReport \/ ReportError \/ ReportUnknown \/ LoopExit
      BY <1>1, <3>4
      DEF Exit, StartReport, ReportError, ReportUnknown, LoopExit, MainType
    <3>5. CASE Join
      BY <3>5 DEF Join, IdleMain
    <3> QED
      BY <1>7, <3>1, <3>2, <3>3, <3>4, <3>5 DEF MainStep, UpdateStep
  <2> QED
    BY <1>1, <1>7, <2>1, <2>2 DEF ReleaseInv, MainReleases
<1>8. ASSUME MainStep
      PROVE  ReleaseInv'
  <2>1. \/ UNCHANGED <<run, releasing>>
        \/ MainReleased
        \/ \E u \in DUTs : DrainDUT(u) \/ TerminateDUT(u) \/ AddDUT(u)
    BY <1>8
    DEF MainStep, Answer, Register, ReportOK, UpdateStep, SetExpiration,
        StartAdding, StartTerminating, Applied, Exit, StartReport,
        ReportError, ReportUnknown, LoopExit, Join
  <2> QED
    BY <1>4, <1>5, <1>6, <1>7, <1>8, <2>1
<1>9. ASSUME NEW u \in DUTs, RunStep(u) \/ BotExit(u)
      PROVE  ReleaseInv'
  <2>1. /\ main' = main
        /\ \A v \in DUTs \ {u} : run'[v] = run[v]
                                 /\ (v \in releasing' <=> v \in releasing)
    BY <1>9, RunStepIsLocal
  <2>2. run[u].pc # "none"
    BY <1>1, <1>9
    DEF RunStep, TakeSignal, NoSignal, StartBot, HearDrain, HearTerminate,
        BotGone, Released, Delete, BotExit, RunInv
  <2>3. ~MainReleases(u) /\ ~MainReleases(u)'
    BY <2>1, <2>2 DEF ReleaseInv, MainReleases
  <2>4. u \in releasing <=> u \in releasing /\ run[u].pc = "release"
    BY <1>1, <2>3 DEF ReleaseInv
  <2>5. u \in releasing' => run'[u].pc = "release"
    <3>1. CASE Released(u) \/ Delete(u)
      BY <1>1, <2>4, <3>1 DEF Released, Delete
    <3>2. CASE TakeSignal(u) \/ BotGone(u)
      BY <1>1, <2>4, <3>2 DEF TakeSignal, BotGone, Leave, NoRun
    <3>3. CASE NoSignal(u) \/ StartBot(u) \/ HearDrain(u) \/ HearTerminate(u)
      BY <1>1, <2>4, <3>3 DEF NoSignal, StartBot, HearDrain, HearTerminate
    <3>4. CASE BotExit(u)
      <4>1. run[u].pc = "listen"
        BY <3>4 DEF BotExit, RunInv
      <4> QED
        BY <1>1, <2>4, <3>4, <4>1 DEF BotExit
    <3> QED
      BY <1>9, <3>1, <3>2, <3>3, <3>4 DEF RunStep
  <2>6. releasing' \subseteq DUTs
    BY <1>9, RunTypeOK DEF TypeOK
  <2> QED
    BY <2>1, <2>3, <2>5, <2>6 DEF ReleaseInv, MainReleases
<1> QED
  BY <1>2, <1>3, <1>8, <1>9 DEF Next, Exited, vars, MainReleases

-----------------------------------------------------------------------------
(* A DUT's goroutine keeps what it has been told: a signal leaves a channel  *)
(* only for the goroutine to stop.                                           *)
LEMMA SignalKept ==
    ASSUME TypeOK, RunInv, NEW u \in DUTs, RunStep(u) \/ BotExit(u),
           u \in active'
    PROVE  /\ TermSent(u) => TermSent(u)'
           /\ u \in drainSig \cup termSig \/ Stopping(u)
                => (u \in drainSig \cup termSig \/ Stopping(u))'
<1> USE DEF TermSent, Stopping, signals
<1>1. /\ run \in [DUTs -> RunType] /\ run[u] \in RunType
      /\ run[u].pc # "listen" => run[u].bot = "none" /\ run[u].stop = FALSE
      /\ run[u].pc # "listen" => run[u].bot = "none"
  BY DEF TypeOK, RunInv
<1>2. CASE TakeSignal(u)
  BY <1>1, <1>2 DEF TakeSignal, Leave, NoRun
<1>3. CASE NoSignal(u)
  <2>1. u \notin drainSig \cup termSig /\ ~Stopping(u)
    BY <1>1, <1>3 DEF NoSignal
  <2> QED
    BY <2>1
<1>4. CASE StartBot(u)
  <2>1. ~Stopping(u) /\ UNCHANGED signals
    BY <1>1, <1>4 DEF StartBot
  <2> QED
    BY <2>1
<1>5. CASE HearDrain(u)
  <2>1. PICK b \in {Drained(run[u].bot), run[u].bot} :
            run' = [run EXCEPT ![u] = [@ EXCEPT !.stop = TRUE, !.bot = b]]
    BY <1>5 DEF HearDrain
  <2>2. run'[u] = [run[u] EXCEPT !.stop = TRUE, !.bot = b]
    BY <1>1, <2>1
  <2>3. run'[u].stop /\ run'[u].bot = b
    BY <1>1, <2>2 DEF RunType
  <2>4. termSig' = termSig
    BY <1>5 DEF HearDrain
  <2> QED
    BY <2>1, <2>3, <2>4 DEF Drained
<1>6. CASE HearTerminate(u)
  <2>1. run'[u] = [run[u] EXCEPT !.stop = TRUE, !.bot = Terminated(run[u].bot)]
    BY <1>1, <1>6 DEF HearTerminate
  <2>2. run'[u].stop /\ run'[u].bot = Terminated(run[u].bot)
    BY <1>1, <2>1 DEF RunType
  <2> QED
    BY <2>2 DEF Terminated
<1>7. CASE BotGone(u)
  <2>1. CASE run[u].stop
    BY <1>1, <1>7, <2>1 DEF BotGone, Leave, NoRun
  <2>2. CASE ~run[u].stop
    BY <1>1, <1>7, <2>2 DEF BotGone
  <2> QED
    BY <2>1, <2>2
<1>8. CASE Released(u)
  <2>1. run'[u] = [run[u] EXCEPT !.pc = "delete"] /\ run[u].pc = "release"
    BY <1>1, <1>8 DEF Released
  <2>2. run'[u].pc = "delete" /\ run'[u].bot = run[u].bot
    BY <1>1, <2>1 DEF RunType
  <2> QED
    BY <1>1, <2>1, <2>2
<1>9. CASE Delete(u)
  BY <1>9 DEF Delete
<1>10. CASE BotExit(u)
  <2>1. run'[u] = [run[u] EXCEPT !.bot = "exited"] /\ UNCHANGED signals
    BY <1>1, <1>10 DEF BotExit
  <2>2. /\ run'[u].pc = run[u].pc /\ run'[u].stop = run[u].stop
        /\ run'[u].bot = "exited"
    BY <1>1, <2>1 DEF RunType
  <2> QED
    BY <2>1, <2>2
<1> QED
  BY <1>2, <1>3, <1>4, <1>5, <1>6, <1>7, <1>8, <1>9, <1>10 DEF RunStep

(* SignalsReachAll is inductive.                                             *)
LEMMA SignalsStep ==
    ASSUME TypeOK, RunInv, WatchInv, SignalsReachAll, [Next]_vars
    PROVE  SignalsReachAll'
<1> USE DEF signals
<1>1. /\ watch \in [cancel : WatchState, drain : WatchState, exit : WatchState]
      /\ drainSig \subseteq active /\ termSig \subseteq active
      /\ active \subseteq DUTs /\ active' \subseteq DUTs
  <2>1. TypeOK'
    BY StepTypeOK
  <2> QED
    BY <2>1 DEF TypeOK
<1>2. CASE /\ UNCHANGED <<run, active>>
           /\ drainSig \subseteq drainSig' /\ termSig \subseteq termSig'
           /\ watch'.cancel = "done" => watch.cancel = "done"
           /\ watch'.drain = "done" => watch.drain = "done"
  BY <1>2 DEF SignalsReachAll, TermSent, Stopping
<1>3. CASE EnvStep
  BY <1>2, <1>3 DEF EnvStep, Tick, Cancel, Drain, Expire
<1>4. ASSUME NEW u \in DUTs, AddDUT(u)
      PROVE  SignalsReachAll'
  <2>1. CASE Accepts(u)
    <3>1. watch' = watch /\ watch.cancel # "done" /\ watch.drain # "done"
      BY <1>4, <2>1 DEF AddDUT, Accepts, WatchInv
    <3> QED
      BY <3>1 DEF SignalsReachAll
  <2>2. CASE ~Accepts(u)
    BY <1>2, <1>4, <2>2 DEF AddDUT
  <2> QED
    BY <2>1, <2>2
<1>5. CASE Applied \/ Join
  <2>1. /\ UNCHANGED <<run, active, signals>>
        /\ \/ watch' = watch
           \/ watch' = NoWatch
           \/ watch' = [cancel |-> "wait", drain |-> "wait", exit |-> "wait"]
    BY <1>5 DEF Applied, Join
  <2> QED
    BY <1>2, <2>1 DEF NoWatch
<1>6. CASE MainStep /\ ~Applied /\ ~Join /\ \A u \in DUTs : ~AddDUT(u)
  <2>1. UNCHANGED <<run, active, watch>>
    BY <1>6
    DEF MainStep, Answer, Register, ReportOK, UpdateStep, SetExpiration,
        StartAdding, StartTerminating, MainReleased, DrainDUT, TerminateDUT,
        Exit, StartReport, ReportError, ReportUnknown, LoopExit
  <2>2. drainSig \subseteq drainSig' /\ termSig \subseteq termSig'
    BY <1>1, <1>6
    DEF MainStep, Answer, Register, ReportOK, UpdateStep, SetExpiration,
        StartAdding, StartTerminating, MainReleased, DrainDUT, TerminateDUT,
        Exit, StartReport, ReportError, ReportUnknown, LoopExit
  <2> QED
    BY <1>2, <2>1, <2>2
<1>7. CASE CancelBlock \/ DrainBlock \/ ExitWatch
  <2>1. UNCHANGED <<run, active, signals>>
    BY <1>7 DEF CancelBlock, DrainBlock, ExitWatch, ExitBlock, ExitReady
  <2>2. /\ watch'.cancel = "done" => watch.cancel = "done"
        /\ watch'.drain = "done" => watch.drain = "done"
    BY <1>1, <1>7 DEF CancelBlock, DrainBlock, ExitWatch, ExitBlock, ExitReady
  <2> QED
    BY <1>2, <2>1, <2>2
<1>8. CASE WatchSkip("cancel") \/ WatchSkip("drain")
  BY <1>8 DEF WatchSkip, WatchInv, SignalsReachAll
<1>9. CASE TerminateAll
  <2>1. /\ termSig' = active /\ UNCHANGED <<run, active, drainSig>>
        /\ watch'.drain = watch.drain
    BY <1>1, <1>9 DEF TerminateAll
  <2> QED
    BY <1>1, <2>1 DEF SignalsReachAll, TermSent, Stopping
<1>10. CASE DrainAll
  <2>1. /\ drainSig' = active /\ UNCHANGED <<run, active, termSig>>
        /\ watch'.cancel = watch.cancel
    BY <1>1, <1>10 DEF DrainAll
  <2> QED
    BY <1>1, <2>1 DEF SignalsReachAll, TermSent, Stopping
<1>11. ASSUME NEW u \in DUTs, RunStep(u) \/ BotExit(u)
       PROVE  SignalsReachAll'
  <2>1. /\ watch' = watch /\ active' \subseteq active
        /\ \A v \in DUTs \ {u} :
              /\ run'[v] = run[v]
              /\ v \in drainSig' <=> v \in drainSig
              /\ v \in termSig' <=> v \in termSig
    BY <1>11, RunStepIsLocal
  <2>2. u \in active'
          => /\ TermSent(u) => TermSent(u)'
             /\ u \in drainSig \cup termSig \/ Stopping(u)
                  => (u \in drainSig \cup termSig \/ Stopping(u))'
    BY <1>11, SignalKept
  <2>3. ASSUME NEW v \in active', v # u
        PROVE  /\ TermSent(v) => TermSent(v)'
               /\ v \in drainSig \cup termSig \/ Stopping(v)
                    => (v \in drainSig \cup termSig \/ Stopping(v))'
    BY <1>1, <2>1, <2>3 DEF TermSent, Stopping
  <2> QED
    BY <2>1, <2>2, <2>3 DEF SignalsReachAll
<1>12. CASE UNCHANGED vars
  BY <1>2, <1>12 DEF vars
<1> QED
  BY <1>3, <1>4, <1>5, <1>6, <1>7, <1>8, <1>9, <1>10, <1>11, <1>12
  DEF Next, Exited, CancelWatch, DrainWatch

-----------------------------------------------------------------------------
(* Every reachable state of the agent satisfies the inductive invariant.     *)
THEOREM AgentInvariant == Spec => []AgentInv
<1>1. Init => AgentInv
  <2> SUFFICES ASSUME Init
               PROVE  AgentInv
    OBVIOUS
  <2>1. TypeOK
    BY InitTypeOK
  <2>2. RunInv /\ WatchInv /\ ReleaseInv /\ SignalsReachAll
    BY DEF Init, RunInv, WatchInv, ReleaseInv, MainReleases, SignalsReachAll,
           NoRun, NoWatch, IdleMain
  <2> QED
    BY <2>1, <2>2 DEF AgentInv
<1>2. AgentInv /\ [Next]_vars => AgentInv'
  BY StepTypeOK, RunInvStep, WatchInvStep, ReleaseInvStep, SignalsStep
  DEF AgentInv
<1> QED
  BY <1>1, <1>2, PTL DEF Spec

(* Only DUTs the controller knows have channels with a message, and every    *)
(* variable keeps its type.                                                  *)
THEOREM AgentTypeOK == Spec => []TypeOK
<1>1. AgentInv => TypeOK
  BY DEF AgentInv
<1> QED
  BY <1>1, AgentInvariant, PTL

(* A session of the agent ends with no bot and no goroutine left, and none   *)
(* is started after readyToExit is closed.                                   *)
THEOREM SessionEndsCleanThm == Spec => []SessionEndsClean
<1>1. AgentInv => SessionEndsClean
  <2> SUFFICES ASSUME AgentInv, ready \/ main.pc \in {"register", "exited"}
               PROVE  active = {} /\ \A u \in DUTs : run[u] = NoRun
    BY DEF SessionEndsClean
  <2>1. active = {}
    BY DEF AgentInv, WatchInv
  <2>2. ASSUME NEW u \in DUTs
        PROVE  run[u] = NoRun
    <3>1. /\ run[u] \in RunType /\ run[u].pc = "none"
          /\ run[u].stop = FALSE /\ run[u].bot = "none"
      BY <2>1 DEF AgentInv, TypeOK, RunInv
    <3> QED
      BY <3>1 DEF RunType, NoRun
  <2> QED
    BY <2>1, <2>2
<1> QED
  BY <1>1, AgentInvariant, PTL

(* No bot of the agent serves a DUT while the agent releases it.             *)
THEOREM ReleasedDUTHasNoBotThm == Spec => []ReleasedDUTHasNoBot
<1>1. AgentInv => ReleasedDUTHasNoBot
  BY DEF AgentInv, ReleaseInv, ReleasedDUTHasNoBot
<1> QED
  BY <1>1, AgentInvariant, PTL

(* After TerminateAll every bot, and after DrainAll every goroutine, has its *)
(* signal.                                                                   *)
THEOREM SignalsReachAllThm == Spec => []SignalsReachAll
<1>1. AgentInv => SignalsReachAll
  BY DEF AgentInv
<1> QED
  BY <1>1, AgentInvariant, PTL
=============================================================================
