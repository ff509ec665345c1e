----------------------------- MODULE DroneAgent -----------------------------
(* The drone agent (cmd/drone-agent): a process on a drone host that         *)
(* registers with the drone queen, reports to it periodically, and keeps one *)
(* Swarming bot running for every DUT the queen assigns to it.               *)
(*                                                                           *)
(* The agent runs one session after another.  In a session the goroutines    *)
(* are: the report loop (variable main); three watchers that reportLoop      *)
(* starts, for the cancellation of the context, for draining and for the end *)
(* of the session (watch); and one per DUT in the controller (run), with the *)
(* bot process it looks after.  Every critical section of the controller's   *)
(* mutex, every channel operation and every call that blocks is one action.  *)
(* The queen is the environment: it answers what it likes.                   *)
EXTENDS Integers, FiniteSets

CONSTANTS
    DUTs,          \* DUTs the queen may assign
    NoDUT,         \* no DUT
    Duration,      \* how far ahead of the clock a lease may end, in ticks
    GraceInterval, \* state.GraceInterval
    MaxTime        \* bound on the clock

ASSUME AgentAssumption ==
    /\ NoDUT \notin DUTs
    /\ Duration \in Nat
    /\ GraceInterval \in Nat
    /\ MaxTime \in Nat

VARIABLES
    clock,       \* the time
    sigterm,     \* the process got SIGTERM: the agent's context is canceled
    drained,     \* the agent's context is draining
    lease,       \* expiration_time of the last response
    deadline,    \* when the session's expire timer is due
    expired,     \* the expire timer has fired and canceled the session
    fatal,       \* the report loop has canceled the session
    ready,       \* readyToExit is closed
    blocked,     \* Controller.blocked
    active,      \* keys of Controller.duts
    drainSig,    \* DUTs with a message in their drain channel
    termSig,     \* DUTs with a message in their terminate channel
    run,         \* the goroutine of each DUT and its bot
    releasing,   \* DUTs with a ReleaseDuts call in progress
    main,        \* the report loop
    watch        \* the three watchers of reportLoop

env     == <<clock, sigterm, drained>>
timer   == <<lease, deadline, expired>>
signals == <<drainSig, termSig>>
vars    == <<env, timer, fatal, ready, blocked, active, signals, run,
             releasing, main, watch>>

-----------------------------------------------------------------------------
NoRun == [pc |-> "none", stop |-> FALSE, bot |-> "none"]

IdleMain == [pc |-> "register", assign |-> {}, drain |-> {}, todo |-> {},
             dut |-> NoDUT, ret |-> "none"]

NoWatch == [cancel |-> "off", drain |-> "off", exit |-> "off"]

RunType ==
    [pc : {"none", "check", "start", "listen", "release", "delete"},
     stop : BOOLEAN,
     bot : {"none", "running", "draining", "terminating", "exited"}]

MainType ==
    [pc : {"register", "set", "drain", "add", "terminate", "drain-release",
           "terminate-release", "loop", "report", "join", "exited"},
     assign : SUBSET DUTs, drain : SUBSET DUTs, todo : SUBSET DUTs,
     dut : DUTs \cup {NoDUT}, ret : {"none", "nil", "error"}]

WatchState == {"off", "wait", "act", "done"}

TypeOK ==
    /\ clock \in 0 .. MaxTime
    /\ {sigterm, drained, expired, fatal, ready, blocked} \subseteq BOOLEAN
    /\ lease \in 0 .. MaxTime + Duration
    /\ deadline \in Int
    /\ active \subseteq DUTs
    /\ drainSig \subseteq active /\ termSig \subseteq active
    /\ run \in [DUTs -> RunType]
    /\ releasing \subseteq DUTs
    /\ main \in MainType
    /\ watch \in [cancel : WatchState, drain : WatchState, exit : WatchState]

Init ==
    /\ clock = 0 /\ sigterm = FALSE /\ drained = FALSE
    /\ lease = 0 /\ deadline = 0 /\ expired = FALSE
    /\ fatal = FALSE /\ ready = FALSE /\ blocked = FALSE
    /\ active = {} /\ drainSig = {} /\ termSig = {}
    /\ run = [u \in DUTs |-> NoRun]
    /\ releasing = {}
    /\ main = IdleMain
    /\ watch = NoWatch

(* Variant: the watchers look at the agent's context, not the session's.     *)
DoneOuter == sigterm \/ fatal

(* The session's context is done.                                            *)
Done == sigterm \/ expired \/ fatal

-----------------------------------------------------------------------------
(* The environment: time, SIGTERM, the draining file, the expire timer.      *)
Tick ==
    /\ clock < MaxTime
    /\ clock' = clock + 1
    /\ UNCHANGED <<sigterm, drained, timer, fatal, ready, blocked, active,
                   signals, run, releasing, main, watch>>

Cancel ==
    /\ ~sigterm
    /\ sigterm' = TRUE
    /\ UNCHANGED <<clock, drained, timer, fatal, ready, blocked, active,
                   signals, run, releasing, main, watch>>

Drain ==
    /\ ~drained
    /\ drained' = TRUE
    /\ UNCHANGED <<clock, sigterm, timer, fatal, ready, blocked, active,
                   signals, run, releasing, main, watch>>

Expire ==
    /\ main.pc \notin {"register", "exited"}
    /\ ~Done
    /\ deadline <= clock
    /\ expired' = TRUE
    /\ UNCHANGED <<env, lease, deadline, fatal, ready, blocked, active,
                   signals, run, releasing, main, watch>>

-----------------------------------------------------------------------------
(* The report loop.                                                          *)

(* What the queen may answer: DUTs, those of them that drain, an expiration. *)
IsResponse(assign, drain, t) ==
    /\ assign \subseteq DUTs
    /\ drain \subseteq assign
    /\ t \in clock .. clock + Duration

(* Variant: Run only looks for draining.                                     *)
LeavingDrained == drained

Leaving == sigterm \/ drained

(* Run leaves its loop when the agent is canceled or draining.               *)
Exit ==
    /\ main.pc = "register"
    /\ Leaving
    /\ main' = [main EXCEPT !.pc = "exited"]
    /\ UNCHANGED <<env, timer, fatal, ready, blocked, active, signals, run,
                   releasing, watch>>

(* A registration that succeeds: a new session with an expiration context.   *)
(* One that fails is tried again and changes nothing.                        *)
Register(assign, drain, t) ==
    /\ main.pc = "register"
    /\ ~Leaving
    /\ IsResponse(assign, drain, t)
    /\ lease' = t
    /\ deadline' = t - GraceInterval
    /\ main' = [main EXCEPT !.pc = "set", !.assign = assign, !.drain = drain]
    /\ UNCHANGED <<env, expired, fatal, ready, blocked, active, signals, run,
                   releasing, watch>>

(* applyUpdateToState: first the expiration.  Once the timer has fired, or   *)
(* was stopped because the context is done, setting it does nothing.         *)
SetExpiration ==
    /\ main.pc = "set"
    /\ deadline' = IF Done THEN deadline ELSE lease
    /\ main' = [main EXCEPT !.pc = "drain", !.todo = main.drain]
    /\ UNCHANGED <<env, lease, expired, fatal, ready, blocked, active, signals,
                   run, releasing, watch>>

(* ... then DrainDUT for the DUTs that drain; one the controller does not    *)
(* have is released by the report loop itself ...                            *)
DrainDUT(u) ==
    /\ main.pc = "drain"
    /\ u \in main.todo
    /\ IF u \in active
       THEN /\ drainSig' = drainSig \cup {u}
            /\ main' = [main EXCEPT !.todo = @ \ {u}]
            /\ UNCHANGED releasing
       ELSE /\ releasing' = releasing \cup {u}
            /\ main' = [main EXCEPT !.pc = "drain-release", !.dut = u,
                                    !.todo = @ \ {u}]
            /\ UNCHANGED drainSig
    /\ UNCHANGED <<env, timer, fatal, ready, blocked, active, termSig, run,
                   watch>>

StartAdding ==
    /\ main.pc = "drain"
    /\ main.todo = {}
    /\ main' = [main EXCEPT !.pc = "add", !.todo = main.assign \ main.drain]
    /\ UNCHANGED <<env, timer, fatal, ready, blocked, active, signals, run,
                   releasing, watch>>

Accepts(u) == ~blocked /\ u \notin active

(* ... then AddDUT for the others, which starts a goroutine unless the       *)
(* controller is blocked or has one for the DUT already ...                  *)
AddDUT(u) ==
    /\ main.pc = "add"
    /\ u \in main.todo
    /\ IF Accepts(u)
       THEN /\ active' = active \cup {u}
            /\ run' = [run EXCEPT ![u] = [NoRun EXCEPT !.pc = "check"]]
       ELSE UNCHANGED <<active, run>>
    /\ main' = [main EXCEPT !.todo = @ \ {u}]
    /\ UNCHANGED <<env, timer, fatal, ready, blocked, signals, releasing,
                   watch>>

StartTerminating ==
    /\ main.pc = "add"
    /\ main.todo = {}
    /\ main' = [main EXCEPT !.pc = "terminate", !.todo = active \ main.assign]
    /\ UNCHANGED <<env, timer, fatal, ready, blocked, active, signals, run,
                   releasing, watch>>

(* ... then TerminateDUT for the active ones that are no longer assigned.    *)
TerminateDUT(u) ==
    /\ main.pc = "terminate"
    /\ u \in main.todo
    /\ IF u \in active
       THEN /\ termSig' = termSig \cup {u}
            /\ main' = [main EXCEPT !.todo = @ \ {u}]
            /\ UNCHANGED releasing
       ELSE /\ releasing' = releasing \cup {u}
            /\ main' = [main EXCEPT !.pc = "terminate-release", !.dut = u,
                                    !.todo = @ \ {u}]
            /\ UNCHANGED termSig
    /\ UNCHANGED <<env, timer, fatal, ready, blocked, active, drainSig, run,
                   watch>>

(* The report loop's ReleaseDuts call returns or times out.                  *)
MainReleased ==
    /\ main.pc \in {"drain-release", "terminate-release"}
    /\ releasing' = releasing \ {main.dut}
    /\ main' = [main EXCEPT !.pc = IF main.pc = "drain-release" THEN "drain"
                                                           ELSE "terminate",
                            !.dut = NoDUT]
    /\ UNCHANGED <<env, timer, fatal, ready, blocked, active, signals, run,
                   watch>>

(* The update is applied; after the first one reportLoop starts its watchers.*)
Applied ==
    /\ main.pc = "terminate"
    /\ main.todo = {}
    /\ main' = [main EXCEPT !.pc = "loop", !.assign = {}, !.drain = {}]
    /\ watch' = IF watch = NoWatch
                THEN [cancel |-> "wait", drain |-> "wait", exit |-> "wait"]
                ELSE watch
    /\ UNCHANGED <<env, timer, fatal, ready, blocked, active, signals, run,
                   releasing>>

(* The reporting interval is over before readyToExit is closed.              *)
StartReport ==
    /\ main.pc = "loop"
    /\ ~ready
    /\ main' = [main EXCEPT !.pc = "report"]
    /\ UNCHANGED <<env, timer, fatal, ready, blocked, active, signals, run,
                   releasing, watch>>

ReportOK(assign, drain, t) ==
    /\ main.pc = "report"
    /\ IsResponse(assign, drain, t)
    /\ lease' = t
    /\ main' = [main EXCEPT !.pc = "set", !.assign = assign, !.drain = drain]
    /\ UNCHANGED <<env, deadline, expired, fatal, ready, blocked, active,
                   signals, run, releasing, watch>>

ReportError ==
    /\ main.pc = "report"
    /\ main' = [main EXCEPT !.pc = "loop"]
    /\ UNCHANGED <<env, timer, fatal, ready, blocked, active, signals, run,
                   releasing, watch>>

(* UNKNOWN_UUID: TerminateAll, cancel the session, return an error.          *)
ReportUnknown ==
    /\ main.pc = "report"
    /\ termSig' = active
    /\ fatal' = TRUE
    /\ main' = [main EXCEPT !.pc = "join", !.ret = "error"]
    /\ UNCHANGED <<env, timer, ready, blocked, active, drainSig, run,
                   releasing, watch>>

LoopExit ==
    /\ main.pc = "loop"
    /\ ready
    /\ main' = [main EXCEPT !.pc = "join", !.ret = "nil"]
    /\ UNCHANGED <<env, timer, fatal, ready, blocked, active, signals, run,
                   releasing, watch>>

(* reportLoop returns when its watchers have; runOnce returns with it.       *)
Join ==
    /\ main.pc = "join"
    /\ \A w \in DOMAIN watch : watch[w] = "done"
    /\ main' = IdleMain
    /\ watch' = NoWatch
    /\ lease' = 0 /\ deadline' = 0 /\ expired' = FALSE
    /\ fatal' = FALSE /\ ready' = FALSE /\ blocked' = FALSE
    /\ UNCHANGED <<env, active, signals, run, releasing>>

-----------------------------------------------------------------------------
(* The watchers of reportLoop.                                               *)

(* Context done: BlockDUTs, then TerminateAll.                               *)
CancelBlock ==
    /\ watch.cancel = "wait"
    /\ Done
    /\ blocked' = TRUE
    /\ watch' = [watch EXCEPT !.cancel = "act"]
    /\ UNCHANGED <<env, timer, fatal, ready, active, signals, run, releasing,
                   main>>

TerminateAll ==
    /\ watch.cancel = "act"
    /\ termSig' = active
    /\ watch' = [watch EXCEPT !.cancel = "done"]
    /\ UNCHANGED <<env, timer, fatal, ready, blocked, active, drainSig, run,
                   releasing, main>>

(* Draining: BlockDUTs, then DrainAll.                                       *)
DrainBlock ==
    /\ watch.drain = "wait"
    /\ drained
    /\ blocked' = TRUE
    /\ watch' = [watch EXCEPT !.drain = "act"]
    /\ UNCHANGED <<env, timer, fatal, ready, active, signals, run, releasing,
                   main>>

(* Variant: only DUTs whose bot is up are drained.                           *)
DrainRunning ==
    /\ watch.drain = "act"
    /\ drainSig' = drainSig \cup {u \in active : run[u].pc = "listen"}
    /\ watch' = [watch EXCEPT !.drain = "done"]
    /\ UNCHANGED <<env, timer, fatal, ready, blocked, active, termSig, run,
                   releasing, main>>

DrainAll ==
    /\ watch.drain = "act"
    /\ drainSig' = active
    /\ watch' = [watch EXCEPT !.drain = "done"]
    /\ UNCHANGED <<env, timer, fatal, ready, blocked, active, termSig, run,
                   releasing, main>>

(* Both watchers give up when readyToExit is closed.                         *)
WatchSkip(w) ==
    /\ w \in {"cancel", "drain"}
    /\ watch[w] = "wait"
    /\ ready
    /\ watch' = [watch EXCEPT ![w] = "done"]
    /\ UNCHANGED <<env, timer, fatal, ready, blocked, active, signals, run,
                   releasing, main>>

(* Variant: the session ends with its context only.                          *)
EndingDone == Done

Ending == drained \/ Done

(* Variant: Wait without BlockDUTs.                                          *)
ExitNoBlock ==
    /\ watch.exit = "wait"
    /\ Ending
    /\ watch' = [watch EXCEPT !.exit = "act"]
    /\ UNCHANGED <<env, timer, fatal, ready, blocked, active, signals, run,
                   releasing, main>>

(* Draining or done: BlockDUTs, then Wait for every DUT's goroutine, then    *)
(* close readyToExit.                                                        *)
ExitBlock ==
    /\ watch.exit = "wait"
    /\ Ending
    /\ blocked' = TRUE
    /\ watch' = [watch EXCEPT !.exit = "act"]
    /\ UNCHANGED <<env, timer, fatal, ready, active, signals, run, releasing,
                   main>>

ExitReady ==
    /\ watch.exit = "act"
    /\ \A u \in DUTs : run[u].pc = "none"
    /\ ready' = TRUE
    /\ watch' = [watch EXCEPT !.exit = "done"]
    /\ UNCHANGED <<env, timer, fatal, blocked, active, signals, run, releasing,
                   main>>

-----------------------------------------------------------------------------
(* The goroutine of a DUT: runBotForDUT, its deferred ReleaseDUT, and the    *)
(* removal of the DUT from the controller.                                   *)

(* runBotForDUT returns, and ReleaseDUT is called.                           *)
Leave(u) ==
    /\ run' = [run EXCEPT ![u] = [NoRun EXCEPT !.pc = "release"]]
    /\ releasing' = releasing \cup {u}

(* Before a bot is started a pending signal is received, if there is one.    *)
TakeSignal(u) ==
    /\ run[u].pc = "check"
    /\ \/ /\ u \in drainSig
          /\ drainSig' = drainSig \ {u}
          /\ UNCHANGED termSig
       \/ /\ u \in termSig
          /\ termSig' = termSig \ {u}
          /\ UNCHANGED drainSig
    /\ Leave(u)
    /\ UNCHANGED <<env, timer, fatal, ready, blocked, active, main, watch>>

NoSignal(u) ==
    /\ run[u].pc = "check"
    /\ u \notin drainSig \cup termSig
    /\ run' = [run EXCEPT ![u].pc = "start"]
    /\ UNCHANGED <<env, timer, fatal, ready, blocked, active, signals,
                   releasing, main, watch>>

(* StartBot, which can fail: then the signals are looked at again.           *)
StartBot(u) ==
    /\ run[u].pc = "start"
    /\ \/ run' = [run EXCEPT ![u] = [@ EXCEPT !.pc = "listen", !.stop = FALSE,
                                              !.bot = "running"]]
       \/ run' = [run EXCEPT ![u].pc = "check"]
    /\ UNCHANGED <<env, timer, fatal, ready, blocked, active, signals,
                   releasing, main, watch>>

(* While the bot is up, a drain message makes the drain file; an error is    *)
(* ignored, and the bot then never hears of it.                              *)
Drained(bot) == IF bot = "running" THEN "draining" ELSE bot

HearDrain(u) ==
    /\ run[u].pc = "listen"
    /\ u \in drainSig
    /\ drainSig' = drainSig \ {u}
    /\ \E bot \in {Drained(run[u].bot), run[u].bot} :
          run' = [run EXCEPT ![u] = [@ EXCEPT !.stop = TRUE, !.bot = bot]]
    /\ UNCHANGED <<env, timer, fatal, ready, blocked, active, termSig,
                   releasing, main, watch>>

Terminated(bot) == IF bot = "exited" THEN bot ELSE "terminating"

(* Variant: the bot is terminated, but started again.                        *)
HearTerminateOnce(u) ==
    /\ run[u].pc = "listen"
    /\ u \in termSig
    /\ termSig' = termSig \ {u}
    /\ run' = [run EXCEPT ![u].bot = Terminated(run[u].bot)]
    /\ UNCHANGED <<env, timer, fatal, ready, blocked, active, drainSig,
                   releasing, main, watch>>

(* A terminate message sends SIGTERM, which fails only if the bot is gone.   *)
HearTerminate(u) ==
    /\ run[u].pc = "listen"
    /\ u \in termSig
    /\ termSig' = termSig \ {u}
    /\ run' = [run EXCEPT ![u] = [@ EXCEPT !.stop = TRUE,
                                           !.bot = Terminated(run[u].bot)]]
    /\ UNCHANGED <<env, timer, fatal, ready, blocked, active, drainSig,
                   releasing, main, watch>>

(* The bot process exits: told to, by itself, or by a crash.                 *)
BotExit(u) ==
    /\ run[u].bot \in {"running", "draining", "terminating"}
    /\ run' = [run EXCEPT ![u].bot = "exited"]
    /\ UNCHANGED <<env, timer, fatal, ready, blocked, active, signals,
                   releasing, main, watch>>

(* Variant: the DUT is removed from the controller before it is released.    *)
BotGoneForgotten(u) ==
    /\ run[u].pc = "listen"
    /\ run[u].bot = "exited"
    /\ IF run[u].stop
       THEN Leave(u) /\ active' = active \ {u}
       ELSE /\ run' = [run EXCEPT ![u] = [NoRun EXCEPT !.pc = "check"]]
            /\ UNCHANGED <<releasing, active>>
    /\ drainSig' = drainSig \cap active'
    /\ termSig' = termSig \cap active'
    /\ UNCHANGED <<env, timer, fatal, ready, blocked, main, watch>>

(* The bot has been waited for; another one is started unless it was told.   *)
BotGone(u) ==
    /\ run[u].pc = "listen"
    /\ run[u].bot = "exited"
    /\ IF run[u].stop
       THEN Leave(u)
       ELSE /\ run' = [run EXCEPT ![u] = [NoRun EXCEPT !.pc = "check"]]
            /\ UNCHANGED releasing
    /\ UNCHANGED <<env, timer, fatal, ready, blocked, active, signals, main,
                   watch>>

(* The ReleaseDuts call returns or times out.                                *)
Released(u) ==
    /\ run[u].pc = "release"
    /\ releasing' = releasing \ {u}
    /\ run' = [run EXCEPT ![u].pc = "delete"]
    /\ UNCHANGED <<env, timer, fatal, ready, blocked, active, signals, main,
                   watch>>

(* Variant: the channels are not dropped with the DUT.                       *)
DeleteKeepsSignals(u) ==
    /\ run[u].pc = "delete"
    /\ active' = active \ {u}
    /\ run' = [run EXCEPT ![u] = NoRun]
    /\ UNCHANGED <<env, timer, fatal, ready, blocked, signals, releasing, main,
                   watch>>

(* The controller forgets the DUT, and its channels with it.                 *)
Delete(u) ==
    /\ run[u].pc = "delete"
    /\ active' = active \ {u}
    /\ drainSig' = drainSig \ {u}
    /\ termSig' = termSig \ {u}
    /\ run' = [run EXCEPT ![u] = NoRun]
    /\ UNCHANGED <<env, timer, fatal, ready, blocked, releasing, main, watch>>

-----------------------------------------------------------------------------
EnvStep == Tick \/ Cancel \/ Drain \/ Expire

UpdateStep ==
    \/ SetExpiration \/ StartAdding \/ StartTerminating \/ MainReleased
    \/ Applied
    \/ \E u \in DUTs : DrainDUT(u) \/ AddDUT(u) \/ TerminateDUT(u)

Answer ==
    \E assign \in SUBSET DUTs, t \in 0 .. MaxTime + Duration :
        \E drain \in SUBSET assign :
            Register(assign, drain, t) \/ ReportOK(assign, drain, t)

MainStep ==
    \/ Answer \/ UpdateStep
    \/ Exit \/ StartReport \/ ReportError \/ ReportUnknown \/ LoopExit \/ Join

CancelWatch == CancelBlock \/ TerminateAll \/ WatchSkip("cancel")
DrainWatch  == DrainBlock \/ DrainAll \/ WatchSkip("drain")
ExitWatch   == ExitBlock \/ ExitReady

RunStep(u) ==
    \/ TakeSignal(u) \/ NoSignal(u) \/ StartBot(u)
    \/ HearDrain(u) \/ HearTerminate(u)
    \/ BotGone(u) \/ Released(u) \/ Delete(u)

(* The agent has exited: nothing happens any more.                           *)
Exited == main.pc = "exited" /\ UNCHANGED vars

Next ==
    \/ EnvStep
    \/ MainStep
    \/ CancelWatch \/ DrainWatch \/ ExitWatch
    \/ \E u \in DUTs : RunStep(u) \/ BotExit(u)
    \/ Exited

Spec == Init /\ [][Next]_vars

(* The scheduler runs every goroutine that can run, a select does not pass   *)
(* over a ready case for ever (Go picks among the ready ones at random),     *)
(* timers fire, RPCs return, and a bot that was told to stop exits.  Bots    *)
(* may run and crash as they like, the queen answers what it likes, and      *)
(* nobody need ever cancel or drain.                                         *)
ToldBotExit(u) == run[u].bot \in {"draining", "terminating"} /\ BotExit(u)

FairRun(u) ==
    /\ WF_vars(RunStep(u))
    /\ WF_vars(HearDrain(u)) /\ WF_vars(HearTerminate(u)) /\ WF_vars(BotGone(u))
    /\ WF_vars(ToldBotExit(u))

FairSpec ==
    /\ Spec
    /\ WF_vars(MainStep)
    /\ WF_vars(Expire)
    /\ WF_vars(CancelWatch) /\ WF_vars(DrainWatch) /\ WF_vars(ExitWatch)
    /\ \A u \in DUTs : FairRun(u)

-----------------------------------------------------------------------------
(* Safety.                                                                   *)

(* The agent leaves a session, and closes readyToExit, only when no bot and  *)
(* no goroutine of the session is left; none is started afterwards, although *)
(* the report loop may be in the middle of an update.                        *)
SessionEndsClean ==
    (ready \/ main.pc \in {"register", "exited"})
        => /\ active = {}
           /\ \A u \in DUTs : run[u] = NoRun

(* "ReleaseDUT is called to release the DUT for a bot process that has       *)
(* finished" (controller.go): while a release of a DUT is in progress, by    *)
(* its goroutine or by the report loop, no bot of the agent serves the DUT   *)
(* and none is about to be started.                                          *)
ReleasedDUTHasNoBot == \A u \in releasing : run[u].pc \in {"none", "release"}

(* A DUT's goroutine has been told to stop, or is stopping by itself.        *)
Stopping(u) == run[u].stop \/ run[u].pc \in {"release", "delete"}

TermSent(u) == u \in termSig \/ (Stopping(u) /\ run[u].bot # "running"
                                             /\ run[u].bot # "draining")

(* Once the context watcher has run TerminateAll no bot survives for want of *)
(* a signal, and once the drain watcher has run DrainAll no bot goes on for  *)
(* want of one: no DUT was added behind their back, and a signal that met a  *)
(* goroutine about to start a bot is not lost.                               *)
SignalsReachAll ==
    /\ watch.cancel = "done" => \A u \in active : TermSent(u)
    /\ watch.drain = "done"
         => \A u \in active : u \in drainSig \cup termSig \/ Stopping(u)

-----------------------------------------------------------------------------
(* Liveness.                                                                 *)

SessionOver == main.pc \in {"register", "exited"}

(* A session that is canceled, by SIGTERM, by its expiration or by the       *)
(* queen, comes to its end: the loop, the watchers and the DUT goroutines do *)
(* not wait for one another for ever.                                        *)
CanceledSessionEnds == Done ~> SessionOver

(* An agent that got SIGTERM exits.                                          *)
CanceledAgentExits == sigterm ~> (main.pc = "exited")

(* An agent that hears nothing from the queen does not outlive its lease: it *)
(* ends the session, and with it every bot of the session.                   *)
LeaseGivenUp ==
    (~SessionOver /\ lease <= clock) ~> (SessionOver \/ clock < lease)

(* A bot whose drain file could not be made.                                 *)
DrainLost(u) == run[u].stop /\ run[u].bot = "running"

(* A draining agent exits, unless for some DUT Drain fails: DrainAll does    *)
(* not try again.                                                            *)
DrainedAgentExits ==
    drained ~> (main.pc = "exited" \/ \E u \in DUTs : DrainLost(u))

=============================================================================
