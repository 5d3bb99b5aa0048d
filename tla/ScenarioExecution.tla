-------------------------- MODULE ScenarioExecution --------------------------
(***************************************************************************)
(* Scenario runs: the editor's play session                                *)
(* (UEShedEditorPlaySessionLibrary.cpp), the one run it executes in it     *)
(* (UEShedScenarioExecution.cpp), and the clients that start, poll and     *)
(* cancel runs (scenario-runner.ts; the CLI and Workbench call it).        *)
(*                                                                         *)
(* Every handler runs on the game thread, so a request is one step; other  *)
(* clients, the person at the editor and the engine act between any two    *)
(* requests of a client.  Whether the map, the fixture and Slate suit a    *)
(* scenario is left open: Prepare and Start may refuse at any time.        *)
(***************************************************************************)
EXTENDS Naturals, FiniteSets

CONSTANTS
    Clients,      \* commands of the CLI, run consoles of Workbench
    RunIds,       \* GUIDs of runs
    SessionIds,   \* GUIDs of play sessions
    NoId,
    WaitAt,       \* scenario time at which the run waits for landing_ready
    WaitTimeout,  \* game time it waits at most
    Duration,     \* scenario time at which it is complete
    MaxEvents,    \* bound: what the person does by hand, worlds replaced, editor restarts
    MaxFaults     \* bound: answers lost, requests that run late, isolation not removed

ASSUME IdsAssumption == NoId \notin RunIds \cup SessionIds
ASSUME ScheduleAssumption ==
    WaitAt \in Nat /\ Duration \in Nat /\ WaitAt <= Duration /\ WaitTimeout \in Nat
ASSUME BudgetAssumption == MaxEvents \in Nat /\ MaxFaults \in Nat

VARIABLES
    play,           \* GEditor: [state, simulate, ending], ending once RequestEndPlayMap was called
    session,        \* ActiveSessionId
    stopRequested,  \* StopRequested
    inherited,      \* history: ActiveSessionId was given to an earlier PIE than the present one
    run,            \* Run, the last one; here: its world still exists; ready: landing_ready in it;
                    \* own (history): it is in the PIE its client was told of
    blocked,        \* runs whose input preprocessor is registered with Slate
    stuck,          \* history: runs whose preprocessor could not be removed
    client,         \* [Clients -> [pc, session, pie, run]]; pie (history): the PIE it was told
                    \* of has not ended
    late,           \* [session, pie] of Start requests that nobody waits for any more
    events, faults

pieVars == <<play, session, stopRequested, inherited>>
runVars == <<run, blocked, stuck>>
vars == <<pieVars, runVars, client, late, events, faults>>

Stopped == [state |-> "stopped", simulate |-> FALSE, ending |-> FALSE]
NoRun == [id |-> NoId, session |-> NoId, own |-> FALSE, here |-> FALSE, state |-> "terminal",
          time |-> 0, waited |-> 0, landed |-> FALSE, ready |-> FALSE]
Idle == [pc |-> "idle", session |-> NoId, pie |-> FALSE, run |-> NoId]

RunActive == run.state # "terminal"
InWorld == play.state \in {"playing", "paused"}

FreshRun == RunIds \ ({run.id} \cup blocked \cup {client[c].run : c \in Clients})
FreshSession == SessionIds \ ({session, run.session} \cup {t.session : t \in late}
                               \cup {client[c].session : c \in Clients})

-----------------------------------------------------------------------------
(* The play session                                                        *)

Status ==
    IF play.state = "stopped" THEN "stopped"
    ELSE IF stopRequested THEN "stopping"
    ELSE CASE play.state = "queued"  -> "starting"
           [] play.state = "paused"  -> "paused"
           [] play.state = "playing" -> "running"

(* NewSessionId                                                            *)
Name == FreshSession # {} /\ session' = CHOOSE s \in FreshSession : TRUE

(* Whoever asks for the state of the session also brings it up to date.    *)
Snapshot ==
    /\ stopRequested' = (stopRequested /\ play.state # "stopped")
    /\ \/ play.state = "stopped" /\ session' = NoId
       \/ play.state # "stopped" /\ session # NoId /\ session' = session
       \/ play.state # "stopped" /\ session = NoId /\ Name
    /\ inherited' = (inherited /\ session' = session)

(* StartPlaySession.  BeginQueued decides whether a queued session begins. *)
StartPlay(answer) ==
    /\ \/ /\ Status = "stopped"
          /\ stopRequested' = FALSE /\ inherited' = FALSE
          /\ \/ /\ answer = "accepted"
                /\ Name
                /\ play' = [Stopped EXCEPT !.state = "queued"]
             \/ answer = "rejected" /\ session' = NoId /\ play' = play
       \/ /\ Status # "stopped"
          /\ answer = IF Status # "stopping" /\ ~play.simulate THEN "accepted" ELSE "rejected"
          /\ Snapshot
          /\ play' = play
    /\ UNCHANGED runVars

ResumePlay(answer) ==
    /\ \/ answer = "accepted" /\ Status = "running" /\ play' = play
       \/ answer = "accepted" /\ Status = "paused" /\ play' = [play EXCEPT !.state = "playing"]
       \/ answer = "rejected" /\ Status # "running" /\ play' = play
    /\ Snapshot
    /\ UNCHANGED runVars

-----------------------------------------------------------------------------
(* The run                                                                 *)

(* Finish, with RestoreIsolation.  Of a run that is over only the id is    *)
(* looked at again.                                                        *)
Finish ==
    /\ run' = [NoRun EXCEPT !.id = run.id]
    /\ \/ blocked' = blocked \ {run.id} /\ UNCHANGED <<stuck, faults>>
       \/ /\ faults < MaxFaults
          /\ faults' = faults + 1
          /\ stuck' = stuck \cup {run.id}
          /\ UNCHANGED blocked

(* The run goes on until the next frame, however long that is.  Game time  *)
(* stands still while PIE is paused; scenario time while the run waits.    *)
Continue(r) ==
    /\ \/ play.state = "paused" /\ run' = r
       \/ /\ play.state = "playing" /\ r.state = "waiting"
          /\ \E w \in 0..(WaitTimeout + 1) :
                /\ w > r.waited \/ w = WaitTimeout + 1
                /\ run' = [r EXCEPT !.waited = w]
       \/ /\ play.state = "playing" /\ r.state = "running"
          /\ \E t \in 0..Duration :
                /\ t > r.time \/ t = Duration
                /\ run' = [r EXCEPT !.time = t]
    /\ UNCHANGED <<blocked, stuck, faults>>

Accept(s, own) ==
    /\ FreshRun # {}
    /\ LET id == CHOOSE i \in FreshRun : TRUE
       IN  /\ run' = [NoRun EXCEPT !.id = id, !.session = s, !.own = own, !.here = TRUE,
                                   !.state = "running"]
           /\ blocked' = blocked \cup {id}
    /\ UNCHANGED stuck

(* Mutant of Start: nothing refuses a second run.                          *)
StartBesideActive(s, own, answer) ==
    /\ \/ /\ answer = "rejected"
          /\ \/ InWorld /\ ~play.simulate /\ Snapshot
             \/ UNCHANGED <<session, stopRequested, inherited>>
          /\ UNCHANGED runVars
       \/ /\ answer = "accepted"
          /\ InWorld /\ ~play.simulate
          /\ Status # "stopping" /\ Snapshot /\ session' = s
          /\ Accept(s, own)
    /\ UNCHANGED <<play, faults>>

(* StartScenarioRun for a play session the client was told of              *)
Start(s, own, answer) ==
    /\ \/ /\ answer = "rejected"
          /\ \/ ~RunActive /\ InWorld /\ ~play.simulate /\ Snapshot
             \/ UNCHANGED <<session, stopRequested, inherited>>
          /\ UNCHANGED runVars
       \/ /\ answer = "accepted"
          /\ ~RunActive
          /\ InWorld /\ ~play.simulate
          /\ Status # "stopping" /\ Snapshot /\ session' = s
          /\ Accept(s, own)
    /\ UNCHANGED <<play, faults>>

(* GetScenarioRunStatus                                                    *)
RunStatus(id) ==
    IF run.id # id THEN "run_not_found" ELSE IF RunActive THEN "active" ELSE "terminal"

(* Mutant of Cancel: the next tick is left to finish the run.              *)
CancelAtNextTick(id, answer) ==
    \/ answer = "rejected" /\ run.id # id /\ UNCHANGED <<runVars, faults>>
    \/ /\ answer = "accepted"
       /\ run.id = id
       /\ UNCHANGED <<runVars, faults>>

(* CancelScenarioRun                                                       *)
Cancel(id, answer) ==
    \/ answer = "rejected" /\ run.id # id /\ UNCHANGED <<runVars, faults>>
    \/ /\ answer = "accepted"
       /\ run.id = id
       /\ \/ RunActive /\ Finish
          \/ ~RunActive /\ UNCHANGED <<runVars, faults>>

(* Mutant of Wait: it has no timeout.                                      *)
WaitForEver ==
    \/ run.ready /\ Continue([run EXCEPT !.state = "running", !.landed = TRUE, !.waited = 0])
    \/ ~run.ready /\ Continue(run)

Wait ==
    \/ run.ready /\ Continue([run EXCEPT !.state = "running", !.landed = TRUE, !.waited = 0])
    \/ ~run.ready /\ run.waited > WaitTimeout /\ Finish
    \/ ~run.ready /\ run.waited <= WaitTimeout /\ Continue(run)

(* The step of a run that is in its session                                *)
Advance ==
    \/ run.state = "waiting" /\ Wait
    \/ /\ run.state = "running"
       /\ ~run.landed /\ run.time >= WaitAt /\ ~run.ready
       /\ Continue([run EXCEPT !.state = "waiting"])
    \/ /\ run.state = "running"
       /\ (run.landed \/ run.time < WaitAt \/ run.ready)
       /\ \/ Finish    \* Duration is over, or the player's input subsystem is gone
          \/ /\ run.time < Duration
             /\ Continue([run EXCEPT !.landed = run.landed \/ run.time >= WaitAt])

(* OnWorldTickStart of the world the run belongs to                        *)
Tick ==
    /\ RunActive /\ run.here
    /\ InWorld
    /\ Snapshot
    /\ IF Status = "stopping" \/ session' # run.session THEN Finish ELSE Advance
    /\ UNCHANGED <<play, client, late, events>>

-----------------------------------------------------------------------------
(* The engine and the person at the editor                                 *)

BeginQueued ==
    /\ play.state = "queued"
    /\ play' \in {[play EXCEPT !.state = "playing"], Stopped}
    /\ UNCHANGED <<session, stopRequested, inherited, runVars, client, late, events, faults>>

(* Whoever was told of a PIE was told of one that is no more.              *)
PieIsGone ==
    /\ client' = [c \in Clients |-> [client[c] EXCEPT !.pie = FALSE]]
    /\ late' = {[t EXCEPT !.pie = FALSE] : t \in late}

(* Mutant of EndPie: the run is left to notice by itself.                  *)
EndPieUnnoticed ==
    /\ InWorld /\ play.ending
    /\ play' = Stopped
    /\ run' = [run EXCEPT !.here = FALSE]
    /\ PieIsGone
    /\ UNCHANGED <<session, stopRequested, inherited, blocked, stuck, events, faults>>

(* Mutant of EndPie: the request to end it stays.                          *)
EndPieOnceMore ==
    /\ InWorld /\ play.ending
    /\ play' = [Stopped EXCEPT !.ending = TRUE]
    /\ \/ RunActive /\ Finish
       \/ ~RunActive /\ UNCHANGED <<runVars, faults>>
    /\ PieIsGone
    /\ UNCHANGED <<session, stopRequested, inherited, events>>

(* EndPlayMap, with OnEndPie                                               *)
EndPie ==
    /\ InWorld /\ play.ending
    /\ play' = Stopped
    /\ \/ RunActive /\ Finish
       \/ ~RunActive /\ UNCHANGED <<runVars, faults>>
    /\ PieIsGone
    /\ UNCHANGED <<session, stopRequested, inherited, events>>

Event == events < MaxEvents /\ events' = events + 1

(* Play and Simulate in the editor's toolbar, which name no session: the   *)
(* id of the last one stays if nobody asked for its state since.           *)
PlayByHand ==
    /\ Event
    /\ play.state = "stopped"
    /\ \E simulate \in BOOLEAN :
          play' = [Stopped EXCEPT !.state = "queued", !.simulate = simulate]
    /\ inherited' = (session # NoId)
    /\ UNCHANGED <<session, stopRequested, runVars, client, late, faults>>

(* Pause, Resume, Stop, and Eject or Possess, which toggle Simulate in the *)
(* middle of a session: the run goes on, Tick does not look at the mode.   *)
ByHand ==
    /\ Event
    /\ \/ play.state = "queued" /\ play' = Stopped
       \/ play.state = "playing" /\ play' = [play EXCEPT !.state = "paused"]
       \/ play.state = "paused" /\ play' = [play EXCEPT !.state = "playing"]
       \/ InWorld /\ ~play.ending /\ play' = [play EXCEPT !.simulate = ~@]
       \/ InWorld /\ ~play.ending /\ play' = [play EXCEPT !.ending = TRUE]
    /\ UNCHANGED <<session, stopRequested, inherited, runVars, client, late, faults>>

(* StopPlaySession, by another command.  The engine may or may not keep    *)
(* the request to end a session that has not begun.                        *)
StopPlay ==
    /\ Event
    /\ Status \notin {"stopped", "stopping"}
    /\ stopRequested' = TRUE
    /\ \/ session # NoId /\ session' = session
       \/ session = NoId /\ Name
    /\ inherited' = (inherited /\ session' = session)
    /\ \/ play' = [play EXCEPT !.ending = TRUE]
       \/ play.state = "queued" /\ play' = play
    /\ UNCHANGED <<runVars, client, late, faults>>

(* The pawn takes off or lands.                                            *)
Jump ==
    /\ RunActive /\ run.here
    /\ run' = [run EXCEPT !.ready = ~@]
    /\ UNCHANGED <<pieVars, blocked, stuck, client, late, events, faults>>

(* The game opens another level inside the session.                        *)
ReplaceWorld ==
    /\ Event
    /\ InWorld
    /\ run.here
    /\ run' = [run EXCEPT !.here = FALSE]
    /\ UNCHANGED <<pieVars, blocked, stuck, client, late, faults>>

RestartEditor ==
    /\ Event
    /\ play' = Stopped /\ session' = NoId /\ stopRequested' = FALSE /\ inherited' = FALSE
    /\ run' = NoRun /\ blocked' = {} /\ stuck' = {}
    /\ client' = [c \in Clients |-> [client[c] EXCEPT !.pie = FALSE]]
    /\ late' = {}
    /\ UNCHANGED faults

-----------------------------------------------------------------------------
(* The clients                                                             *)

Go(c, pc) == client' = [client EXCEPT ![c].pc = pc]
GiveUp(c) == client' = [client EXCEPT ![c] = Idle]

(* negotiate, and PrepareScenarioWorld, which may open the map             *)
Prepare(c) ==
    /\ client[c].pc = "idle"
    /\ Go(c, "look")
    /\ UNCHANGED <<pieVars, runVars, late, events, faults>>

(* runningPieSessionId: what to do about the state of the session          *)
Look(c) ==
    /\ client[c].pc = "look"
    /\ Snapshot
    /\ Go(c, CASE Status = "stopped" -> "begin"
               [] Status = "paused" -> "resume"
               [] OTHER -> "await")
    /\ UNCHANGED <<play, runVars, late, events, faults>>

BeginOrResume(c) ==
    /\ \E answer \in {"accepted", "rejected"} :
          /\ \/ client[c].pc = "begin" /\ StartPlay(answer)
             \/ client[c].pc = "resume" /\ ResumePlay(answer)
          /\ IF answer = "accepted" THEN Go(c, "await") ELSE GiveUp(c)
    /\ UNCHANGED <<late, events, faults>>

(* readRunning, until the session runs                                     *)
Await(c) ==
    /\ client[c].pc = "await"
    /\ Snapshot
    /\ \/ /\ Status = "running" /\ ~play.simulate
          /\ client' = [client EXCEPT ![c].pc = "start", ![c].session = session', ![c].pie = TRUE]
       \/ Status # "stopped" /\ play.simulate /\ GiveUp(c)
       \/ Status # "running" /\ ~play.simulate /\ UNCHANGED client
    /\ UNCHANGED <<play, runVars, late, events, faults>>

StartRun(c) ==
    /\ client[c].pc = "start"
    /\ \E answer \in {"accepted", "rejected"} :
          /\ Start(client[c].session, client[c].pie, answer)
          /\ IF answer = "accepted"
             THEN client' = [client EXCEPT ![c] = [Idle EXCEPT !.pc = "poll", !.run = run'.id]]
             ELSE GiveUp(c)
    /\ UNCHANGED <<late, events>>

Poll(c) ==
    /\ client[c].pc = "poll"
    /\ IF RunStatus(client[c].run) = "active" THEN UNCHANGED client ELSE GiveUp(c)
    /\ UNCHANGED <<pieVars, runVars, late, events, faults>>

(* run() is interrupted, or scenario:cancel is called, which then asks for *)
(* the result.                                                             *)
CancelRun(c) ==
    /\ client[c].pc = "poll"
    /\ \E answer \in {"accepted", "rejected"} :
          /\ Cancel(client[c].run, answer)
          /\ GiveUp(c) \/ (answer = "accepted" /\ Go(c, "confirm"))
    /\ UNCHANGED <<pieVars, late, events>>

Confirm(c) ==
    /\ client[c].pc = "confirm"
    /\ IF RunStatus(client[c].run) = "active" THEN Go(c, "died") ELSE GiveUp(c)
    /\ UNCHANGED <<pieVars, runVars, late, events, faults>>

(* A deadline, a failed call, or an interrupt before there is a handle     *)
Leave(c) ==
    /\ client[c].pc \notin {"idle", "died"}
    /\ GiveUp(c)
    /\ UNCHANGED <<pieVars, runVars, late, events, faults>>

Fault == faults < MaxFaults /\ faults' = faults + 1

(* The client gives up a Start that the editor runs all the same, at once  *)
(* (its answer is lost) or whenever it gets to it.                         *)
LeaveStart(c) ==
    /\ Fault
    /\ client[c].pc = "start"
    /\ late' = late \cup {[session |-> client[c].session, pie |-> client[c].pie]}
    /\ GiveUp(c)
    /\ UNCHANGED <<pieVars, runVars, events>>

StartLate(t) ==
    /\ \E answer \in {"accepted", "rejected"} : Start(t.session, t.pie, answer)
    /\ late' = late \ {t}
    /\ UNCHANGED <<client, events>>

-----------------------------------------------------------------------------
Init ==
    /\ play = Stopped /\ session = NoId /\ stopRequested = FALSE /\ inherited = FALSE
    /\ run = NoRun /\ blocked = {} /\ stuck = {}
    /\ client = [c \in Clients |-> Idle]
    /\ late = {}
    /\ events = 0 /\ faults = 0

Next ==
    \/ Tick \/ BeginQueued \/ EndPie
    \/ Jump \/ PlayByHand \/ ByHand \/ StopPlay \/ ReplaceWorld \/ RestartEditor
    \/ \E c \in Clients :
          \/ Prepare(c) \/ Look(c) \/ BeginOrResume(c) \/ Await(c)
          \/ StartRun(c) \/ Poll(c) \/ CancelRun(c) \/ Confirm(c)
          \/ Leave(c) \/ LeaveStart(c)
    \/ \E t \in late : StartLate(t)

Spec == Init /\ [][Next]_vars

(* The editor ticks its worlds and does what is queued.                    *)
FairSpec == Spec /\ WF_vars(Tick) /\ WF_vars(BeginQueued) /\ WF_vars(EndPie)

-----------------------------------------------------------------------------
(* Properties                                                              *)

Play == [state : {"stopped", "queued", "playing", "paused"}, simulate : BOOLEAN, ending : BOOLEAN]
Run == [id : RunIds \cup {NoId}, session : SessionIds \cup {NoId}, own : BOOLEAN, here : BOOLEAN,
        state : {"running", "waiting", "terminal"},
        time : 0..Duration, waited : 0..(WaitTimeout + 1), landed : BOOLEAN, ready : BOOLEAN]
Client == [pc : {"idle", "look", "begin", "resume", "await", "start", "poll", "confirm", "died"},
           session : SessionIds \cup {NoId}, pie : BOOLEAN, run : RunIds \cup {NoId}]
Told == [session : SessionIds, pie : BOOLEAN]

PlayTypeOK ==
    /\ play \in Play /\ (play.state = "stopped" => play = Stopped)
    /\ session \in SessionIds \cup {NoId} /\ stopRequested \in BOOLEAN /\ inherited \in BOOLEAN

RunTypeOK ==
    /\ run \in Run /\ (RunActive => run.id # NoId /\ run.session # NoId)
    /\ blocked \subseteq RunIds /\ stuck \subseteq RunIds

ClientTypeOK ==
    /\ client \in [Clients -> Client]
    /\ \A c \in Clients : client[c].pc = "start" => client[c].session # NoId
    /\ late \subseteq Told

(* Types, and what goes with a place: a stopped PIE has no mode, an active *)
(* run has its names, a client about to start a run was told of a session. *)
ScenarioTypeOK ==
    PlayTypeOK /\ RunTypeOK /\ ClientTypeOK /\ events \in 0..MaxEvents /\ faults \in 0..MaxFaults

(* docs/products/scenario-studio.md:163: "live device input is blocked     *)
(* during the run and restored on every terminal path".  Whatever clients, *)
(* people and PIE do, a preprocessor is registered exactly for the active  *)
(* run and for runs that reported isolation_restore_failed.                *)
InputIsGivenBack == blocked = stuck \cup (IF RunActive THEN {run.id} ELSE {})

(* docs/products/scenario-studio.md:45-49: PIE restart invalidates the     *)
(* binding, a run "never resumes silently against a new world".  An active *)
(* run is in the session its client was told of, in the very PIE it was    *)
(* told of, however late its Start comes and whoever ends and begins PIE   *)
(* meanwhile, with one exception that the code has: a PIE begun by hand    *)
(* inherits the id of the one before if nobody asked for the state in      *)
(* between, and Start compares ids only.  Once PIE has begun, neither      *)
(* ejecting to Simulate nor anything else but its end parts a run from it. *)
RunKeepsItsSession ==
    RunActive => InWorld /\ session = run.session /\ (run.own \/ inherited)

(* apps/workbench/src/main/ipc/scenarios.ts: a cancellation that was       *)
(* accepted has a terminal result, whichever run the editor has by then.   *)
CancellationIsTerminal == \A c \in Clients : client[c].pc # "died"

(* The inductive invariant.  A preprocessor given up on is not that of the *)
(* active run, and a run whose cancellation is to be confirmed is over.    *)
StuckIsOver == RunActive => run.id \notin stuck
CancelledIsOver ==
    \A c \in Clients : client[c].pc = "confirm" /\ client[c].run = run.id => ~RunActive

(* Who was told of the present session was told of the present PIE, unless *)
(* that one inherited its id.                                              *)
InheritsOrStopped == inherited \/ play.state = "stopped"
ToldOfThisPie ==
    /\ inherited => session # NoId
    /\ \A c \in Clients :
          client[c].session = session /\ session # NoId /\ ~client[c].pie => InheritsOrStopped
    /\ \A t \in late : t.session = session /\ ~t.pie => InheritsOrStopped

ScenarioInv ==
    /\ ScenarioTypeOK /\ InputIsGivenBack /\ RunKeepsItsSession /\ CancellationIsTerminal
    /\ StuckIsOver /\ CancelledIsOver /\ ToldOfThisPie

(* A run ends, also when its Start was never answered and when its client  *)
(* is gone, unless PIE stays paused or the world of the run was replaced.  *)
RunsEnd ==
    \/ []<>~RunActive
    \/ <>[](RunActive /\ (play.state = "paused" \/ ~run.here))

(* docs/products/scenario-studio.md:82-83: "The capability removes the     *)
(* isolator on completion, cancellation, failure, PIE end, world           *)
(* replacement, or module shutdown."                                       *)
ReplacedWorldEndsRun == (RunActive /\ ~run.here) ~> ~RunActive
=============================================================================
