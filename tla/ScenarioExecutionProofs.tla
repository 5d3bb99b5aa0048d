----------------------- MODULE ScenarioExecutionProofs -----------------------
(***************************************************************************)
(* Proofs about ScenarioExecution, for any clients, ids and schedule, and  *)
(* any number of events and faults.                                        *)
(***************************************************************************)
EXTENDS ScenarioExecution, TLAPS

(* What the runs' variables promise among themselves                       *)
RunInv == RunTypeOK /\ InputIsGivenBack /\ StuckIsOver

LEMMA StoppedIsPlay == Stopped \in Play /\ Stopped.state = "stopped"
  BY DEF Stopped, Play

(* Whatever PIE becomes, it is stopped or in a state of its own.           *)
LEMMA PlayChanges ==
    ASSUME NEW p \in Play, NEW state \in {"queued", "playing", "paused"}
    PROVE  /\ [p EXCEPT !.state = state] \in Play
           /\ [p EXCEPT !.state = state].state = state
           /\ [p EXCEPT !.ending = TRUE] \in Play
           /\ [p EXCEPT !.ending = TRUE].state = p.state
  BY DEF Play

LEMMA BeginQueuedPlays ==
    ASSUME play \in Play, BeginQueued
    PROVE  play' \in Play /\ (play'.state = "stopped" => play' = Stopped)
<1>1. CASE play' = Stopped
  BY <1>1, StoppedIsPlay
<1>2. CASE play' = [play EXCEPT !.state = "playing"]
  BY <1>2, PlayChanges
<1> QED
  BY <1>1, <1>2 DEF BeginQueued

LEMMA ByHandPlays ==
    ASSUME play \in Play, play.state = "stopped" => play = Stopped, PlayByHand \/ ByHand
    PROVE  play' \in Play /\ (play'.state = "stopped" => play' = Stopped)
<1>1. ASSUME NEW b \in BOOLEAN, play' = [Stopped EXCEPT !.state = "queued", !.simulate = b]
      PROVE  play' \in Play /\ play'.state = "queued"
  BY <1>1, StoppedIsPlay DEF Play
<1>2. CASE play' = Stopped
  BY <1>2, StoppedIsPlay
<1>3. ASSUME NEW state \in {"playing", "paused"}, play' = [play EXCEPT !.state = state]
      PROVE  play' \in Play /\ play'.state = state
  BY <1>3 DEF Play
<1>4. ASSUME InWorld, play' = [play EXCEPT !.ending = TRUE]
      PROVE  play' \in Play /\ play'.state # "stopped"
  BY <1>4, PlayChanges DEF InWorld
<1>5. ASSUME InWorld, play' = [play EXCEPT !.simulate = ~@]
      PROVE  play' \in Play /\ play'.state # "stopped"
  BY <1>5 DEF Play, InWorld
<1> QED
  BY <1>1, <1>2, <1>3, <1>4, <1>5 DEF PlayByHand, ByHand

(* A session that is under way keeps its name, whoever looks at it.        *)
LEMMA SnapshotKeeps ==
    ASSUME PlayTypeOK, Snapshot
    PROVE  /\ session' \in SessionIds \cup {NoId} /\ stopRequested' \in BOOLEAN
           /\ inherited' \in BOOLEAN /\ (inherited' => inherited /\ session' = session)
           /\ session' = session => inherited' = inherited
           /\ play.state # "stopped" => session' # NoId
           /\ play.state # "stopped" /\ session # NoId => session' = session
  BY IdsAssumption DEF PlayTypeOK, Snapshot, Name, FreshSession

(* How the session may change under those who were told of it              *)
SessionMoves ==
    /\ inherited' => session' # NoId
    /\ \/ session' = session /\ (InheritsOrStopped => InheritsOrStopped')
       \/ session' = NoId
       \/ /\ \A c \in Clients : client[c].session # session'
          /\ \A t \in late : t.session # session'

LEMMA NameMoves ==
    ASSUME Name, inherited' = FALSE
    PROVE  SessionMoves /\ session' \in SessionIds
  BY DEF Name, FreshSession, SessionMoves

LEMMA SnapshotMoves ==
    ASSUME ScenarioInv, Snapshot, play'.state = "stopped" <=> play.state = "stopped"
    PROVE  SessionMoves
<1>1. PlayTypeOK /\ (inherited => session # NoId)
  BY DEF ScenarioInv, ScenarioTypeOK, ToldOfThisPie
<1>2. CASE session' = session
  BY <1>1, <1>2, SnapshotKeeps DEF SessionMoves, InheritsOrStopped
<1>3. CASE session' # session /\ session' # NoId
  <2>1. Name /\ inherited' = FALSE
    BY <1>3 DEF Snapshot
  <2> QED
    BY <2>1, NameMoves
<1>4. CASE session' # session /\ session' = NoId
  BY <1>1, <1>4, SnapshotKeeps DEF SessionMoves
<1> QED
  BY <1>2, <1>3, <1>4

(* A client forgets, goes on, or is told anew; a Start that runs late was  *)
(* some client's.                                                          *)
LEMMA ToldStays ==
    ASSUME ScenarioInv, SessionMoves,
           \A c \in Clients : \/ client'[c].session = NoId \/ client'[c].pie
                             \/ /\ client'[c].session = client[c].session
                                /\ client'[c].pie = client[c].pie,
           \A t \in late' : /\ t.session # NoId
                            /\ \/ t \in late
                               \/ \E c \in Clients : /\ t.session = client[c].session
                                                     /\ t.pie = client[c].pie
    PROVE  ToldOfThisPie'
<1>1. ToldOfThisPie
  BY DEF ScenarioInv
<1>2. ASSUME NEW c \in Clients, client'[c].session = session', session' # NoId, ~client'[c].pie
      PROVE  InheritsOrStopped'
  BY <1>1, <1>2 DEF ToldOfThisPie, SessionMoves
<1>3. ASSUME NEW t \in late', t.session = session', ~t.pie
      PROVE  InheritsOrStopped'
  BY <1>1, <1>3 DEF ToldOfThisPie, SessionMoves
<1> QED
  BY <1>2, <1>3 DEF ToldOfThisPie, SessionMoves

LEMMA NoRunIsARun == NoRun \in Run
<1>1. 0 \in 0..Duration /\ 0 \in 0..(WaitTimeout + 1)
  BY ScheduleAssumption
<1> QED
  BY <1>1 DEF NoRun, Run

LEMMA FinishEnds ==
    ASSUME ScenarioInv, RunActive, Finish
    PROVE  RunInv' /\ ~RunActive' /\ run'.id = run.id /\ faults' \in 0..MaxFaults
<1> USE DEF ScenarioInv, ScenarioTypeOK, RunTypeOK
<1>1. run' \in Run /\ ~RunActive' /\ run'.id = run.id
  <2>1. run' = [NoRun EXCEPT !.id = run.id]
    BY DEF Finish
  <2>2. run.id \in RunIds \cup {NoId}
    BY DEF Run
  <2>3. run' \in Run /\ run'.id = run.id
    BY <2>1, <2>2, NoRunIsARun DEF Run
  <2>4. run'.state = NoRun.state
    BY <2>1, NoRunIsARun DEF Run
  <2> QED
    BY <2>3, <2>4 DEF NoRun, RunActive
<1>2. /\ blocked' \subseteq RunIds /\ stuck' \subseteq RunIds
      /\ blocked' = stuck'
      /\ faults' \in 0..MaxFaults
  <2>1. run.id \in RunIds
    BY DEF Run
  <2>2. blocked = stuck \cup {run.id} /\ run.id \notin stuck
    BY DEF InputIsGivenBack, StuckIsOver
  <2>3. CASE blocked' = blocked \ {run.id} /\ UNCHANGED <<stuck, faults>>
    BY <2>1, <2>2, <2>3
  <2>4. CASE /\ faults < MaxFaults /\ faults' = faults + 1
             /\ stuck' = stuck \cup {run.id} /\ UNCHANGED blocked
    BY <2>1, <2>2, <2>4, BudgetAssumption
  <2> QED
    BY <2>3, <2>4 DEF Finish
<1> QED
  BY <1>1, <1>2 DEF RunInv, InputIsGivenBack, StuckIsOver, RunActive

LEMMA ContinueGoesOn ==
    ASSUME ScenarioInv, RunActive,
           NEW r \in Run, r.id = run.id, r.session = run.session, r.own = run.own,
           r.state # "terminal",
           Continue(r)
    PROVE  RunInv' /\ RunActive' /\ run'.id = run.id /\ run'.session = run.session
           /\ run'.own = run.own /\ faults' = faults
<1> USE DEF ScenarioInv, ScenarioTypeOK, RunTypeOK
<1>1. /\ run' \in Run /\ RunActive' /\ run'.id = run.id /\ run'.session = run.session
      /\ run'.own = run.own
  BY ScheduleAssumption DEF Continue, Run, RunActive
<1> QED
  BY <1>1 DEF RunInv, InputIsGivenBack, StuckIsOver, RunActive, Continue

LEMMA AcceptBegins ==
    ASSUME ScenarioInv, NEW s \in SessionIds, NEW own \in BOOLEAN, ~RunActive, Accept(s, own)
    PROVE  /\ RunInv' /\ RunActive' /\ run'.session = s /\ run'.own = own
           /\ run'.id \in RunIds
           /\ \A c \in Clients : client[c].run # run'.id
<1> USE DEF ScenarioInv, ScenarioTypeOK, RunTypeOK
<1> DEFINE id == CHOOSE i \in FreshRun : TRUE
<1>1. id \in RunIds /\ id \notin blocked /\ \A c \in Clients : client[c].run # id
  BY DEF Accept, FreshRun
<1>2. run' = [NoRun EXCEPT !.id = id, !.session = s, !.own = own, !.here = TRUE,
                           !.state = "running"]
      /\ blocked' = blocked \cup {id} /\ stuck' = stuck
  BY DEF Accept
<1> HIDE DEF id
<1>3. run' \in Run /\ RunActive' /\ run'.id = id /\ run'.session = s /\ run'.own = own
  <2>1. /\ run' \in Run /\ run'.id = id /\ run'.session = s /\ run'.own = own
        /\ run'.state = "running"
    BY <1>1, <1>2, NoRunIsARun DEF Run
  <2> QED
    BY <2>1 DEF RunActive
<1> QED
  BY <1>1, <1>2, <1>3, IdsAssumption DEF RunInv, InputIsGivenBack, StuckIsOver, RunActive

(* What a client's own steps do to it                                      *)
LEMMA GoGoes ==
    ASSUME ClientTypeOK, NEW c \in Clients, Go(c, "look") \/ Go(c, "begin") \/ Go(c, "resume")
               \/ Go(c, "await") \/ Go(c, "confirm") \/ Go(c, "died")
    PROVE  /\ client' \in [Clients -> Client]
           /\ client'[c].session = client[c].session /\ client'[c].pie = client[c].pie
           /\ client'[c].run = client[c].run /\ client'[c].pc # "start"
           /\ \A d \in Clients \ {c} : client'[d] = client[d]
           /\ \A pc : Go(c, pc) => client'[c].pc = pc
<1>1. PICK pc \in {"look", "begin", "resume", "await", "confirm", "died"} :
          client' = [client EXCEPT ![c].pc = pc]
  BY DEF Go
<1> DEFINE new == [client[c] EXCEPT !.pc = pc]
<1>2. /\ new \in Client /\ new.pc = pc /\ new.session = client[c].session
      /\ new.pie = client[c].pie /\ new.run = client[c].run
  BY DEF ClientTypeOK, Client
<1>3. client' = [client EXCEPT ![c] = new]
  BY <1>1
<1> HIDE DEF new
<1>4. client' \in [Clients -> Client] /\ client'[c] = new
      /\ \A d \in Clients \ {c} : client'[d] = client[d]
  BY <1>2, <1>3 DEF ClientTypeOK
<1>5. ASSUME NEW q, Go(c, q) PROVE client'[c].pc = q
  <2>1. client'[c] = [client[c] EXCEPT !.pc = q]
    BY <1>5 DEF Go, ClientTypeOK
  <2> QED
    BY <2>1 DEF ClientTypeOK, Client
<1> QED
  BY <1>2, <1>4, <1>5

LEMMA ReplacesClient ==
    ASSUME ClientTypeOK, NEW c \in Clients, NEW new \in Client,
           client' = [client EXCEPT ![c] = new]
    PROVE  /\ client' \in [Clients -> Client] /\ client'[c] = new
           /\ \A d \in Clients \ {c} : client'[d] = client[d]
  BY DEF ClientTypeOK

LEMMA IdleIsClient ==
    /\ Idle \in Client /\ Idle.pc = "idle" /\ Idle.session = NoId /\ ~Idle.pie /\ Idle.run = NoId
    /\ \A id \in RunIds : LET new == [Idle EXCEPT !.pc = "poll", !.run = id]
                         IN  new \in Client /\ new.pc = "poll" /\ new.session = NoId
  BY DEF Idle, Client

LEMMA EventCounts == ASSUME ScenarioInv, Event PROVE events' \in 0..MaxEvents
  BY BudgetAssumption DEF ScenarioInv, ScenarioTypeOK, Event

(* Nothing but what clients and Start do sends a client on.                *)
LEMMA ClientsStay ==
    ASSUME ScenarioInv, UNCHANGED <<client, late>>, SessionMoves,
           run'.id = run.id, ~RunActive => ~RunActive'
    PROVE  ClientTypeOK' /\ CancellationIsTerminal' /\ CancelledIsOver' /\ ToldOfThisPie'
<1> USE DEF ScenarioInv, ScenarioTypeOK, ClientTypeOK
<1>1. ClientTypeOK' /\ CancellationIsTerminal' /\ CancelledIsOver'
  BY DEF CancellationIsTerminal, CancelledIsOver
<1>2. \A t \in late : t.session # NoId
  BY IdsAssumption DEF Told
<1>3. ToldOfThisPie'
  BY <1>2, ToldStays
<1> QED
  BY <1>1, <1>3

(* When PIE ends everybody was told of one that is no more.                *)
LEMMA PieGoneKeeps ==
    ASSUME ScenarioInv, PieIsGone, play'.state = "stopped", UNCHANGED <<session, inherited>>,
           run'.id = run.id, ~RunActive => ~RunActive'
    PROVE  ClientTypeOK' /\ CancellationIsTerminal' /\ CancelledIsOver' /\ ToldOfThisPie'
<1> USE DEF ScenarioInv, ScenarioTypeOK, ClientTypeOK, PieIsGone
<1>1. \A c \in Clients : client'[c] = [client[c] EXCEPT !.pie = FALSE]
  OBVIOUS
<1>2. client' \in [Clients -> Client]
  BY <1>1 DEF Client
<1>3. late' \subseteq Told
  BY DEF Told
<1>4. \A c \in Clients : client'[c].pc = client[c].pc /\ client'[c].session = client[c].session
                         /\ client'[c].run = client[c].run
  BY <1>1 DEF Client
<1>5. ToldOfThisPie'
  BY DEF ToldOfThisPie, InheritsOrStopped
<1> QED
  BY <1>2, <1>3, <1>4, <1>5 DEF CancellationIsTerminal, CancelledIsOver

LEMMA TickKeeps == ASSUME ScenarioInv, Tick PROVE ScenarioInv'
<1> USE DEF ScenarioInv
<1>1. PlayTypeOK' /\ session' = session /\ inherited' = inherited
  BY SnapshotKeeps DEF ScenarioTypeOK, PlayTypeOK, Tick, RunKeepsItsSession, InWorld, RunTypeOK
<1>10. SessionMoves
  BY SnapshotMoves DEF Tick
<1>2. CASE Finish
  BY <1>1, <1>10, <1>2, FinishEnds, ClientsStay
  DEF RunInv, Tick, ScenarioTypeOK, RunKeepsItsSession
<1>3. CASE Advance /\ ~Finish
  <2>1. RunInv' /\ RunActive' /\ run'.id = run.id /\ run'.session = run.session
        /\ run'.own = run.own /\ faults' = faults
    <3>1. PICK r \in {run, [run EXCEPT !.state = "running", !.landed = TRUE, !.waited = 0],
                      [run EXCEPT !.state = "waiting"],
                      [run EXCEPT !.landed = run.landed \/ run.time >= WaitAt]} : Continue(r)
      BY <1>3 DEF Advance, Wait
    <3>2. run \in Run /\ RunActive
      BY DEF ScenarioTypeOK, RunTypeOK, Tick
    <3>3. 0 \in 0..(WaitTimeout + 1)
      BY ScheduleAssumption
    <3>4. r \in Run /\ r.id = run.id /\ r.session = run.session /\ r.own = run.own
          /\ r.state # "terminal"
      BY <3>1, <3>2, <3>3 DEF Run, RunActive
    <3> QED
      BY <3>1, <3>2, <3>4, ContinueGoesOn
  <2> QED
    BY <1>1, <1>10, <2>1, ClientsStay
    DEF RunInv, Tick, ScenarioTypeOK, RunKeepsItsSession, InWorld
<1> QED
  BY <1>2, <1>3 DEF Tick

LEMMA EndPieKeeps == ASSUME ScenarioInv, EndPie PROVE ScenarioInv'
<1> USE DEF ScenarioInv
<1>1. PlayTypeOK'
  BY DEF EndPie, ScenarioTypeOK, PlayTypeOK, Play, Stopped
<1>2. RunInv' /\ ~RunActive' /\ run'.id = run.id /\ faults' \in 0..MaxFaults
  BY FinishEnds DEF EndPie, RunInv, ScenarioTypeOK, RunTypeOK, InputIsGivenBack, StuckIsOver,
                    RunActive, runVars
<1>3. ClientTypeOK' /\ CancellationIsTerminal' /\ CancelledIsOver' /\ ToldOfThisPie'
  BY <1>2, PieGoneKeeps, StoppedIsPlay DEF EndPie
<1> QED
  BY <1>1, <1>2, <1>3 DEF RunInv, EndPie, ScenarioTypeOK, RunKeepsItsSession

(* Steps of the engine and of the person at the editor                     *)
LEMMA PlayKeeps ==
    ASSUME ScenarioInv, UNCHANGED <<runVars, client, late, faults>>,
           PlayTypeOK', events' \in 0..MaxEvents, RunKeepsItsSession', SessionMoves
    PROVE  ScenarioInv'
<1> USE DEF ScenarioInv, runVars
<1>1. RunTypeOK' /\ InputIsGivenBack' /\ StuckIsOver'
  BY DEF ScenarioTypeOK, RunTypeOK, InputIsGivenBack, StuckIsOver, RunActive
<1> QED
  BY <1>1, ClientsStay DEF ScenarioTypeOK, RunActive

LEMMA EditorKeeps ==
    ASSUME ScenarioInv, BeginQueued \/ PlayByHand \/ ByHand \/ StopPlay
    PROVE  ScenarioInv'
<1> USE DEF ScenarioInv, ScenarioTypeOK, PlayTypeOK, Play, Stopped, RunKeepsItsSession, InWorld,
            RunActive, runVars
<1>0. inherited => session # NoId
  BY DEF ToldOfThisPie
<1>1. CASE BeginQueued
  <2>1. PlayTypeOK'
    <3>1. play' \in Play /\ (play'.state = "stopped" => play' = Stopped)
      BY <1>1, BeginQueuedPlays
    <3> QED
      BY <1>1, <3>1 DEF BeginQueued
  <2>2. RunKeepsItsSession' /\ events' \in 0..MaxEvents
    BY <1>1 DEF BeginQueued
  <2>3. SessionMoves
    BY <1>0, <1>1 DEF BeginQueued, SessionMoves, InheritsOrStopped
  <2> QED
    BY <1>1, <2>1, <2>2, <2>3, PlayKeeps DEF BeginQueued
<1>2. CASE ByHand
  <2>1. PlayTypeOK'
    <3>1. play' \in Play /\ (play'.state = "stopped" => play' = Stopped)
      BY <1>2, ByHandPlays
    <3> QED
      BY <1>2, <3>1 DEF ByHand
  <2>2. RunKeepsItsSession'
    <3>1. ~RunActive' \/ InWorld'
      BY <1>2, <2>1 DEF ByHand
    <3> QED
      BY <1>2, <3>1 DEF ByHand
  <2>3. events' \in 0..MaxEvents
    BY <1>2, EventCounts DEF ByHand
  <2>4. SessionMoves
    BY <1>0, <1>2 DEF ByHand, SessionMoves, InheritsOrStopped
  <2> QED
    BY <1>2, <2>1, <2>2, <2>3, <2>4, PlayKeeps DEF ByHand
<1>3. CASE StopPlay
  <2>1. PlayTypeOK'
    BY <1>3 DEF StopPlay, Status, Name, FreshSession
  <2>2. RunKeepsItsSession'
    BY <1>3 DEF StopPlay, Status, RunTypeOK
  <2>3. events' \in 0..MaxEvents
    BY <1>3, EventCounts DEF StopPlay
  <2>4. SessionMoves
    <3>1. CASE session # NoId /\ session' = session
      <4>1. inherited' = inherited /\ play.state # "stopped"
        BY <1>3, <3>1 DEF StopPlay, Status
      <4> QED
        BY <1>0, <3>1, <4>1 DEF SessionMoves, InheritsOrStopped
    <3>2. CASE session = NoId /\ Name
      BY <1>0, <1>3, <3>2, NameMoves DEF StopPlay
    <3> QED
      BY <1>3, <3>1, <3>2 DEF StopPlay
  <2> QED
    BY <1>3, <2>1, <2>2, <2>3, <2>4, PlayKeeps DEF StopPlay
<1>4. CASE PlayByHand
  <2>1. PlayTypeOK'
    <3>1. play' \in Play /\ (play'.state = "stopped" => play' = Stopped)
      BY <1>4, ByHandPlays
    <3> QED
      BY <1>4, <3>1 DEF PlayByHand
  <2>2. RunKeepsItsSession'
    BY <1>4 DEF PlayByHand
  <2>3. events' \in 0..MaxEvents
    BY <1>4, EventCounts DEF PlayByHand
  <2>4. SessionMoves
    BY <1>4 DEF PlayByHand, SessionMoves, InheritsOrStopped
  <2> QED
    BY <1>4, <2>1, <2>2, <2>3, <2>4, PlayKeeps DEF PlayByHand
<1> QED
  BY <1>1, <1>2, <1>3, <1>4

LEMMA WorldKeeps ==
    ASSUME ScenarioInv, Jump \/ ReplaceWorld \/ RestartEditor
    PROVE  ScenarioInv'
<1> USE DEF ScenarioInv, ScenarioTypeOK, runVars, pieVars
<1>1. CASE Jump \/ ReplaceWorld
  <2>1. /\ run' \in Run /\ run'.id = run.id /\ run'.session = run.session
        /\ run'.state = run.state /\ run'.own = run.own
    BY <1>1 DEF Jump, ReplaceWorld, RunTypeOK, Run
  <2>2. RunTypeOK' /\ InputIsGivenBack' /\ StuckIsOver' /\ PlayTypeOK' /\ RunKeepsItsSession'
    BY <1>1, <2>1 DEF Jump, ReplaceWorld, RunTypeOK, InputIsGivenBack, StuckIsOver, PlayTypeOK,
                      RunKeepsItsSession, InWorld, RunActive
  <2>3. events' \in 0..MaxEvents /\ faults' \in 0..MaxFaults
    BY <1>1, BudgetAssumption DEF Jump, ReplaceWorld, Event
  <2>4. SessionMoves
    BY <1>1 DEF Jump, ReplaceWorld, SessionMoves, InheritsOrStopped, ToldOfThisPie
  <2> QED
    BY <1>1, <2>1, <2>2, <2>3, <2>4, ClientsStay DEF Jump, ReplaceWorld, RunActive
<1>2. CASE RestartEditor
  <2>1. PlayTypeOK' /\ RunTypeOK' /\ InputIsGivenBack' /\ StuckIsOver' /\ RunKeepsItsSession'
    BY <1>2, NoRunIsARun
    DEF RestartEditor, PlayTypeOK, Play, Stopped, RunTypeOK, NoRun, InputIsGivenBack,
        StuckIsOver, RunKeepsItsSession, RunActive
  <2>2. ClientTypeOK' /\ CancellationIsTerminal' /\ CancelledIsOver' /\ ToldOfThisPie'
    <3>1. \A c \in Clients : client'[c] = [client[c] EXCEPT !.pie = FALSE]
      BY <1>2 DEF RestartEditor
    <3>2. client' \in [Clients -> Client] /\ late' = {}
      BY <1>2, <3>1 DEF RestartEditor, ClientTypeOK, Client
    <3>3. \A c \in Clients : client'[c].pc = client[c].pc
                             /\ client'[c].session = client[c].session
      BY <3>1 DEF ClientTypeOK, Client
    <3>4. ToldOfThisPie'
      BY <1>2 DEF RestartEditor, ToldOfThisPie
    <3> QED
      BY <1>2, <3>2, <3>3, <3>4
      DEF RestartEditor, ClientTypeOK, CancellationIsTerminal, CancelledIsOver, NoRun, RunActive
  <2>3. events' \in 0..MaxEvents /\ faults' \in 0..MaxFaults
    BY <1>2, BudgetAssumption DEF RestartEditor, Event
  <2> QED
    BY <2>1, <2>2, <2>3
<1> QED
  BY <1>1, <1>2

(* A client that asks and goes on                                          *)
LEMMA AskKeeps ==
    ASSUME ScenarioInv, NEW c \in Clients,
           Prepare(c) \/ Look(c) \/ Await(c) \/ Poll(c) \/ Confirm(c) \/ Leave(c) \/ LeaveStart(c)
    PROVE  ScenarioInv'
<1> USE DEF ScenarioInv, ScenarioTypeOK, runVars, pieVars
<1>1. PlayTypeOK' /\ RunKeepsItsSession' /\ UNCHANGED <<runVars, events>>
      /\ (play.state # "stopped" /\ Snapshot => session' # NoId)
  BY SnapshotKeeps
  DEF Prepare, Look, Await, Poll, Confirm, Leave, LeaveStart, PlayTypeOK, RunKeepsItsSession,
      RunTypeOK, InWorld, RunActive
<1>2. RunTypeOK' /\ InputIsGivenBack' /\ StuckIsOver' /\ (RunActive' <=> RunActive)
  BY <1>1 DEF RunTypeOK, InputIsGivenBack, StuckIsOver, RunActive
<1>3. \/ client' = client
      \/ client' = [client EXCEPT ![c] = Idle]
      \/ \E pc \in {"look", "begin", "resume", "await"} : client' = [client EXCEPT ![c].pc = pc]
      \/ /\ session' \in SessionIds
         /\ client' = [client EXCEPT ![c].pc = "start", ![c].session = session', ![c].pie = TRUE]
  BY <1>1, SnapshotKeeps DEF Prepare, Look, Await, Poll, Confirm, Leave, LeaveStart, Go, GiveUp,
      RunStatus, CancelledIsOver, RunActive, Status, PlayTypeOK
<1>4. late' \subseteq Told /\ faults' \in 0..MaxFaults
  BY BudgetAssumption DEF Prepare, Look, Await, Poll, Confirm, Leave, LeaveStart, Fault,
      ClientTypeOK, Client, Told
<1>5. client' \in [Clients -> Client]
  <2>1. CASE client' = [client EXCEPT ![c] = Idle]
    BY <2>1, IdleIsClient, ReplacesClient
  <2>2. ASSUME NEW pc \in {"look", "begin", "resume", "await"},
               client' = [client EXCEPT ![c].pc = pc]
        PROVE  client' \in [Clients -> Client]
    BY <2>2, GoGoes DEF Go
  <2>3. CASE /\ session' \in SessionIds
             /\ client' = [client EXCEPT ![c].pc = "start", ![c].session = session', ![c].pie = TRUE]
    <3> DEFINE new == [client[c] EXCEPT !.pc = "start", !.session = session', !.pie = TRUE]
    <3>1. new \in Client
      BY <2>3 DEF ClientTypeOK, Client
    <3>2. client' = [client EXCEPT ![c] = new]
      BY <2>3
    <3> QED
      BY <3>1, <3>2, ReplacesClient
  <2> QED
    BY <1>3, <2>1, <2>2, <2>3 DEF ClientTypeOK
<1>6. \A d \in Clients : client'[d].pc = "start" => client'[d].session # NoId
  BY <1>3, IdsAssumption DEF ClientTypeOK, Client, Idle
<1>7. CancellationIsTerminal' /\ CancelledIsOver'
  BY <1>1, <1>2, <1>3 DEF ClientTypeOK, Client, Idle, CancellationIsTerminal, CancelledIsOver
<1>8. ToldOfThisPie'
  <2>1. SessionMoves
    <3>1. CASE Snapshot /\ play' = play
      BY <3>1, SnapshotMoves
    <3>2. CASE UNCHANGED pieVars
      BY <3>2 DEF SessionMoves, InheritsOrStopped, ToldOfThisPie
    <3> QED
      BY <3>1, <3>2 DEF Prepare, Look, Await, Poll, Confirm, Leave, LeaveStart
  <2>2. \A d \in Clients : \/ client'[d].session = NoId \/ client'[d].pie
                          \/ /\ client'[d].session = client[d].session
                             /\ client'[d].pie = client[d].pie
    BY <1>3 DEF ClientTypeOK, Client, Idle
  <2>3. \A t \in late' : t \in late \/ t = [session |-> client[c].session, pie |-> client[c].pie]
    BY DEF Prepare, Look, Await, Poll, Confirm, Leave, LeaveStart
  <2>4. \A t \in late' : t.session # NoId
    BY <1>4, IdsAssumption DEF Told
  <2> QED
    BY <2>1, <2>2, <2>3, <2>4, ToldStays
<1> QED
  BY <1>1, <1>2, <1>4, <1>5, <1>6, <1>7, <1>8 DEF ClientTypeOK

LEMMA BeginOrResumeKeeps ==
    ASSUME ScenarioInv, NEW c \in Clients, BeginOrResume(c)
    PROVE  ScenarioInv'
<1> USE DEF ScenarioInv, ScenarioTypeOK, runVars
<1>1. PICK answer \in {"accepted", "rejected"} :
          /\ \/ client[c].pc = "begin" /\ StartPlay(answer)
             \/ client[c].pc = "resume" /\ ResumePlay(answer)
          /\ IF answer = "accepted" THEN Go(c, "await") ELSE GiveUp(c)
  BY DEF BeginOrResume
<1>2. PlayTypeOK' /\ RunKeepsItsSession'
  <2>1. CASE StartPlay(answer)
    BY <2>1, SnapshotKeeps DEF StartPlay, PlayTypeOK, Play, Stopped, Name, FreshSession, Status,
       RunKeepsItsSession, RunTypeOK, InWorld, RunActive
  <2>2. CASE ResumePlay(answer)
    BY <2>2, SnapshotKeeps DEF ResumePlay, PlayTypeOK, Play, Stopped, Status,
       RunKeepsItsSession, RunTypeOK, InWorld, RunActive
  <2> QED
    BY <1>1, <2>1, <2>2
<1>3. UNCHANGED <<runVars, late, events, faults>>
  BY <1>1 DEF BeginOrResume, StartPlay, ResumePlay
<1>4. RunTypeOK' /\ InputIsGivenBack' /\ StuckIsOver' /\ (RunActive' <=> RunActive)
  BY <1>3 DEF RunTypeOK, InputIsGivenBack, StuckIsOver, RunActive
<1>5. ClientTypeOK' /\ CancellationIsTerminal' /\ CancelledIsOver'
  <2>1. CASE Go(c, "await")
    BY <1>3, <1>4, <2>1, GoGoes DEF ClientTypeOK, CancellationIsTerminal, CancelledIsOver
  <2>2. CASE GiveUp(c)
    BY <1>3, <1>4, <2>2, IdleIsClient, ReplacesClient
    DEF GiveUp, ClientTypeOK, CancellationIsTerminal, CancelledIsOver
  <2> QED
    BY <1>1, <2>1, <2>2
<1>6. SessionMoves
  <2>1. CASE Snapshot /\ play' = play
    BY <2>1, SnapshotMoves
  <2>2. CASE Snapshot /\ ResumePlay(answer) /\ play' # play
    <3>1. play.state = "paused" /\ play'.state = "playing"
      BY <2>2 DEF ResumePlay, Status, PlayTypeOK, Play
    <3> QED
      BY <2>2, <3>1, SnapshotMoves
  <2>3. CASE inherited' = FALSE /\ (Name \/ session' = NoId)
    BY <2>3, NameMoves DEF SessionMoves
  <2> QED
    BY <1>1, <2>1, <2>2, <2>3 DEF StartPlay, ResumePlay
<1>7. ToldOfThisPie'
  <2>1. \A d \in Clients : \/ client'[d].session = NoId
                          \/ /\ client'[d].session = client[d].session
                             /\ client'[d].pie = client[d].pie
    BY <1>1 DEF Go, GiveUp, Idle, ClientTypeOK, Client
  <2>2. \A t \in late : t.session # NoId
    BY IdsAssumption DEF ClientTypeOK, Told
  <2> QED
    BY <1>3, <1>6, <2>1, <2>2, ToldStays
<1> QED
  BY <1>2, <1>3, <1>4, <1>5, <1>7

(* Start, whoever sent it                                                  *)
LEMMA StartKeeps ==
    ASSUME ScenarioInv, NEW s \in SessionIds, NEW own \in BOOLEAN, NEW answer, Start(s, own, answer),
           s = session /\ ~own => InheritsOrStopped,
           \/ \E c \in Clients : client[c].session = s
           \/ \E t \in late : t.session = s
    PROVE  /\ PlayTypeOK' /\ RunInv' /\ RunKeepsItsSession' /\ SessionMoves /\ faults' = faults
           /\ answer # "accepted" => UNCHANGED runVars
           /\ answer = "accepted" => run'.id \in RunIds
                                     /\ \A c \in Clients : client[c].run # run'.id
<1> USE DEF ScenarioInv, ScenarioTypeOK, runVars
<1>1. PlayTypeOK' /\ faults' = faults /\ play' = play
  BY SnapshotKeeps DEF Start, PlayTypeOK
<1>4. SessionMoves
  BY <1>1, SnapshotMoves DEF Start, SessionMoves, InheritsOrStopped, ToldOfThisPie
<1>2. CASE UNCHANGED runVars /\ answer = "rejected"
  <2>1. RunInv'
    BY <1>2 DEF RunInv, RunTypeOK, InputIsGivenBack, StuckIsOver, RunActive
  <2>2. RunActive => session' = session /\ inherited' = inherited
    BY <1>2, SnapshotKeeps DEF Start, RunKeepsItsSession, RunTypeOK, InWorld
  <2>3. RunKeepsItsSession'
    BY <1>1, <1>2, <2>2 DEF RunKeepsItsSession, RunActive, InWorld
  <2> QED
    BY <1>1, <1>2, <1>4, <2>1, <2>3
<1>3. CASE /\ ~RunActive /\ InWorld /\ Snapshot /\ session' = s
           /\ Accept(s, own) /\ answer = "accepted"
  <2>1. session = s
    <3>1. session # NoId
      BY <1>3 DEF Snapshot, InWorld, Name, FreshSession
    <3> QED
      BY <1>3, <3>1, SnapshotKeeps DEF InWorld
  <2>2. inherited' = inherited
    BY <1>3, <2>1, SnapshotKeeps
  <2>3. own \/ inherited
    BY <1>3, <2>1 DEF InheritsOrStopped, InWorld
  <2> QED
    BY <1>1, <1>3, <1>4, <2>2, <2>3, AcceptBegins DEF RunKeepsItsSession, InWorld
<1> QED
  BY <1>2, <1>3 DEF Start

LEMMA StartRunKeeps == ASSUME ScenarioInv, NEW c \in Clients, StartRun(c) PROVE ScenarioInv'
<1> USE DEF ScenarioInv, ScenarioTypeOK
<1>1. /\ client[c].session \in SessionIds /\ client[c].pie \in BOOLEAN
      /\ client[c].session = session /\ ~client[c].pie => InheritsOrStopped
  BY DEF StartRun, ClientTypeOK, Client, ToldOfThisPie
<1>2. PICK answer \in {"accepted", "rejected"} :
          /\ Start(client[c].session, client[c].pie, answer)
          /\ IF answer = "accepted"
             THEN client' = [client EXCEPT ![c] = [Idle EXCEPT !.pc = "poll", !.run = run'.id]]
             ELSE GiveUp(c)
  BY DEF StartRun
<1>3. /\ PlayTypeOK' /\ RunInv' /\ RunKeepsItsSession' /\ SessionMoves
      /\ UNCHANGED <<faults, events, late>>
  BY <1>1, <1>2, StartKeeps DEF StartRun
<1>6. ToldOfThisPie'
  <2>1. \A d \in Clients : \/ client'[d].session = NoId
                          \/ /\ client'[d].session = client[d].session
                             /\ client'[d].pie = client[d].pie
    <3>1. CASE answer = "accepted"
      <4>1. run'.id \in RunIds
        BY <1>1, <1>2, <3>1, StartKeeps
      <4> DEFINE new == [Idle EXCEPT !.pc = "poll", !.run = run'.id]
      <4>2. new \in Client /\ new.session = NoId
        BY <4>1, IdleIsClient
      <4>3. client' = [client EXCEPT ![c] = new]
        BY <1>2, <3>1
      <4> QED
        BY <4>2, <4>3, ReplacesClient
    <3>2. CASE answer = "rejected"
      BY <1>2, <3>2, IdleIsClient, ReplacesClient DEF GiveUp
    <3> QED
      BY <3>1, <3>2
  <2>2. \A t \in late : t.session # NoId
    BY IdsAssumption DEF ClientTypeOK, Told
  <2> QED
    BY <1>3, <2>1, <2>2, ToldStays
<1>4. CASE answer = "accepted"
  <2>1. run'.id \in RunIds /\ \A d \in Clients : client[d].run # run'.id
    BY <1>1, <1>2, <1>4, StartKeeps
  <2> DEFINE new == [Idle EXCEPT !.pc = "poll", !.run = run'.id]
  <2>2. new \in Client /\ new.pc = "poll"
    BY <2>1, IdleIsClient
  <2>3. client' = [client EXCEPT ![c] = new]
    BY <1>2, <1>4
  <2> HIDE DEF new
  <2>4. /\ client' \in [Clients -> Client] /\ client'[c] = new
        /\ \A d \in Clients \ {c} : client'[d] = client[d]
    BY <2>2, <2>3, ReplacesClient
  <2>5. ClientTypeOK' /\ CancellationIsTerminal' /\ CancelledIsOver'
    BY <1>3, <2>1, <2>2, <2>4 DEF ClientTypeOK, CancellationIsTerminal, CancelledIsOver
  <2> QED
    BY <1>3, <1>6, <2>5 DEF RunInv
<1>5. CASE answer = "rejected"
  <2>1. UNCHANGED runVars
    BY <1>1, <1>2, <1>5, StartKeeps
  <2>2. ClientTypeOK' /\ CancellationIsTerminal' /\ CancelledIsOver'
    BY <1>2, <1>3, <1>5, <2>1, IdleIsClient, ReplacesClient
    DEF GiveUp, ClientTypeOK, CancellationIsTerminal, CancelledIsOver, runVars, RunActive
  <2> QED
    BY <1>3, <1>6, <2>2 DEF RunInv
<1> QED
  BY <1>4, <1>5

LEMMA StartLateKeeps == ASSUME ScenarioInv, NEW t \in late, StartLate(t) PROVE ScenarioInv'
<1> USE DEF ScenarioInv, ScenarioTypeOK
<1>1. /\ t.session \in SessionIds /\ t.pie \in BOOLEAN
      /\ t.session = session /\ ~t.pie => InheritsOrStopped
      /\ ClientTypeOK' /\ CancellationIsTerminal'
  BY DEF StartLate, ClientTypeOK, Told, CancellationIsTerminal, ToldOfThisPie
<1>2. PICK answer \in {"accepted", "rejected"} : Start(t.session, t.pie, answer)
  BY DEF StartLate
<1>3. /\ PlayTypeOK' /\ RunInv' /\ RunKeepsItsSession' /\ SessionMoves
      /\ UNCHANGED <<faults, events, client>>
  BY <1>1, <1>2, StartKeeps DEF StartLate
<1>4. CancelledIsOver'
  BY <1>1, <1>2, <1>3, StartKeeps DEF CancelledIsOver, runVars, RunActive
<1>5. ToldOfThisPie'
  <2>1. \A u \in late' : u \in late /\ u.session # NoId
    BY IdsAssumption DEF StartLate, ClientTypeOK, Told
  <2> QED
    BY <1>3, <2>1, ToldStays
<1> QED
  BY <1>1, <1>3, <1>4, <1>5 DEF RunInv

LEMMA CancelRunKeeps == ASSUME ScenarioInv, NEW c \in Clients, CancelRun(c) PROVE ScenarioInv'
<1> USE DEF ScenarioInv, ScenarioTypeOK, pieVars, runVars
<1>1. PICK answer \in {"accepted", "rejected"} :
          /\ Cancel(client[c].run, answer)
          /\ GiveUp(c) \/ (answer = "accepted" /\ Go(c, "confirm"))
  BY DEF CancelRun
<1>2. /\ RunInv' /\ run'.id = run.id /\ faults' \in 0..MaxFaults
      /\ RunActive' => RunActive /\ UNCHANGED run
      /\ answer = "accepted" => ~RunActive' /\ run.id = client[c].run
  BY <1>1, FinishEnds
  DEF Cancel, RunInv, RunTypeOK, InputIsGivenBack, StuckIsOver, RunActive
<1>3. PlayTypeOK' /\ RunKeepsItsSession' /\ UNCHANGED <<late, events>>
  BY <1>2 DEF CancelRun, PlayTypeOK, RunKeepsItsSession, InWorld, RunActive
<1>4. ClientTypeOK' /\ CancellationIsTerminal' /\ CancelledIsOver'
  <2>1. CASE GiveUp(c)
    BY <1>2, <1>3, <2>1, IdleIsClient, ReplacesClient
    DEF GiveUp, ClientTypeOK, CancellationIsTerminal, CancelledIsOver, RunActive
  <2>2. CASE answer = "accepted" /\ Go(c, "confirm")
    <3>1. /\ client' \in [Clients -> Client] /\ client'[c].pc = "confirm"
          /\ \A d \in Clients \ {c} : client'[d] = client[d]
      BY <2>2, GoGoes
    <3> QED
      BY <1>2, <1>3, <2>2, <3>1
      DEF ClientTypeOK, CancellationIsTerminal, CancelledIsOver, RunActive
  <2> QED
    BY <1>1, <2>1, <2>2
<1>5. ToldOfThisPie'
  <2>1. SessionMoves
    BY DEF CancelRun, SessionMoves, InheritsOrStopped, ToldOfThisPie
  <2>2. \A d \in Clients : \/ client'[d].session = NoId
                          \/ /\ client'[d].session = client[d].session
                             /\ client'[d].pie = client[d].pie
    BY <1>1 DEF Go, GiveUp, Idle, ClientTypeOK, Client
  <2>3. \A t \in late : t.session # NoId
    BY IdsAssumption DEF ClientTypeOK, Told
  <2> QED
    BY <1>3, <2>1, <2>2, <2>3, ToldStays
<1> QED
  BY <1>2, <1>3, <1>4, <1>5 DEF RunInv

(* Every reachable state satisfies the inductive invariant.                *)
THEOREM InvariantCorrect == Spec => []ScenarioInv
<1>1. Init => ScenarioInv
  <2> SUFFICES ASSUME Init PROVE ScenarioInv
    OBVIOUS
  <2>1. PlayTypeOK
    BY StoppedIsPlay DEF Init, PlayTypeOK
  <2>2. ~RunActive /\ RunTypeOK
    BY NoRunIsARun DEF Init, RunTypeOK, RunActive, NoRun
  <2>3. ClientTypeOK /\ CancellationIsTerminal /\ CancelledIsOver
    BY DEF Init, ClientTypeOK, Client, Idle, CancellationIsTerminal, CancelledIsOver
  <2>4. events \in 0..MaxEvents /\ faults \in 0..MaxFaults
    BY BudgetAssumption DEF Init
  <2>5. InputIsGivenBack /\ StuckIsOver /\ RunKeepsItsSession /\ ToldOfThisPie
    BY <2>2 DEF Init, InputIsGivenBack, StuckIsOver, RunKeepsItsSession, ToldOfThisPie
  <2> QED
    BY <2>1, <2>2, <2>3, <2>4, <2>5 DEF ScenarioInv, ScenarioTypeOK
<1>2. ScenarioInv /\ [Next]_vars => ScenarioInv'
  <2> SUFFICES ASSUME ScenarioInv, [Next]_vars PROVE ScenarioInv'
    OBVIOUS
  <2>1. CASE Tick
    BY <2>1, TickKeeps
  <2>2. CASE EndPie
    BY <2>2, EndPieKeeps
  <2>3. CASE BeginQueued \/ PlayByHand \/ ByHand \/ StopPlay
    BY <2>3, EditorKeeps
  <2>4. CASE Jump \/ ReplaceWorld \/ RestartEditor
    BY <2>4, WorldKeeps
  <2>5. ASSUME NEW c \in Clients,
               Prepare(c) \/ Look(c) \/ Await(c) \/ Poll(c) \/ Confirm(c) \/ Leave(c) \/ LeaveStart(c)
        PROVE  ScenarioInv'
    BY <2>5, AskKeeps
  <2>6. ASSUME NEW c \in Clients, BeginOrResume(c) PROVE ScenarioInv'
    BY <2>6, BeginOrResumeKeeps
  <2>7. ASSUME NEW c \in Clients, StartRun(c) PROVE ScenarioInv'
    BY <2>7, StartRunKeeps
  <2>8. ASSUME NEW c \in Clients, CancelRun(c) PROVE ScenarioInv'
    BY <2>8, CancelRunKeeps
  <2>9. ASSUME NEW t \in late, StartLate(t) PROVE ScenarioInv'
    BY <2>9, StartLateKeeps
  <2>10. CASE UNCHANGED vars
    BY <2>10
    DEF vars, pieVars, runVars, ScenarioInv, ScenarioTypeOK, PlayTypeOK, RunTypeOK, ClientTypeOK,
        InputIsGivenBack, RunKeepsItsSession, CancellationIsTerminal, StuckIsOver,
        CancelledIsOver, ToldOfThisPie, InheritsOrStopped, RunActive, InWorld
  <2> QED
    BY <2>1, <2>2, <2>3, <2>4, <2>5, <2>6, <2>7, <2>8, <2>9, <2>10 DEF Next
<1> QED
  BY <1>1, <1>2, PTL DEF Spec

(* Live input is blocked for the active run only, and for runs that        *)
(* reported that it could not be given back.                               *)
THEOREM InputCorrect == Spec => []InputIsGivenBack
<1>1. ScenarioInv => InputIsGivenBack
  BY DEF ScenarioInv
<1> QED
  BY <1>1, InvariantCorrect, PTL

(* A run is in the PIE its client was told of, or in one that inherited    *)
(* the id of its session, and PIE has not ended since.                     *)
THEOREM SessionCorrect == Spec => []RunKeepsItsSession
<1>1. ScenarioInv => RunKeepsItsSession
  BY DEF ScenarioInv
<1> QED
  BY <1>1, InvariantCorrect, PTL

(* A cancellation that was accepted has a terminal result.                 *)
THEOREM CancellationCorrect == Spec => []CancellationIsTerminal
<1>1. ScenarioInv => CancellationIsTerminal
  BY DEF ScenarioInv
<1> QED
  BY <1>1, InvariantCorrect, PTL

(* Every variable keeps its type.                                          *)
THEOREM TypeCorrect == Spec => []ScenarioTypeOK
<1>1. ScenarioInv => ScenarioTypeOK
  BY DEF ScenarioInv
<1> QED
  BY <1>1, InvariantCorrect, PTL
=============================================================================
