---------------------------- MODULE TurnPipeline ----------------------------
(***************************************************************************)
(* How a day of the game is calculated and shown: the star map             *)
(* (screens/fStarMap.pas) and the screens beside it, on the UI thread,     *)
(* against the calculation worker (game/ThreadCalc.pas).                   *)
(*                                                                         *)
(* A day is a player-star job, which records a film of the player's star,  *)
(* then a galaxy job, which runs while the film is shown.  In long travel  *)
(* the next player-star job starts before the film ends.  Back in orders   *)
(* mode a preparation job opens the next day.  A job may open a            *)
(* conversation: it blocks until the UI has shown the dialogue.            *)
(*                                                                         *)
(* The UI is one thread: each of its actions runs from one wait, or one    *)
(* event of the message loop, to the next.  The worker is the Worker       *)
(* module's, between Start and idle; its failures are left to that module. *)
(***************************************************************************)
EXTENDS Naturals

CONSTANTS MaxDays,      \* bound on the days calculated
          MaxTalks      \* bound on the conversations of one job

ASSUME BoundsAssumption == MaxDays \in Nat /\ MaxTalks \in Nat

VARIABLES
    \* calculation worker
    Job, wrk, stop, TurnCalculationPhase, talks, talkKind,
    \* events, and the data the worker shares with the UI
    TalkRequest, TalkCompleted, ScriptUiRequest,
    PlayerStarDayPrepared, player, PrimaryFilm,
    \* UI
    ui, dest, ContinueTurnCalculation, BreakRequested, FilmProgressTimer,
    ExitScreenLoop, SecondaryFilm,
    \* history
    starDays,       \* player-star turns calculated
    galaxyDays,     \* galaxy turns calculated: Galaxy.CurrentTurn
    shown,          \* the last day whose film was started
    lost            \* a job was queued while another was outstanding

calc    == <<Job, wrk, stop>>
talking == <<talks, talkKind, TalkRequest, TalkCompleted, ScriptUiRequest>>
world   == <<TurnCalculationPhase, PlayerStarDayPrepared, player, starDays, galaxyDays>>
films   == <<PrimaryFilm, SecondaryFilm, shown>>
travel  == <<ContinueTurnCalculation, BreakRequested, FilmProgressTimer>>
vars    == <<calc, lost, talking, world, films, travel, ui, dest, ExitScreenLoop>>

\* A film: the day it shows, 0 for a cleared one, and where it leaves the player.
EmptyFilm == [day |-> 0, ends |-> "space"]

Places     == {"space", "port", "hyper", "dead"}   \* "dead": GetPlayer = nil
EventWaits == {"turnWait", "nextWait", "prepWait", "talkWait"}
PlainWaits == {"travelWait", "prepareWait", "codeWait", "stopWait", "closeWait",
               "dayWait", "galaxyWait"}

\* CurrentScreenId = screenStarMap
OnStarMap == ui \notin {"port", "dayWait", "galaxyWait", "jump", "ended", "exited"}

-----------------------------------------------------------------------------
\* The game begins docked, or in orders mode with the day prepared.
Init == /\ Job = "galaxy" /\ wrk = "idle" /\ stop = FALSE
        /\ talks = 0 /\ talkKind = "ship"
        /\ TalkRequest = FALSE /\ TalkCompleted = FALSE /\ ScriptUiRequest = FALSE
        /\ PrimaryFilm = EmptyFilm /\ SecondaryFilm = EmptyFilm
        /\ dest = "none" /\ ExitScreenLoop = FALSE
        /\ ContinueTurnCalculation = FALSE /\ BreakRequested = FALSE
        /\ FilmProgressTimer = FALSE
        /\ starDays = 0 /\ galaxyDays = 0 /\ shown = 0 /\ lost = FALSE
        /\ \/ /\ ui = "orders" /\ player = "space"
              /\ TurnCalculationPhase = "prepared" /\ PlayerStarDayPrepared = TRUE
           \/ /\ ui = "port" /\ player = "port"
              /\ TurnCalculationPhase = "idle" /\ PlayerStarDayPrepared = FALSE

Running == wrk # "idle"         \* IsTurnCalculationRunning

\* StartXxxTurnCalculation: Job is assigned before Start, and Start does
\* nothing while the worker is busy.
Queue(j) == /\ Job' = j
            /\ wrk' = IF Running THEN wrk ELSE "queued"
            /\ stop' = (Running /\ stop)
            /\ lost' = (lost \/ Running)

NothingQueued == UNCHANGED <<calc, lost>>

\* A slip: the wait does not release a conversation when the loop is exiting.
EnterDeafWait(wait) == ui' = wait /\ NothingQueued

\* WaitForTurnCalculation, lines 100-101, on the way into a plain wait.
EnterPlainWait(wait) == /\ ui' = wait
                        /\ stop' = (stop \/ ExitScreenLoop)
                        /\ UNCHANGED <<Job, wrk, lost>>

SwapTurnFilms == /\ PrimaryFilm' = SecondaryFilm
                 /\ SecondaryFilm' = PrimaryFilm
                 /\ shown' = PrimaryFilm.day

\* StartTurnFilm and RestartTurnFilm; BreakOnNextFilm is any value.
StartTurnFilm == /\ SwapTurnFilms
                 /\ ui' = "film" /\ dest' = "none"
                 /\ ContinueTurnCalculation' = FALSE
                 /\ BreakRequested' \in BOOLEAN
                 /\ FilmProgressTimer' = TRUE

-----------------------------------------------------------------------------
\* UI: orders.

\* EndTurnClicked
EndTurn == /\ ui = "orders" /\ ~ExitScreenLoop
           /\ ~Running /\ starDays < MaxDays
           /\ Queue("playerStar")
           /\ ui' = "turnWait"
           /\ UNCHANGED <<talking, world, films, travel, dest, ExitScreenLoop>>

\* What follows a wait for [IdleEvent, TalkRequestEvent] that the idle event
\* ended (1452-1457, 7128-7144, 7169-7173, 8812-8829).
GalaxyUnlessAway == IF player \in {"space", "port"} THEN Queue("galaxy") ELSE NothingQueued

ShowDay == /\ GalaxyUnlessAway /\ StartTurnFilm
           /\ UNCHANGED <<talking, world, ExitScreenLoop>>

StartOrderMode == /\ ui' = "orders"
                  /\ NothingQueued
                  /\ UNCHANGED <<talking, world, films, travel, dest, ExitScreenLoop>>

TurnIsIdle == /\ ui = "turnWait" /\ ~Running
              /\ ShowDay

\* A slip: the next film is started without waiting for its day.
NextShownAtOnce == /\ ui = "nextWait"
                   /\ ShowDay
                   /\ BreakRequested => BreakRequested'

NextIsIdle == /\ ui = "nextWait" /\ ~Running
              /\ ShowDay
              /\ BreakRequested => BreakRequested'

PreparationIsIdle == /\ ui = "prepWait" /\ ~Running
                     /\ StartOrderMode

\* A slip: the wait after a conversation returns to orders as it found them.
TalkIsIdleToOrders == /\ ui = "talkWait" /\ ~Running
                      /\ StartOrderMode

TalkIsIdle == /\ ui = "talkWait" /\ ~Running
              /\ IF PlayerStarDayPrepared THEN StartOrderMode ELSE ShowDay

\* The same waits, ended by the worker's request: RunTalkDialogs, which takes
\* the auto-reset event (1461-1464, 7145-7149, 7176-7179, 8832-8834).
RunTalkDialogs == /\ ui \in EventWaits /\ Running /\ TalkRequest
                  /\ TalkRequest' = FALSE
                  /\ ui' = "talk"
                  /\ NothingQueued
                  /\ UNCHANGED <<talks, talkKind, TalkCompleted, ScriptUiRequest,
                                 world, films, travel, dest, ExitScreenLoop>>

\* A slip: the UI waits again without reporting that the dialogue is over.
WaitUnreported == /\ ui = "talk"
                  /\ ui' = "talkWait"
                  /\ NothingQueued
                  /\ UNCHANGED <<talking, world, films, travel, dest, ExitScreenLoop>>

\* The dialogue ends: WaitForTurnOrTalk.
WaitForTurnOrTalk == /\ ui = "talk"
                     /\ TalkCompleted' = TRUE
                     /\ ui' = "talkWait"
                     /\ NothingQueued
                     /\ UNCHANGED <<talks, talkKind, TalkRequest, ScriptUiRequest,
                                    world, films, travel, dest, ExitScreenLoop>>

-----------------------------------------------------------------------------
\* UI: the film.

\* UpdateTurnCalculation, late enough in the film; travels is what
\* ShouldContinuePlayerTravel answers.
Broken == BreakRequested /\ player \notin {"dead", "port"}

MayTravel(travels) == travels => player # "dead" /\ starDays < MaxDays

UpdateTurnCalculation(travels) ==
    IF Broken
    THEN /\ ContinueTurnCalculation' = FALSE
         /\ NothingQueued /\ UNCHANGED FilmProgressTimer
    ELSE /\ ~Running
         /\ ContinueTurnCalculation' = travels
         /\ FilmProgressTimer' = FALSE
         /\ IF travels /\ TurnCalculationPhase = "galaxyFinished"
            THEN Queue("playerStar") ELSE NothingQueued

TimerFires == /\ ui = "film" /\ FilmProgressTimer /\ ~ExitScreenLoop
              /\ \E travels \in BOOLEAN :
                    MayTravel(travels) /\ UpdateTurnCalculation(travels)
              /\ UNCHANGED <<talking, world, films, BreakRequested, ui, dest, ExitScreenLoop>>

\* A slip: the break also forgets the turn that is being calculated.
BreakForgetsTurn == /\ ui = "film" /\ ~ExitScreenLoop
                    /\ BreakRequested' = TRUE /\ ContinueTurnCalculation' = FALSE
                    /\ NothingQueued
                    /\ UNCHANGED <<talking, world, films, FilmProgressTimer,
                                   ui, dest, ExitScreenLoop>>

BreakTurnClicked == /\ ui = "film" /\ ~ExitScreenLoop
                    /\ BreakRequested' = TRUE
                    /\ NothingQueued
                    /\ UNCHANGED <<talking, world, films, ContinueTurnCalculation,
                                   FilmProgressTimer, ui, dest, ExitScreenLoop>>

\* A script's UI code: the request is looked at, then the worker waited for
\* (8991-8995; CheckIntegrityChecksum waits whatever the phase).
ExecuteUiCode == /\ ui = "film" /\ ~ExitScreenLoop
                 /\ ~ScriptUiRequest
                 /\ EnterPlainWait("codeWait")
                 /\ UNCHANGED <<talking, world, films, travel, dest, ExitScreenLoop>>

UiCodeDone == /\ ui = "codeWait" /\ ~Running
              /\ ui' = "film"
              /\ NothingQueued
              /\ UNCHANGED <<talking, world, films, travel, dest, ExitScreenLoop>>

\* ProcessTurnFilm when the last command has been shown.  PlayerAutomaticControl,
\* which lines 7047 and 7067 ask to be off, is FALSE throughout: it is declared so
\* (aRanger.pas:200) and the program assigns it nothing else.
Away      == SecondaryFilm.ends # "space"       \* the player's graphic is detached
GameIsOver == player = "dead" /\ SecondaryFilm.day > galaxyDays
LeavesMap  == GameIsOver \/ (player \in {"hyper", "port"} /\ Away)

\* Stages 8-20, and OnClose while the film runs: StopTurnFilm(True).
StopTurnFilm(to) ==
    /\ dest' = to
    /\ IF ContinueTurnCalculation THEN EnterPlainWait("stopWait")
                                  ELSE ui' = "stopWait" /\ NothingQueued
    /\ UNCHANGED <<talking, world, films, travel, ExitScreenLoop>>

FilmLeavesMap == /\ ui = "film" /\ ~ExitScreenLoop /\ LeavesMap
                 /\ StopTurnFilm(CASE player = "dead"  -> "ended"
                                   [] player = "hyper" -> "jump"
                                   [] player = "port"  -> "port")

FilmOver == ui = "film" /\ ~ExitScreenLoop /\ ~LeavesMap

\* Stage 21, lines 7106-7109.
TravelWait == /\ FilmOver
              /\ ~ContinueTurnCalculation /\ player # "dead"
              /\ ~BreakRequested \/ player = "port"
              /\ EnterPlainWait("travelWait")
              /\ UNCHANGED <<talking, world, films, travel, dest, ExitScreenLoop>>

\* Line 7110, then stage 22 or 26.
TravelResumes ==
    /\ ui = "travelWait" /\ ~Running
    /\ \E travels \in BOOLEAN : MayTravel(travels) /\ UpdateTurnCalculation(travels)
    /\ ui' = IF ContinueTurnCalculation' THEN "nextWait" ELSE "prepareWait"
    /\ UNCHANGED <<talking, world, films, BreakRequested, dest, ExitScreenLoop>>

\* A slip: WaitForTurnCalculationUI in place of the wait for both events.
NextWaitDeaf == /\ FilmOver /\ ContinueTurnCalculation
                /\ EnterPlainWait("travelWait")
                /\ UNCHANGED <<talking, world, films, travel, dest, ExitScreenLoop>>

\* Stage 22
NextWait == /\ FilmOver /\ ContinueTurnCalculation
            /\ ui' = "nextWait"
            /\ NothingQueued
            /\ UNCHANGED <<talking, world, films, travel, dest, ExitScreenLoop>>

\* Stages 26-27
PrepareWait == /\ FilmOver /\ ~ContinueTurnCalculation
               /\ EnterPlainWait("prepareWait")
               /\ UNCHANGED <<talking, world, films, travel, dest, ExitScreenLoop>>

\* A slip: the wait of lines 7158-7159 is missing.
PrepareAtOnce == /\ ui = "prepareWait"
                 /\ Queue("prepare")
                 /\ ui' = "prepWait"
                 /\ UNCHANGED <<talking, world, films, travel, dest, ExitScreenLoop>>

\* Stage 28
Prepare == /\ ui = "prepareWait" /\ ~Running
           /\ Queue("prepare")
           /\ ui' = "prepWait"
           /\ UNCHANGED <<talking, world, films, travel, dest, ExitScreenLoop>>

-----------------------------------------------------------------------------
\* UI: leaving the star map, and the screens beside it.

\* The message loop is told to end.
Exit == /\ ui \in {"orders", "film", "talk", "port", "jump"} /\ ~ExitScreenLoop
        /\ ExitScreenLoop' = TRUE
        /\ NothingQueued
        /\ UNCHANGED <<talking, world, films, travel, ui, dest>>

\* OnClose of the screen in front, lines 1168-1173: a film is stopped first.
CloseFilm == /\ ui = "film" /\ ExitScreenLoop
             /\ StopTurnFilm("exited")

CloseScreen == /\ ui \in {"orders", "port", "jump"} /\ ExitScreenLoop
               /\ dest' = "exited"
               /\ EnterPlainWait("closeWait")
               /\ UNCHANGED <<talking, world, films, travel, ExitScreenLoop>>

\* The end of StopTurnFilm, lines 7051-7052 and 7073-7074 of a landing, and
\* the wait of OnClose, line 1182.
FilmStopped ==
    /\ ui = "stopWait" /\ (ContinueTurnCalculation => ~Running)
    /\ IF dest = "port" /\ ~Running /\ TurnCalculationPhase = "playerStarFinished"
       THEN Queue("galaxy") /\ ui' = "closeWait"
       ELSE EnterPlainWait("closeWait")
    /\ FilmProgressTimer' = FALSE
    /\ UNCHANGED <<talking, world, films, ContinueTurnCalculation, BreakRequested,
                   dest, ExitScreenLoop>>

\* A slip: the screen closes without waiting for the worker.
ClosedAtOnce == /\ ui = "closeWait"
                /\ ui' = dest
                /\ NothingQueued
                /\ UNCHANGED <<talking, world, films, travel, dest, ExitScreenLoop>>

Closed == /\ ui = "closeWait" /\ ~Running
          /\ ui' = dest
          /\ NothingQueued
          /\ UNCHANGED <<talking, world, films, travel, dest, ExitScreenLoop>>

\* Taking off (TryTakeOff) or letting a day pass in port
\* (TfPanelMain.EndTurnClicked): CalculatePlayerStarTurnAndWait.
CalculatePlayerStarTurn(to) ==
    /\ ui = "port" /\ ~ExitScreenLoop /\ ~Running /\ starDays < MaxDays
    /\ Queue("playerStar")
    /\ ui' = "dayWait" /\ dest' = to
    /\ UNCHANGED <<talking, world, films, travel, ExitScreenLoop>>

\* Then CalculateGalaxyTurnAndWait, unless the player died.
DayCalculated ==
    /\ ui = "dayWait" /\ ~Running
    /\ IF player = "dead" THEN ui' = "ended" /\ NothingQueued
                          ELSE ui' = "galaxyWait" /\ Queue("galaxy")
    /\ UNCHANGED <<talking, world, films, travel, dest, ExitScreenLoop>>

\* TakeOffForStationTravel does not wait for the galaxy: the star map opens
\* over it with ResumeMode = smrTurnFilm.
StationTravel == /\ ui = "dayWait" /\ ~Running
                 /\ dest = "film" /\ player # "dead"
                 /\ Queue("galaxy") /\ StartTurnFilm
                 /\ UNCHANGED <<talking, world, ExitScreenLoop>>

TakenOff == /\ ui = "galaxyWait" /\ ~Running /\ dest = "film"
            /\ NothingQueued /\ StartTurnFilm
            /\ UNCHANGED <<talking, world, ExitScreenLoop>>

DayPassed == /\ ui = "galaxyWait" /\ ~Running /\ dest = "port"
             /\ ui' = "port"
             /\ NothingQueued
             /\ UNCHANGED <<talking, world, films, travel, dest, ExitScreenLoop>>

\* TfJump.AdvanceTravel, a timer: days in hyperspace until the arrival, whose
\* galaxy turn runs while the star map opens (lines 222-262, 275).
JumpReady == ui = "jump" /\ ~ExitScreenLoop /\ ~Running

JumpStarDay == /\ JumpReady /\ player # "dead"
               /\ TurnCalculationPhase = "galaxyFinished" /\ starDays < MaxDays
               /\ Queue("playerStar")
               /\ UNCHANGED <<talking, world, films, travel, ui, dest, ExitScreenLoop>>

JumpGalaxyDay == /\ JumpReady /\ player = "hyper"
                 /\ TurnCalculationPhase # "galaxyFinished"
                 /\ Queue("galaxy")
                 /\ UNCHANGED <<talking, world, films, travel, ui, dest, ExitScreenLoop>>

Arrive == /\ JumpReady /\ player = "space"
          /\ TurnCalculationPhase # "galaxyFinished"
          /\ Queue("galaxy") /\ StartTurnFilm
          /\ UNCHANGED <<talking, world, ExitScreenLoop>>

JumpFails == /\ JumpReady /\ player = "dead"
             /\ ui' = "ended"
             /\ NothingQueued
             /\ UNCHANGED <<talking, world, films, travel, dest, ExitScreenLoop>>

-----------------------------------------------------------------------------
\* Worker.

RunningPhase == [galaxy     |-> "galaxyRunning",
                 playerStar |-> "playerStarRunning",
                 prepare    |-> "preparationRunning"]

\* TThreadCalc.Execute begins, unless it was stopped; lines 189-191 and 113-114.
Execute ==
    /\ wrk = "queued"
    /\ IF stop
       THEN wrk' = "idle" /\ UNCHANGED <<TurnCalculationPhase, PlayerStarDayPrepared, PrimaryFilm>>
       ELSE /\ wrk' = "running"
            /\ TurnCalculationPhase' = RunningPhase[Job]
            /\ PlayerStarDayPrepared' = (PlayerStarDayPrepared \/ Job = "prepare")
            /\ PrimaryFilm' = IF Job = "prepare" \/ (Job = "playerStar" /\ ~PlayerStarDayPrepared)
                              THEN EmptyFilm ELSE PrimaryFilm
    /\ talks' = 0
    /\ UNCHANGED <<Job, stop, lost, talkKind, TalkRequest, TalkCompleted, ScriptUiRequest,
                   player, starDays, galaxyDays, SecondaryFilm, shown,
                   travel, ui, dest, ExitScreenLoop>>

\* Where a player-star turn takes the player.  A player who landed under a film
\* that a script keeps running (KeepFilmRunning) is taken to survive the turn.
Outcomes == CASE player = "space" -> Places
              [] player = "port"  -> IF dest = "film" THEN {"space", "dead"}
                                   ELSE IF ui = "dayWait" THEN {"port", "dead"} ELSE {"port"}
              [] player = "hyper" -> {"hyper", "space", "dead"}
              [] player = "dead"  -> {"dead"}

\* RecordFilm, lines 116-119, with the place the turn leads to.
RecordFilm(to) == \/ player = "space"
                  \/ player = "port" /\ dest = "film"
                  \/ player = "hyper" /\ to = "space"

EndPlayerStarTurn ==
    /\ wrk = "running" /\ Job = "playerStar"
    /\ starDays' = starDays + 1
    /\ \E to \in Outcomes :
          /\ player' = to
          /\ PrimaryFilm' = IF RecordFilm(to) THEN [day |-> starDays + 1, ends |-> to]
                                              ELSE PrimaryFilm
    /\ PlayerStarDayPrepared' = FALSE
    /\ TurnCalculationPhase' = "playerStarFinished"
    /\ wrk' = "idle"
    /\ UNCHANGED <<Job, stop, lost, talking, galaxyDays, SecondaryFilm, shown,
                   travel, ui, dest, ExitScreenLoop>>

EndGalaxyTurn ==
    /\ wrk = "running" /\ Job = "galaxy"
    /\ galaxyDays' = galaxyDays + 1
    /\ TurnCalculationPhase' = "galaxyFinished"
    /\ wrk' = "idle"
    /\ UNCHANGED <<Job, stop, lost, talking, PlayerStarDayPrepared, player, starDays,
                   films, travel, ui, dest, ExitScreenLoop>>

EndPreparation ==
    /\ wrk = "running" /\ Job = "prepare"
    /\ TurnCalculationPhase' = "prepared"
    /\ wrk' = "idle"
    /\ UNCHANGED <<Job, stop, lost, talking, PlayerStarDayPrepared, player, starDays,
                   galaxyDays, films, travel, ui, dest, ExitScreenLoop>>

\* A ship or a planet addresses the player: TShip.OpenPlayerConversation and
\* TPlanet.RequestDialog, up to the reset of the completion event.
OpenConversation(kind) ==
    /\ wrk = "running" /\ talks < MaxTalks
    /\ ~ExitScreenLoop /\ player = "space" /\ OnStarMap
    /\ talkKind' = kind
    /\ talks' = talks + 1
    /\ TalkCompleted' = FALSE
    /\ wrk' = "asking"
    /\ UNCHANGED <<Job, stop, lost, TalkRequest, ScriptUiRequest, world, films,
                   travel, ui, dest, ExitScreenLoop>>

Ask == /\ wrk = "asking"
       /\ TalkRequest' = TRUE
       /\ wrk' = "asked"
       /\ UNCHANGED <<Job, stop, lost, talks, talkKind, TalkCompleted, ScriptUiRequest,
                      world, films, travel, ui, dest, ExitScreenLoop>>

\* A ship announces the request to UI scripts, a planet does not.
Announce == /\ wrk = "asked"
            /\ ScriptUiRequest' = (ScriptUiRequest \/ talkKind = "ship")
            /\ wrk' = "talking"
            /\ UNCHANGED <<Job, stop, lost, talks, talkKind, TalkRequest, TalkCompleted,
                           world, films, travel, ui, dest, ExitScreenLoop>>

\* The wait for [TalkCompleted, StopEvent] ends.
EndConversation ==
    /\ wrk = "talking" /\ (TalkCompleted \/ stop)
    /\ TalkCompleted' = FALSE
    /\ TalkRequest' = (TalkRequest /\ TalkCompleted)
    /\ ScriptUiRequest' = (ScriptUiRequest /\ talkKind # "ship")
    /\ wrk' = "running"
    /\ UNCHANGED <<Job, stop, lost, talks, talkKind, world, films,
                   travel, ui, dest, ExitScreenLoop>>

-----------------------------------------------------------------------------
\* The waits of the UI that are over; every dialogue, film and screen closes
\* once the loop is told to exit.
WaitReturns == \/ TurnIsIdle \/ NextIsIdle \/ PreparationIsIdle \/ TalkIsIdle
               \/ RunTalkDialogs \/ TravelResumes \/ Prepare \/ UiCodeDone
               \/ FilmStopped \/ Closed \/ DayCalculated \/ TakenOff \/ DayPassed

Closes == CloseFilm \/ CloseScreen \/ (ExitScreenLoop /\ WaitForTurnOrTalk)

WorkerProceeds == \/ Execute \/ EndPlayerStarTurn \/ EndGalaxyTurn \/ EndPreparation
                  \/ Ask \/ Announce \/ EndConversation

Next == \/ EndTurn \/ TimerFires \/ BreakTurnClicked \/ ExecuteUiCode
        \/ FilmLeavesMap \/ TravelWait \/ NextWait \/ PrepareWait
        \/ CalculatePlayerStarTurn("film") \/ CalculatePlayerStarTurn("port")
        \/ StationTravel \/ JumpStarDay \/ JumpGalaxyDay \/ Arrive \/ JumpFails
        \/ WaitForTurnOrTalk \/ Exit \/ CloseFilm \/ CloseScreen
        \/ WaitReturns
        \/ WorkerProceeds
        \/ OpenConversation("ship") \/ OpenConversation("planet")

\* Both threads are scheduled: a wait that is over returns, a job that is not
\* blocked goes on.  Players, timers and ships need not act.
Fairness == WF_vars(WaitReturns) /\ WF_vars(Closes) /\ WF_vars(WorkerProceeds)

Spec == Init /\ [][Next]_vars /\ Fairness

-----------------------------------------------------------------------------
\* The galaxy follows the player's star one turn at a time: no galaxy turn is
\* calculated twice, skipped, or run before the player's star has moved.
TurnsAlternate == galaxyDays <= starDays /\ starDays <= galaxyDays + 1

\* No job is queued while another is outstanding, where Start would drop it
\* and the assignment to Job would change what the other does (70-86).
NoJobIsLost == ~lost

\* The player gives orders, and port screens change the galaxy, with the worker
\* at rest; a dialogue is shown with the worker held in its conversation.
WorldExclusive == /\ ui \in {"orders", "port"} => ~Running
                  /\ ui = "talk" => wrk \in {"asked", "talking"}

\* A recorded day leaves PrimaryFilm only to be shown, and every film that is
\* started shows a day that has not been shown before.
EveryDayIsShownOnce ==
    [][/\ PrimaryFilm.day > shown => PrimaryFilm' = PrimaryFilm \/ SecondaryFilm' = PrimaryFilm
       /\ SecondaryFilm' # SecondaryFilm => PrimaryFilm.day > shown]_vars

\* The films change places only while no job that writes PrimaryFilm runs, and
\* none is queued by then (SwapTurnFilms against lines 113-120 and 190-191).
FilmsSwapAtRest ==
    [][SecondaryFilm' # SecondaryFilm =>
          /\ TurnCalculationPhase \notin {"playerStarRunning", "preparationRunning"}
          /\ wrk' = "idle" \/ Job' = "galaxy"]_vars

\* A UI wait that does not listen to conversations (WaitForTurnCalculation)
\* meets a worker held in one only in two ways: a script opened the
\* conversation during the galaxy's turn, or UI code began its wait before
\* the request was announced.
OnlyKnownHangs ==
    ui \in PlainWaits /\ wrk = "talking" /\ ~stop => Job = "galaxy" \/ ui = "codeWait"

\* A wait that listens to conversations always comes to an end.
EventWaitsEnd == \A w \in EventWaits : (ui = w) ~> (ui # w)

\* Once the loop is told to exit every screen closes, whatever conversation
\* the worker is in.
ExitCloses == ExitScreenLoop ~> (ui = "exited")
=============================================================================
