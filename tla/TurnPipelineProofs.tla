------------------------- MODULE TurnPipelineProofs -------------------------
(***************************************************************************)
(* Proofs about TurnPipeline for any number of days and conversations: its *)
(* safety invariants, and what its steps may do to the films.  EventWaits- *)
(* End and ExitCloses, which need fairness, are left to TLC.               *)
(***************************************************************************)
EXTENDS TurnPipeline, TLAPS

Jobs == {"galaxy", "playerStar", "prepare"}
Resting == {"idle", "prepared", "playerStarFinished", "galaxyFinished"}
Phases == Resting \cup {"galaxyRunning", "playerStarRunning", "preparationRunning"}
Busy == {"running", "asking", "asked", "talking"}
Films == [day : Nat, ends : Places]

FlagsOK ==
    /\ stop \in BOOLEAN /\ lost \in BOOLEAN
    /\ TalkRequest \in BOOLEAN /\ TalkCompleted \in BOOLEAN
    /\ PlayerStarDayPrepared \in BOOLEAN /\ ExitScreenLoop \in BOOLEAN
    /\ ContinueTurnCalculation \in BOOLEAN /\ FilmProgressTimer \in BOOLEAN

DataOK ==
    /\ Job \in Jobs /\ wrk \in Busy \cup {"idle", "queued"}
    /\ TurnCalculationPhase \in Phases
    /\ player \in Places
    /\ PrimaryFilm \in Films /\ SecondaryFilm \in Films
    /\ starDays \in Nat /\ galaxyDays \in Nat /\ shown \in Nat

TypeOK == FlagsOK /\ DataOK

-----------------------------------------------------------------------------
(* The invariant *)

Works(job) == Running /\ Job = job
TurnDone == wrk = "idle" /\ TurnCalculationPhase = "playerStarFinished"
GalaxyDone == wrk = "idle" /\ TurnCalculationPhase = "galaxyFinished"
Prepared == wrk = "idle" /\ TurnCalculationPhase = "prepared"

\* A recorded day waits to be shown.
NewFilm == PrimaryFilm.day > shown

\* The phases in which each job may be queued
Before == [galaxy |-> {"playerStarFinished"},
           playerStar |-> {"idle", "prepared", "galaxyFinished"},
           prepare |-> {"galaxyFinished"}]

\* The phase tells what a job may follow, and what it has done.
PhaseInv ==
    /\ wrk = "idle" => TurnCalculationPhase \in Resting
    /\ wrk = "queued" => TurnCalculationPhase \in Before[Job]
    /\ wrk \in Busy => TurnCalculationPhase = RunningPhase[Job]

\* The days and the prepared flag follow the phase.
DayInv ==
    /\ starDays = IF TurnCalculationPhase \in {"playerStarFinished", "galaxyRunning"}
                  THEN galaxyDays + 1 ELSE galaxyDays
    /\ TurnCalculationPhase \in {"preparationRunning", "prepared"} => PlayerStarDayPrepared
    /\ TurnCalculationPhase \in {"idle", "playerStarFinished", "galaxyRunning", "galaxyFinished"} =>
          ~PlayerStarDayPrepared

\* A conversation holds the worker from its request to its end.
TalkInv ==
    /\ wrk \in {"asking", "asked", "talking"} => player = "space"
    /\ wrk = "asking" => ~TalkCompleted
    /\ TalkRequest => wrk \in {"asked", "talking"} /\ ~TalkCompleted
    /\ ui = "talk" => /\ wrk \in {"asked", "talking"} /\ Job # "galaxy"
                      /\ ~TalkRequest /\ ~TalkCompleted

\* The worker is stopped only for good.
StopInv ==
    /\ stop => ui \in {"stopWait", "closeWait", "exited"} /\ dest = "exited"
    /\ ui \in {"stopWait", "closeWait"} /\ ExitScreenLoop => dest = "exited"

\* What a film that has been recorded, and one that is shown, are of.
FilmInv ==
    /\ SecondaryFilm.day = shown /\ shown <= starDays /\ PrimaryFilm.day <= starDays
    /\ NewFilm => /\ PrimaryFilm.day = starDays /\ PrimaryFilm.ends = player
                  /\ TurnDone \/ (ui = "galaxyWait" /\ dest = "film")

\* The day's film runs while the galaxy moves, or a further day has begun.
ShowsToday ==
    /\ SecondaryFilm.day = starDays /\ SecondaryFilm.ends = player
    /\ \/ player \in {"space", "port"} /\ (Works("galaxy") \/ GalaxyDone)
       \/ player \in {"dead", "hyper"} /\ TurnDone
ShowsYesterday ==
    \/ Works("playerStar") /\ player \in {"space", "port"} /\ SecondaryFilm.ends = player
    \/ TurnDone /\ NewFilm /\ SecondaryFilm.ends = "space"
    \/ TurnDone /\ ~NewFilm /\ player \in {"port", "hyper"} /\ SecondaryFilm.ends = player

GoesToPort == player = "port" /\ (Works("galaxy") \/ GalaxyDone)
GoesToJump == player = "hyper" /\ TurnDone /\ ~NewFilm

\* What each wait and screen of the star map may meet
MapInv ==
    /\ ui = "orders" => Prepared /\ player = "space"
    /\ ui \in {"turnWait", "nextWait"} =>
          (Works("playerStar") /\ player = "space") \/ (TurnDone /\ NewFilm)
    /\ ui = "prepWait" => (Works("prepare") \/ Prepared) /\ player = "space"
    /\ ui \in {"talk", "talkWait"} =>
          \/ (Works("playerStar") \/ Works("prepare") \/ Prepared) /\ player = "space"
          \/ TurnDone /\ NewFilm
    /\ ui \in {"travelWait", "prepareWait"} =>
          (Works("galaxy") \/ GalaxyDone) /\ player = "space"
    /\ ui \in {"film", "codeWait"} =>
          dest = "none" /\ IF ContinueTurnCalculation THEN ~FilmProgressTimer /\ ShowsYesterday
                                                      ELSE ShowsToday

\* What leaving it, and the screens beside it, may meet
AwayInv ==
    /\ ui \in {"stopWait", "closeWait"} => dest \in {"port", "jump", "ended", "exited"}
    /\ ui \in {"stopWait", "closeWait"} /\ dest = "ended" => player = "dead"
    /\ ui \in {"stopWait", "closeWait"} /\ dest = "jump" => GoesToJump
    /\ ui = "stopWait" /\ dest = "port" =>
          player = "port" /\ IF ContinueTurnCalculation
                             THEN Works("playerStar") \/ (TurnDone /\ ~NewFilm)
                             ELSE Works("galaxy") \/ GalaxyDone
    /\ ui = "closeWait" /\ dest = "port" => GoesToPort
    /\ ui = "stopWait" /\ dest = "exited" =>
          (Running => Job = "galaxy" \/ (ContinueTurnCalculation /\ stop))
    /\ ui = "closeWait" /\ dest = "exited" =>
          (Running => Job = "galaxy" \/ player = "hyper")
    /\ ui = "port" => player = "port" /\ wrk = "idle"
                      /\ TurnCalculationPhase \in {"idle", "galaxyFinished"}
    /\ ui = "dayWait" => \/ Works("playerStar") /\ player = "port" /\ dest \in {"film", "port"}
                         \/ TurnDone /\ dest = "film" /\ player \in {"space", "dead"} /\ NewFilm
                         \/ TurnDone /\ dest = "port" /\ player \in {"port", "dead"} /\ ~NewFilm
    /\ ui = "galaxyWait" =>
          /\ Works("galaxy") \/ GalaxyDone
          /\ \/ dest = "film" /\ player = "space" /\ NewFilm
             \/ dest = "port" /\ player = "port" /\ ~NewFilm
    /\ ui = "jump" => \/ Running /\ Job # "prepare" /\ player = "hyper"
                      \/ GalaxyDone /\ player = "hyper"
                      \/ TurnDone /\ player = "hyper" /\ ~NewFilm
                      \/ TurnDone /\ player = "space" /\ NewFilm
                      \/ TurnDone /\ player = "dead"

Control == /\ NoJobIsLost
           /\ PhaseInv /\ DayInv /\ TalkInv /\ StopInv /\ FilmInv /\ MapInv /\ AwayInv

IInv == TypeOK /\ Control

-----------------------------------------------------------------------------
(* The vocabulary of all steps *)

USE DEF Jobs, Resting, Phases, Busy, Films, Before, Places, EventWaits, RunningPhase, EmptyFilm,
        Running, Works, TurnDone, GalaxyDone, Prepared, NewFilm
USE DEF calc, talking, world, films, travel, Queue, NothingQueued, EnterPlainWait,
        SwapTurnFilms, StartTurnFilm, StartOrderMode, GalaxyUnlessAway, ShowDay

LEMMA FlagsStep == ASSUME FlagsOK, Next  PROVE FlagsOK'
<1>1. ASSUME \/ EndTurn \/ TurnIsIdle \/ NextIsIdle \/ PreparationIsIdle \/ TalkIsIdle
             \/ RunTalkDialogs \/ WaitForTurnOrTalk
      PROVE FlagsOK'
  BY <1>1, Zenon DEF FlagsOK, EndTurn, TurnIsIdle, NextIsIdle, PreparationIsIdle,
     TalkIsIdle, RunTalkDialogs, WaitForTurnOrTalk
<1>2. ASSUME \/ TimerFires \/ BreakTurnClicked \/ ExecuteUiCode \/ UiCodeDone \/ TravelWait
             \/ TravelResumes \/ NextWait \/ PrepareWait \/ Prepare
      PROVE FlagsOK'
  BY <1>2, Zenon DEF FlagsOK, TimerFires, UpdateTurnCalculation, BreakTurnClicked,
     ExecuteUiCode, UiCodeDone, TravelWait, TravelResumes, NextWait, PrepareWait,
     Prepare
<1>3. ASSUME \/ FilmLeavesMap \/ Exit \/ CloseFilm \/ CloseScreen \/ FilmStopped \/ Closed
      PROVE FlagsOK'
  BY <1>3, Zenon DEF FlagsOK, FilmLeavesMap, StopTurnFilm, Exit, CloseFilm,
     CloseScreen, FilmStopped, Closed
<1>4. ASSUME \/ CalculatePlayerStarTurn("film") \/ CalculatePlayerStarTurn("port")
             \/ DayCalculated \/ StationTravel
      PROVE FlagsOK'
  BY <1>4, Zenon DEF FlagsOK, CalculatePlayerStarTurn, DayCalculated, StationTravel
<1>5. ASSUME \/ TakenOff \/ DayPassed \/ JumpStarDay \/ JumpGalaxyDay \/ Arrive \/ JumpFails
      PROVE FlagsOK'
  BY <1>5, Zenon DEF FlagsOK, TakenOff, DayPassed, JumpStarDay, JumpGalaxyDay, Arrive, JumpFails
<1>6. ASSUME \/ Execute \/ EndPlayerStarTurn \/ EndGalaxyTurn \/ EndPreparation \/ Ask
             \/ Announce \/ EndConversation \/ OpenConversation("ship")
             \/ OpenConversation("planet")
      PROVE FlagsOK'
  BY <1>6, Zenon DEF FlagsOK, Execute, EndPlayerStarTurn, EndGalaxyTurn,
     EndPreparation, Ask, Announce, EndConversation, OpenConversation
<1> QED BY <1>1, <1>2, <1>3, <1>4, <1>5, <1>6 DEF Next, WaitReturns, WorkerProceeds

\* Orders, the waits that hear conversations, and the dialogues
LEMMA OrderSteps ==
    ASSUME IInv,
           \/ EndTurn \/ TurnIsIdle \/ NextIsIdle \/ PreparationIsIdle \/ TalkIsIdle
           \/ RunTalkDialogs \/ WaitForTurnOrTalk
    PROVE  DataOK' /\ Control'
<1> USE DEF IInv, TypeOK, FlagsOK, DataOK, Control, NoJobIsLost, PhaseInv, DayInv, TalkInv,
         StopInv, FilmInv, MapInv, AwayInv, ShowsToday, ShowsYesterday, GoesToPort, GoesToJump
<1>1. CASE EndTurn
  BY <1>1 DEF EndTurn
<1>2. CASE TurnIsIdle
  BY <1>2 DEF TurnIsIdle
<1>3. CASE NextIsIdle
  BY <1>3 DEF NextIsIdle
<1>4. CASE PreparationIsIdle
  BY <1>4 DEF PreparationIsIdle
<1>5. CASE TalkIsIdle
  BY <1>5 DEF TalkIsIdle
<1>6. CASE RunTalkDialogs
  BY <1>6 DEF RunTalkDialogs
<1>7. CASE WaitForTurnOrTalk
  BY <1>7 DEF WaitForTurnOrTalk
<1> QED BY <1>1, <1>2, <1>3, <1>4, <1>5, <1>6, <1>7

\* The film
LEMMA FilmSteps ==
    ASSUME IInv,
           \/ TimerFires \/ BreakTurnClicked \/ ExecuteUiCode \/ UiCodeDone \/ TravelWait
           \/ TravelResumes \/ NextWait \/ PrepareWait \/ Prepare
    PROVE  DataOK' /\ Control'
<1> USE DEF IInv, TypeOK, FlagsOK, DataOK, Control, NoJobIsLost, PhaseInv, DayInv, TalkInv,
         StopInv, FilmInv, MapInv, AwayInv, ShowsToday, ShowsYesterday, GoesToPort, GoesToJump
<1>1. CASE TimerFires
  <2>1. PICK travels \in BOOLEAN : MayTravel(travels) /\ UpdateTurnCalculation(travels)
    BY <1>1 DEF TimerFires
  <2>2. CASE Broken
    BY <1>1, <2>1, <2>2 DEF TimerFires, UpdateTurnCalculation, Broken
  <2>3. CASE ~Broken /\ travels /\ TurnCalculationPhase = "galaxyFinished"
    BY <1>1, <2>1, <2>3 DEF TimerFires, UpdateTurnCalculation, MayTravel
  <2>4. CASE ~Broken /\ travels /\ TurnCalculationPhase # "galaxyFinished"
    BY <1>1, <2>1, <2>4 DEF TimerFires, UpdateTurnCalculation, MayTravel
  <2>5. CASE ~Broken /\ ~travels
    BY <1>1, <2>1, <2>5 DEF TimerFires, UpdateTurnCalculation, MayTravel
  <2> QED BY <2>1, <2>2, <2>3, <2>4, <2>5
<1>2. CASE BreakTurnClicked
  BY <1>2 DEF BreakTurnClicked
<1>3. CASE ExecuteUiCode
  BY <1>3 DEF ExecuteUiCode
<1>4. CASE UiCodeDone
  BY <1>4 DEF UiCodeDone
<1>5. CASE TravelWait
  BY <1>5 DEF TravelWait, FilmOver, LeavesMap, GameIsOver, Away
<1>6. CASE TravelResumes
  BY <1>6 DEF TravelResumes, UpdateTurnCalculation, MayTravel, Broken
<1>7. CASE NextWait
  BY <1>7 DEF NextWait, FilmOver, LeavesMap, GameIsOver, Away
<1>8. CASE PrepareWait
  BY <1>8 DEF PrepareWait, FilmOver, LeavesMap, GameIsOver, Away
<1>9. CASE Prepare
  BY <1>9 DEF Prepare
<1> QED BY <1>1, <1>2, <1>3, <1>4, <1>5, <1>6, <1>7, <1>8, <1>9

\* Leaving the star map
LEMMA LeavingSteps ==
    ASSUME IInv,
           FilmLeavesMap \/ Exit \/ CloseFilm \/ CloseScreen \/ FilmStopped \/ Closed
    PROVE  DataOK' /\ Control'
<1> USE DEF IInv, TypeOK, FlagsOK, DataOK, Control, NoJobIsLost, PhaseInv, DayInv, TalkInv,
         StopInv, FilmInv, MapInv, AwayInv, ShowsToday, ShowsYesterday, GoesToPort, GoesToJump
<1>1. CASE FilmLeavesMap
  BY <1>1 DEF FilmLeavesMap, StopTurnFilm, LeavesMap, GameIsOver, Away
<1>2. CASE Exit
  BY <1>2 DEF Exit
<1>3. CASE CloseFilm
  BY <1>3 DEF CloseFilm, StopTurnFilm
<1>4. CASE CloseScreen
  BY <1>4 DEF CloseScreen
<1>5. CASE FilmStopped
  BY <1>5 DEF FilmStopped
<1>6. CASE Closed
  BY <1>6 DEF Closed
<1> QED BY <1>1, <1>2, <1>3, <1>4, <1>5, <1>6

\* The screens beside it
LEMMA AwaySteps ==
    ASSUME IInv,
           \/ CalculatePlayerStarTurn("film") \/ CalculatePlayerStarTurn("port")
           \/ DayCalculated \/ StationTravel \/ TakenOff \/ DayPassed \/ JumpStarDay
           \/ JumpGalaxyDay \/ Arrive \/ JumpFails
    PROVE  DataOK' /\ Control'
<1> USE DEF IInv, TypeOK, FlagsOK, DataOK, Control, NoJobIsLost, PhaseInv, DayInv, TalkInv,
         StopInv, FilmInv, MapInv, AwayInv, ShowsToday, ShowsYesterday, GoesToPort, GoesToJump
<1>1. CASE CalculatePlayerStarTurn("film")
  BY <1>1 DEF CalculatePlayerStarTurn
<1>2. CASE CalculatePlayerStarTurn("port")
  BY <1>2 DEF CalculatePlayerStarTurn
<1>3. CASE DayCalculated
  BY <1>3 DEF DayCalculated
<1>4. CASE StationTravel
  BY <1>4 DEF StationTravel
<1>5. CASE TakenOff
  BY <1>5 DEF TakenOff
<1>6. CASE DayPassed
  BY <1>6 DEF DayPassed
<1>7. CASE JumpStarDay
  BY <1>7 DEF JumpStarDay, JumpReady
<1>8. CASE JumpGalaxyDay
  BY <1>8 DEF JumpGalaxyDay, JumpReady
<1>9. CASE Arrive
  BY <1>9 DEF Arrive, JumpReady
<1>10. CASE JumpFails
  BY <1>10 DEF JumpFails, JumpReady
<1> QED BY <1>1, <1>2, <1>3, <1>4, <1>5, <1>6, <1>7, <1>8, <1>9, <1>10

\* The worker
LEMMA WorkerSteps ==
    ASSUME IInv,
           \/ Execute \/ EndPlayerStarTurn \/ EndGalaxyTurn \/ EndPreparation \/ Ask
           \/ Announce \/ EndConversation \/ OpenConversation("ship")
           \/ OpenConversation("planet")
    PROVE  DataOK' /\ Control'
<1> USE DEF IInv, TypeOK, FlagsOK, DataOK, Control, NoJobIsLost, PhaseInv, DayInv, TalkInv,
         StopInv, FilmInv, MapInv, AwayInv, ShowsToday, ShowsYesterday, GoesToPort, GoesToJump
<1>1. CASE Execute
  <2>1. CASE stop
    BY <1>1, <2>1 DEF Execute
  <2>2. CASE ~stop /\ Job = "galaxy"
    BY <1>1, <2>2 DEF Execute
  <2>3. CASE ~stop /\ Job = "playerStar"
    BY <1>1, <2>3 DEF Execute
  <2>4. CASE ~stop /\ Job = "prepare"
    <3>1. /\ wrk' = "running" /\ TurnCalculationPhase' = "preparationRunning"
          /\ PlayerStarDayPrepared' = TRUE /\ PrimaryFilm' = EmptyFilm
      BY <1>1, <2>4, Zenon DEF Execute
    <3>2. starDays = galaxyDays /\ ~NewFilm
      BY <1>1, <2>4 DEF Execute
    <3>3. QED BY <1>1, <2>4, <3>1, <3>2 DEF Execute
  <2> QED BY <2>1, <2>2, <2>3, <2>4
<1>2. CASE EndPlayerStarTurn
  <2>1. PICK to \in Outcomes :
           /\ player' = to
           /\ PrimaryFilm' = IF RecordFilm(to) THEN [day |-> starDays + 1, ends |-> to]
                                               ELSE PrimaryFilm
    BY <1>2 DEF EndPlayerStarTurn
  <2>2. CASE player = "space"
    BY <1>2, <2>1, <2>2 DEF EndPlayerStarTurn, Outcomes, RecordFilm
  <2>3. CASE player = "port"
    BY <1>2, <2>1, <2>3 DEF EndPlayerStarTurn, Outcomes, RecordFilm
  <2>4. CASE player = "hyper"
    BY <1>2, <2>1, <2>4 DEF EndPlayerStarTurn, Outcomes, RecordFilm
  <2>5. CASE player = "dead"
    BY <1>2, <2>1, <2>5 DEF EndPlayerStarTurn, Outcomes, RecordFilm
  <2> QED BY <2>2, <2>3, <2>4, <2>5
<1>3. CASE EndGalaxyTurn
  BY <1>3 DEF EndGalaxyTurn
<1>4. CASE EndPreparation
  BY <1>4 DEF EndPreparation
<1>5. CASE Ask
  BY <1>5 DEF Ask
<1>6. CASE Announce
  BY <1>6 DEF Announce
<1>7. CASE EndConversation
  BY <1>7 DEF EndConversation
<1>8. CASE OpenConversation("ship")
  BY <1>8 DEF OpenConversation, OnStarMap
<1>9. CASE OpenConversation("planet")
  BY <1>9 DEF OpenConversation, OnStarMap
<1> QED BY <1>1, <1>2, <1>3, <1>4, <1>5, <1>6, <1>7, <1>8, <1>9

-----------------------------------------------------------------------------
(* The invariant is inductive *)

LEMMA InitHolds == Init => IInv
<1>1. ASSUME Init  PROVE FlagsOK
  BY <1>1 DEF Init, FlagsOK
<1>2. ASSUME Init  PROVE DataOK
  BY <1>2 DEF Init, DataOK
<1>3. ASSUME Init  PROVE Control
  BY <1>3 DEF Init, Control, NoJobIsLost, PhaseInv, DayInv, TalkInv, StopInv, FilmInv, MapInv,
     AwayInv, ShowsToday, ShowsYesterday, GoesToPort, GoesToJump
<1> QED BY <1>1, <1>2, <1>3 DEF IInv, TypeOK

LEMMA Stutter == ASSUME IInv, UNCHANGED vars  PROVE IInv'
<1> USE DEF vars
<1>1. FlagsOK'
  BY DEF IInv, TypeOK, FlagsOK
<1>2. DataOK'
  BY DEF IInv, TypeOK, DataOK
<1>3. Control'
  BY DEF IInv, Control, NoJobIsLost, PhaseInv, DayInv, TalkInv, StopInv, FilmInv, MapInv,
     AwayInv, ShowsToday, ShowsYesterday, GoesToPort, GoesToJump
<1> QED BY <1>1, <1>2, <1>3 DEF IInv, TypeOK

\* In every state the phase of the calculation, the job in hand, the screen in
\* front, the player's place and the two films agree (fStarMap.pas reads them
\* one by one, without a lock, against ThreadCalc.pas).
THEOREM Agreement == Spec => []IInv
<1>1. ASSUME IInv, Next  PROVE IInv'
  <2>1. FlagsOK'
    BY <1>1, FlagsStep DEF IInv, TypeOK
  <2>2. DataOK' /\ Control'
    BY <1>1, OrderSteps, FilmSteps, LeavingSteps, AwaySteps, WorkerSteps
       DEF Next, WaitReturns, WorkerProceeds
  <2> QED BY <2>1, <2>2 DEF IInv, TypeOK
<1>2. IInv /\ [Next]_vars => IInv'
  BY <1>1, Stutter
<1> QED BY <1>2, InitHolds, PTL DEF Spec

\* The galaxy follows the player's star one turn at a time: the phase, which
\* is all that the starters test, decides whose turn it is.
THEOREM Alternation == Spec => []TurnsAlternate
<1>1. IInv => TurnsAlternate
  BY DEF IInv, TypeOK, DataOK, Control, DayInv, TurnsAlternate
<1> QED BY <1>1, Agreement, PTL

\* Wherever a screen queues a job the worker is idle (ThreadCalc.pas 70-86):
\* the waits that precede the starts are all there.
THEOREM JobsAreKept == Spec => []NoJobIsLost
<1>1. IInv => NoJobIsLost
  BY DEF IInv, Control
<1> QED BY <1>1, Agreement, PTL

\* Orders are given, and port screens change the galaxy, with the worker at
\* rest; a dialogue is shown with the worker held in its conversation.
THEOREM Exclusion == Spec => []WorldExclusive
<1>1. IInv => WorldExclusive
  BY DEF IInv, Control, TalkInv, MapInv, AwayInv, WorldExclusive
<1> QED BY <1>1, Agreement, PTL

\* A wait that hears no conversation meets one only in the galaxy's turn or
\* after a script's UI code (fStarMap.pas 8991-8995).
THEOREM HangsAreKnown == Spec => []OnlyKnownHangs
<1>1. IInv => OnlyKnownHangs
  BY DEF IInv, TypeOK, DataOK, Control, PhaseInv, TalkInv, FilmInv, MapInv, AwayInv, ShowsToday,
     ShowsYesterday, GoesToPort, GoesToJump, OnlyKnownHangs, PlainWaits
<1> QED BY <1>1, Agreement, PTL

-----------------------------------------------------------------------------
(* The films *)

\* The steps that start a film
Shows == \/ TurnIsIdle \/ NextIsIdle \/ (TalkIsIdle /\ ~PlayerStarDayPrepared)
         \/ StationTravel \/ TakenOff \/ Arrive

\* The two films are written by the player-star and preparation jobs, and
\* exchanged when one is started.
LEMMA WhoWritesFilms ==
    ASSUME Next
    PROVE  UNCHANGED <<PrimaryFilm, SecondaryFilm>> \/ Shows \/ Execute \/ EndPlayerStarTurn
<1>1. CASE \/ EndTurn \/ PreparationIsIdle \/ RunTalkDialogs \/ WaitForTurnOrTalk
           \/ TimerFires \/ BreakTurnClicked \/ ExecuteUiCode \/ UiCodeDone
           \/ TravelWait \/ TravelResumes \/ NextWait \/ PrepareWait \/ Prepare
  BY <1>1, Zenon DEF EndTurn, PreparationIsIdle, RunTalkDialogs, WaitForTurnOrTalk, TimerFires,
     BreakTurnClicked, ExecuteUiCode, UiCodeDone, TravelWait, TravelResumes, NextWait,
     PrepareWait, Prepare
<1>2. CASE \/ FilmLeavesMap \/ Exit \/ CloseFilm \/ CloseScreen \/ FilmStopped \/ Closed
           \/ CalculatePlayerStarTurn("film") \/ CalculatePlayerStarTurn("port")
           \/ DayCalculated \/ DayPassed \/ JumpStarDay \/ JumpGalaxyDay \/ JumpFails
  BY <1>2, Zenon DEF FilmLeavesMap, StopTurnFilm, Exit, CloseFilm, CloseScreen, FilmStopped,
     Closed, CalculatePlayerStarTurn, DayCalculated, DayPassed, JumpStarDay, JumpGalaxyDay,
     JumpFails
<1>3. CASE \/ EndGalaxyTurn \/ EndPreparation \/ Ask \/ Announce \/ EndConversation
           \/ OpenConversation("ship") \/ OpenConversation("planet")
  BY <1>3, Zenon DEF EndGalaxyTurn, EndPreparation, Ask, Announce, EndConversation,
     OpenConversation
<1>4. CASE TalkIsIdle /\ PlayerStarDayPrepared
  BY <1>4, Zenon DEF TalkIsIdle
<1> QED BY <1>1, <1>2, <1>3, <1>4 DEF Next, WaitReturns, WorkerProceeds, Shows

\* A film is started with a new one recorded and no job that writes it.
LEMMA FilmStarts ==
    ASSUME IInv, Shows
    PROVE  /\ SecondaryFilm' = PrimaryFilm /\ NewFilm
           /\ TurnCalculationPhase \notin {"playerStarRunning", "preparationRunning"}
           /\ wrk' = "idle" \/ Job' = "galaxy"
<1> USE DEF IInv, TypeOK, FlagsOK, DataOK, Control, PhaseInv, DayInv, FilmInv, MapInv, AwayInv
<1>1. CASE TurnIsIdle
  BY <1>1 DEF TurnIsIdle
<1>2. CASE NextIsIdle
  BY <1>2 DEF NextIsIdle
<1>3. CASE TalkIsIdle /\ ~PlayerStarDayPrepared
  BY <1>3 DEF TalkIsIdle
<1>4. CASE StationTravel
  BY <1>4 DEF StationTravel
<1>5. CASE TakenOff
  BY <1>5 DEF TakenOff
<1>6. CASE Arrive
  BY <1>6 DEF Arrive, JumpReady
<1> QED BY <1>1, <1>2, <1>3, <1>4, <1>5, <1>6 DEF Shows

\* The worker does not write over a film that is yet to be shown.
LEMMA FilmIsKept ==
    ASSUME IInv, Execute \/ EndPlayerStarTurn
    PROVE  SecondaryFilm' = SecondaryFilm /\ (NewFilm => PrimaryFilm' = PrimaryFilm)
<1> USE DEF IInv, TypeOK, FlagsOK, DataOK, Control, PhaseInv, DayInv, FilmInv, MapInv, AwayInv
<1>1. CASE Execute
  BY <1>1 DEF Execute
<1>2. CASE EndPlayerStarTurn
  BY <1>2 DEF EndPlayerStarTurn
<1> QED BY <1>1, <1>2

\* A recorded day leaves PrimaryFilm only to be shown, and every film that is
\* started shows a day that has not been shown before (fStarMap.pas
\* SwapTurnFilms against the recording of ThreadCalc.pas 113-120).
THEOREM DaysAreShownOnce == Spec => EveryDayIsShownOnce
<1>1. IInv /\ [Next]_vars =>
         [/\ PrimaryFilm.day > shown => PrimaryFilm' = PrimaryFilm \/ SecondaryFilm' = PrimaryFilm
          /\ SecondaryFilm' # SecondaryFilm => PrimaryFilm.day > shown]_vars
  BY WhoWritesFilms, FilmStarts, FilmIsKept
<1> QED BY <1>1, Agreement, PTL DEF Spec, EveryDayIsShownOnce

\* The films change places only while no job that writes PrimaryFilm runs, and
\* none is queued by then.
THEOREM SwapsAreAtRest == Spec => FilmsSwapAtRest
<1>1. IInv /\ [Next]_vars =>
         [SecondaryFilm' # SecondaryFilm =>
             /\ TurnCalculationPhase \notin {"playerStarRunning", "preparationRunning"}
             /\ wrk' = "idle" \/ Job' = "galaxy"]_vars
  BY WhoWritesFilms, FilmStarts, FilmIsKept
<1> QED BY <1>1, Agreement, PTL DEF Spec, FilmsSwapAtRest
=============================================================================
