---------------------------- MODULE WorkerProofs ----------------------------
(***************************************************************************)
(* Proofs about Worker for any number of clients and jobs: its types, its  *)
(* safety invariants and the step simulation of JobService.  The temporal  *)
(* half of ImplementsJobService and DestroyReturns are left to TLC.        *)
(***************************************************************************)
EXTENDS Worker, TLAPS

\* Who holds Lock is where it is in Start or in ProcessRequests.
LockInv ==
    /\ \A c \in Client : cpc[c] \in HoldingLock <=> lock = c
    /\ lock = WorkerThread <=> wpc \in {"publishing", "publishingFailed"}

BusyStates == {"executing", "caught", "ended", "failed", "publishing", "publishingFailed"}

\* The job that has been accepted and has not ended: Start is about to signal
\* it, it waits in StartEvent, or it executes.
Announced == \E c \in Client : cpc[c] \in {"startRunning", "startSignal"}
Unfinished == Announced \/ StartEvent \/ wpc = "executing"

\* The idle event against the worker's and the starters' positions.
PhaseInv ==
    /\ \A c \in Client : cpc[c] \in {"startReset", "startIdle"} => IdleEvent
    /\ \A c \in Client : cpc[c] \in {"startRunning", "startSignal"} =>
                            ~IdleEvent /\ ~StartEvent
    /\ \A c \in Client : cpc[c] \in HoldingLock => wpc = "waiting"
    /\ StartEvent => ~IdleEvent /\ wpc \in {"waiting", "exited"}
    /\ wpc \in BusyStates => ~IdleEvent /\ ~StartEvent
    /\ ~IdleEvent => Unfinished \/ wpc \in BusyStates

\* Every accepted job is executed once: one at most is unfinished.
CountInv == accepted = IF Unfinished THEN executed + 1 ELSE executed

\* A failure is the end of the worker's last job.
FailureInv ==
    /\ Failure => wpc \in {"failed", "publishingFailed", "exited"} /\ ~StartEvent
    /\ wpc \in {"failed", "publishingFailed"} => Failure
    /\ failedJob # 0 <=> Failure \/ wpc = "caught"
    /\ failedJob # 0 => failedJob = executed
    /\ wpc = "exited" => Failure \/ Destroying
    /\ Failure /\ wpc = "exited" => IdleEvent

\* What a waiter has learnt when it comes to look for the failure, and what
\* its answer keeps saying.
AnswerInv ==
    /\ \A c \in Client : ticket[c] <= accepted
    /\ \A c \in Client : cpc[c] \in StartSteps => answer[c] = "none"
    /\ \A c \in Client : cpc[c] = "waitCheck" =>
          /\ ticket[c] <= executed
          /\ failedJob = 0 \/ ticket[c] < failedJob \/ Failure

StopInv == stopOwed => StopRequested /\ StopEvent /\ Outstanding

DestroyInv ==
    /\ Destroying => /\ StopRequested
                     /\ \A c \in Client \ {Owner} : cpc[c] = "outside"
    /\ ShutdownEvent => Destroying
    /\ \A c \in Client \ {Owner} : cpc[c] \notin {"destroyShutdown", "destroyJoin", "destroyed"}

IInv == /\ TypeOK /\ LockInv /\ PhaseInv /\ CountInv /\ FailureInv
        /\ AnswerInv /\ StopInv /\ DestroyInv /\ WaitReportsTheJob

-----------------------------------------------------------------------------
\* Every variable keeps its type, for any number of clients and jobs
\* (the whole of TThreadEC).
THEOREM TypeCorrect == Spec => []TypeOK
<1>1. ASSUME Init  PROVE TypeOK
  <2>1. Failure \in BOOLEAN /\ endless \in BOOLEAN /\ stopOwed \in BOOLEAN
    BY <1>1 DEF Init
  <2>2. /\ StopRequested \in BOOLEAN /\ StopEvent \in BOOLEAN /\ ShutdownEvent \in BOOLEAN
        /\ StartEvent \in BOOLEAN /\ RunningEvent \in BOOLEAN /\ IdleEvent \in BOOLEAN
    BY <1>1 DEF Init
  <2>3. /\ lock \in Client \cup {WorkerThread, Nobody}
        /\ wpc \in WorkerStates
        /\ cpc \in [Client -> ClientSteps]
        /\ answer \in [Client -> Answers]
        /\ accepted \in Nat /\ executed \in Nat /\ failedJob \in Nat
        /\ ticket \in [Client -> Nat]
    BY <1>1, WorkerAssumption DEF Init, ClientSteps, StartSteps, WorkerStates, Answers
  <2>4. QED
    BY <2>1, <2>2, <2>3 DEF TypeOK
<1>2. ASSUME TypeOK, [Next]_vars  PROVE TypeOK'
  <2> USE <1>2, WorkerAssumption DEF TypeOK, ClientSteps, StartSteps, WorkerStates, Answers,
         Returns, Goto, Answer, MayCall, vars, events, history
  <2>1. ASSUME NEW c \in Client, StartCheck(c)  PROVE TypeOK'
    BY <2>1 DEF StartCheck
  <2>2. ASSUME NEW c \in Client, StartEnter(c)  PROVE TypeOK'
    BY <2>2 DEF StartEnter
  <2>3. ASSUME NEW c \in Client, StartReset(c)  PROVE TypeOK'
    <3>1. StopEvent' \in BOOLEAN /\ StopRequested' \in BOOLEAN
      BY <2>3 DEF StartReset
    <3>2. QED
      BY <2>3, <3>1 DEF StartReset
  <2>4. ASSUME NEW c \in Client, StartIdle(c)  PROVE TypeOK'
    <3>1. IdleEvent' \in BOOLEAN /\ endless' \in BOOLEAN
      BY <2>4 DEF StartIdle
    <3>2. QED
      BY <2>4, <3>1 DEF StartIdle
  <2>5. ASSUME NEW c \in Client, StartRunning(c)  PROVE TypeOK'
    BY <2>5 DEF StartRunning
  <2>6. ASSUME NEW c \in Client, StartSignal(c)  PROVE TypeOK'
    BY <2>6 DEF StartSignal
  <2>7. ASSUME NEW c \in Client, RequestStop(c)  PROVE TypeOK'
    BY <2>7 DEF RequestStop
  <2>8. ASSUME NEW c \in Client, ClearStop(c)  PROVE TypeOK'
    BY <2>8 DEF ClearStop
  <2>9. ASSUME NEW c \in Client, IsRunningCheck(c)  PROVE TypeOK'
    BY <2>9 DEF IsRunningCheck
  <2>10. ASSUME NEW c \in Client, IsRunningTest(c)  PROVE TypeOK'
    BY <2>10 DEF IsRunningTest
  <2>11. ASSUME NEW c \in Client, WaitForIdle(c)  PROVE TypeOK'
    BY <2>11 DEF WaitForIdle
  <2>12. ASSUME NEW c \in Client, WaitEnds(c)  PROVE TypeOK'
    BY <2>12 DEF WaitEnds
  <2>13. ASSUME NEW c \in Client, WaitCheck(c)  PROVE TypeOK'
    BY <2>13 DEF WaitCheck
  <2>14. CASE DestroyStop
    BY <2>14 DEF DestroyStop
  <2>15. CASE DestroyShutdown
    BY <2>15 DEF DestroyShutdown
  <2>16. CASE DestroyJoin
    BY <2>16 DEF DestroyJoin
  <2>17. CASE TakeShutdown
    BY <2>17 DEF TakeShutdown
  <2>18. CASE TakeStart
    BY <2>18 DEF TakeStart
  <2>19. CASE ExecuteReturns
    <3>1. stopOwed' \in BOOLEAN
      BY <2>19 DEF ExecuteReturns, EndExecute
    <3>2. QED
      BY <2>19, <3>1 DEF ExecuteReturns, EndExecute
  <2>20. CASE ExecuteRaises
    <3>1. stopOwed' \in BOOLEAN
      BY <2>20 DEF ExecuteRaises, EndExecute
    <3>2. QED
      BY <2>20, <3>1 DEF ExecuteRaises, EndExecute
  <2>21. CASE StoreFailure
    BY <2>21 DEF StoreFailure
  <2>22. CASE PublishRunning
    BY <2>22 DEF PublishRunning
  <2>23. CASE PublishIdle
    BY <2>23 DEF PublishIdle
  <2>24. CASE Destroyed \/ UNCHANGED vars
    BY <2>24 DEF Destroyed
  <2>25. QED
    BY <1>2, <2>1, <2>2, <2>3, <2>4, <2>5, <2>6, <2>7, <2>8, <2>9, <2>10, <2>11, <2>12, <2>13, <2>14, <2>15, <2>16, <2>17, <2>18, <2>19, <2>20, <2>21, <2>22, <2>23, <2>24 DEF Next, ClientCalls, ClientProceeds, StartProceeds, DestroyProceeds, WorkerProceeds
<1>3. QED
  BY <1>1, <1>2, PTL DEF Spec

\* The inductive invariant: IdleMeansDone, WaitReportsTheJob and
\* StopReachesTheJob follow from it.
THEOREM Inductive == Spec => []IInv
<1>1. ASSUME Init, TypeOK  PROVE IInv
  <2> USE <1>1, WorkerAssumption DEF Init
  <2>1. LockInv /\ PhaseInv /\ CountInv
    BY DEF LockInv, HoldingLock, StartSteps, PhaseInv, BusyStates, Announced, Unfinished, CountInv
  <2>2. FailureInv /\ StopInv
    BY DEF FailureInv, StopInv
  <2>3. AnswerInv /\ DestroyInv /\ WaitReportsTheJob
    BY DEF AnswerInv, StartSteps, DestroyInv, Destroying, WaitReportsTheJob
  <2>4. QED
    BY <2>1, <2>2, <2>3 DEF IInv
<1>2. ASSUME IInv, TypeOK', [Next]_vars  PROVE IInv'
  <2> DEFINE Rest == LockInv /\ PhaseInv /\ CountInv /\ FailureInv
                     /\ AnswerInv /\ StopInv /\ DestroyInv /\ WaitReportsTheJob
  <2> SUFFICES Rest'
    BY <1>2 DEF IInv
  <2> USE <1>2, WorkerAssumption DEF IInv, TypeOK, ClientSteps, StartSteps, HoldingLock, WorkerStates, Answers,
       LockInv, PhaseInv, BusyStates, Announced, Unfinished, CountInv, FailureInv,
       AnswerInv, StopInv, Outstanding, DestroyInv, Destroying, WaitReportsTheJob,
       Returns, Goto, Answer, MayCall, vars, events, history
  <2>1. ASSUME NEW c \in Client, StartCheck(c)  PROVE Rest'
    BY <2>1 DEF StartCheck
  <2>2. ASSUME NEW c \in Client, StartEnter(c)  PROVE Rest'
    BY <2>2 DEF StartEnter
  <2>3. ASSUME NEW c \in Client, StartReset(c)  PROVE Rest'
    BY <2>3 DEF StartReset
  <2>4. ASSUME NEW c \in Client, StartIdle(c)  PROVE Rest'
    BY <2>4 DEF StartIdle
  <2>5. ASSUME NEW c \in Client, StartRunning(c)  PROVE Rest'
    BY <2>5 DEF StartRunning
  <2>6. ASSUME NEW c \in Client, StartSignal(c)  PROVE Rest'
    BY <2>6 DEF StartSignal
  <2>7. ASSUME NEW c \in Client, RequestStop(c)  PROVE Rest'
    BY <2>7 DEF RequestStop
  <2>8. ASSUME NEW c \in Client, ClearStop(c)  PROVE Rest'
    BY <2>8 DEF ClearStop
  <2>9. ASSUME NEW c \in Client, IsRunningCheck(c)  PROVE Rest'
    BY <2>9 DEF IsRunningCheck
  <2>10. ASSUME NEW c \in Client, IsRunningTest(c)  PROVE Rest'
    BY <2>10 DEF IsRunningTest
  <2>11. ASSUME NEW c \in Client, WaitForIdle(c)  PROVE Rest'
    BY <2>11 DEF WaitForIdle
  <2>12. ASSUME NEW c \in Client, WaitEnds(c)  PROVE Rest'
    BY <2>12 DEF WaitEnds
  <2>13. ASSUME NEW c \in Client, WaitCheck(c)  PROVE Rest'
    BY <2>13 DEF WaitCheck
  <2>14. CASE DestroyStop
    BY <2>14 DEF DestroyStop
  <2>15. CASE DestroyShutdown
    BY <2>15 DEF DestroyShutdown
  <2>16. CASE DestroyJoin
    BY <2>16 DEF DestroyJoin
  <2>17. CASE TakeShutdown
    BY <2>17 DEF TakeShutdown
  <2>18. CASE TakeStart
    BY <2>18 DEF TakeStart
  <2>19. CASE ExecuteReturns
    BY <2>19 DEF ExecuteReturns, EndExecute
  <2>20. CASE ExecuteRaises
    BY <2>20 DEF ExecuteRaises, EndExecute
  <2>21. CASE StoreFailure
    BY <2>21 DEF StoreFailure
  <2>22. CASE PublishRunning
    BY <2>22 DEF PublishRunning
  <2>23. CASE PublishIdle
    BY <2>23 DEF PublishIdle
  <2>24. CASE Destroyed \/ UNCHANGED vars
    <3> USE <2>24 DEF Destroyed, vars, events, history
    <3>1. LockInv' /\ PhaseInv' /\ CountInv'
      BY DEF LockInv, PhaseInv, Announced, Unfinished, CountInv
    <3>2. FailureInv' /\ StopInv' /\ DestroyInv'
      BY DEF FailureInv, StopInv, Outstanding, DestroyInv, Destroying
    <3>3. AnswerInv' /\ WaitReportsTheJob'
      BY DEF AnswerInv, WaitReportsTheJob
    <3>4. QED
      BY <3>1, <3>2, <3>3
  <2>25. QED
    BY <2>1, <2>2, <2>3, <2>4, <2>5, <2>6, <2>7, <2>8, <2>9, <2>10, <2>11, <2>12, <2>13, <2>14, <2>15, <2>16, <2>17, <2>18, <2>19, <2>20, <2>21, <2>22, <2>23, <2>24 DEF Next, ClientCalls, ClientProceeds, StartProceeds,
       DestroyProceeds, WorkerProceeds
<1>3. QED
  BY <1>1, <1>2, TypeCorrect, PTL DEF Spec

\* An idle worker has nothing left of what it accepted.
THEOREM IdleIsDone == Spec => []IdleMeansDone
<1>1. ASSUME IInv  PROVE IdleMeansDone
  BY <1>1 DEF IInv, TypeOK, WorkerStates, PhaseInv, BusyStates, Announced, Unfinished,
     CountInv, IdleMeansDone
<1>2. QED
  BY <1>1, Inductive, PTL

\* Whoever started a job and waited for it knows how it ended.
THEOREM WaitIsTruthful == Spec => []WaitReportsTheJob
<1>1. IInv => WaitReportsTheJob
  BY DEF IInv
<1>2. QED
  BY <1>1, Inductive, PTL

\* No Start takes back the stop of a job that has not ended.
THEOREM StopIsDelivered == Spec => []StopReachesTheJob
<1>1. IInv => StopReachesTheJob
  BY DEF IInv, StopInv, StopReachesTheJob
<1>2. QED
  BY <1>1, Inductive, PTL

\* The worker is a JobService as far as safety goes: each of its steps is one
\* of the service's steps or leaves the service alone.
THEOREM Simulation == Spec => Jobs!Init /\ [][Jobs!Next]_status
<1>1. Init => Jobs!Init
  BY DEF Init, Jobs!Init, status
<1>2. ASSUME IInv, IInv', [Next]_vars  PROVE [Jobs!Next]_status
  <2> USE <1>2, WorkerAssumption DEF MayCall, status, OpenEnded, events, history,
       IInv, TypeOK, WorkerStates, LockInv, HoldingLock, StartSteps, PhaseInv, BusyStates,
       Announced, Unfinished, FailureInv, DestroyInv, Destroying,
       Jobs!Next, Jobs!Accept, Jobs!Cancel, Jobs!Withdraw, Jobs!Complete, Jobs!Fail, Jobs!Retire
  <2>1. ASSUME NEW c \in Client,
               \/ StartCheck(c) \/ StartEnter(c) \/ StartRunning(c) \/ StartSignal(c)
               \/ IsRunningCheck(c) \/ IsRunningTest(c)
               \/ WaitForIdle(c) \/ WaitEnds(c) \/ WaitCheck(c)
        PROVE  UNCHANGED status
    BY <2>1 DEF StartCheck, StartEnter, StartRunning, StartSignal, IsRunningCheck,
       IsRunningTest, WaitForIdle, WaitEnds, WaitCheck
  <2>2. ASSUME NEW c \in Client, StartReset(c)  PROVE [Jobs!Next]_status
    BY <2>2 DEF StartReset
  <2>3. ASSUME NEW c \in Client, StartIdle(c)  PROVE [Jobs!Next]_status
    BY <2>3 DEF StartIdle
  <2>4. ASSUME NEW c \in Client, RequestStop(c)  PROVE [Jobs!Next]_status
    BY <2>4 DEF RequestStop
  <2>5. ASSUME NEW c \in Client, ClearStop(c)  PROVE [Jobs!Next]_status
    BY <2>5 DEF ClearStop
  <2>6. CASE DestroyStop
    BY <2>6 DEF DestroyStop
  <2>7. CASE DestroyShutdown
    BY <2>7 DEF DestroyShutdown
  <2>8. CASE DestroyJoin
    BY <2>8 DEF DestroyJoin
  <2>9. CASE TakeShutdown
    BY <2>9 DEF TakeShutdown
  <2>10. CASE TakeStart
    BY <2>10 DEF TakeStart
  <2>11. CASE ExecuteReturns
    BY <2>11 DEF ExecuteReturns, EndExecute
  <2>12. CASE ExecuteRaises
    BY <2>12 DEF ExecuteRaises, EndExecute
  <2>13. CASE StoreFailure
    BY <2>13 DEF StoreFailure
  <2>14. CASE PublishRunning
    BY <2>14 DEF PublishRunning
  <2>15. CASE PublishIdle
    BY <2>15 DEF PublishIdle
  <2>16. CASE Destroyed \/ UNCHANGED vars
    BY <2>16 DEF Destroyed, vars
  <2>17. QED
    BY <2>1, <2>2, <2>3, <2>4, <2>5, <2>6, <2>7, <2>8, <2>9, <2>10, <2>11, <2>12, <2>13, <2>14, <2>15, <2>16 DEF Next, ClientCalls, ClientProceeds, StartProceeds,
       DestroyProceeds, WorkerProceeds
<1>3. QED
  BY <1>1, <1>2, Inductive, PTL DEF Spec
=============================================================================
