------------------------------- MODULE Worker -------------------------------
(***************************************************************************)
(* source/core/EC_Thread.pas: TThreadEC, the worker every background task  *)
(* of the game derives from.  Clients queue a job with Start, poll with    *)
(* IsRunning, wait with WaitForIdle, cancel with RequestStop and finally   *)
(* destroy the object; the worker thread loops in ProcessRequests.         *)
(*                                                                         *)
(* A critical section of Lock is one action, except those of Start and of  *)
(* ProcessRequests that change several events: waiters read the events     *)
(* without Lock, so each event operation is a step of its own while the    *)
(* lock is held.  Waits are the atomic waits of EventWaits.                *)
(***************************************************************************)
EXTENDS Naturals

CONSTANTS Client,       \* threads that use the worker
          Owner,        \* the client that destroys it
          WorkerThread, Nobody,
          MaxStarts     \* bound on the accepted jobs

ASSUME WorkerAssumption == /\ Owner \in Client
                           /\ WorkerThread \notin Client
                           /\ Nobody \notin Client \cup {WorkerThread}
                           /\ MaxStarts \in Nat

VARIABLES
    lock,           \* holder of Lock
    StopRequested, StopEvent, ShutdownEvent, StartEvent, RunningEvent, IdleEvent,
    Failure,        \* a report is stored
    endless,        \* the last accepted job ends only when it is stopped
    wpc,            \* worker: "waiting", "executing", "caught", "ended", "failed",
                    \* "publishing", "publishingFailed" or "exited"
    cpc,            \* client -> "outside" or the step of the call it is in
    answer,         \* client -> what its last call told it
    accepted,       \* number of jobs Start has accepted              (history)
    executed,       \* number of Execute calls that have ended        (history)
    failedJob,      \* number of the job that raised, 0 when none did (history)
    ticket,         \* client -> number of the last job it started    (history)
    stopOwed        \* the job in progress was asked to stop          (history)

events  == <<StopEvent, ShutdownEvent, StartEvent, RunningEvent, IdleEvent>>
history == <<accepted, executed, failedJob, ticket, stopOwed>>
vars    == <<lock, StopRequested, events, Failure, endless, wpc, cpc, answer, history>>

StartSteps  == {"startLock", "startReset", "startIdle", "startRunning", "startSignal"}
HoldingLock == StartSteps \ {"startLock"}

-----------------------------------------------------------------------------
Init == /\ lock = Nobody
        /\ StopRequested = FALSE
        /\ StopEvent = FALSE /\ ShutdownEvent = FALSE /\ StartEvent = FALSE
        /\ RunningEvent = FALSE /\ IdleEvent = TRUE
        /\ Failure = FALSE /\ endless = FALSE
        /\ wpc = "waiting"
        /\ cpc = [c \in Client |-> "outside"]
        /\ answer = [c \in Client |-> "none"]
        /\ accepted = 0 /\ executed = 0 /\ failedJob = 0
        /\ ticket = [c \in Client |-> 0]
        /\ stopOwed = FALSE

Destroying == cpc[Owner] \in {"destroyShutdown", "destroyJoin", "destroyed"}

\* The owner destroys the worker when nobody else uses it.
MayCall(c) == cpc[c] = "outside" /\ ~Destroying

\* A job is between its acceptance and the end of its Execute.
Outstanding == StartEvent \/ wpc = "executing"

Goto(c, step) == cpc' = [cpc EXCEPT ![c] = step]
Answer(c, a)  == answer' = [answer EXCEPT ![c] = a]
Returns(c, a) == Goto(c, "outside") /\ Answer(c, a)

-----------------------------------------------------------------------------
\* Start, line 227: CheckFailure before the lock is taken.
StartCheck(c) ==
    /\ MayCall(c) /\ accepted < MaxStarts
    /\ lock = Nobody
    /\ \/ Failure /\ Returns(c, "raised")
       \/ ~Failure /\ Goto(c, "startLock") /\ Answer(c, "none")
    /\ UNCHANGED <<lock, StopRequested, events, Failure, endless, wpc, history>>

\* A slip: the lock is taken, and the request made, without asking IsRunning.
StartUnguarded(c) ==
    /\ cpc[c] = "startLock" /\ lock = Nobody
    /\ lock' = c /\ Goto(c, "startReset")
    /\ UNCHANGED <<StopRequested, events, Failure, endless, wpc, answer, history>>

\* Lines 228-231: Lock is taken, and IsRunning, inside it, raises, sends the
\* caller away, or lets it go on.
StartEnter(c) ==
    /\ cpc[c] = "startLock" /\ lock = Nobody
    /\ \/ Failure /\ Returns(c, "raised") /\ UNCHANGED lock
       \/ ~Failure /\ ~IdleEvent /\ Returns(c, "busy") /\ UNCHANGED lock
       \/ ~Failure /\ IdleEvent /\ lock' = c /\ Goto(c, "startReset") /\ UNCHANGED answer
    /\ UNCHANGED <<StopRequested, events, Failure, endless, wpc, history>>

StartReset(c) ==
    /\ cpc[c] = "startReset"
    /\ StopEvent' = FALSE /\ StopRequested' = FALSE
    /\ Goto(c, "startIdle")
    /\ UNCHANGED <<lock, ShutdownEvent, StartEvent, RunningEvent, IdleEvent,
                   Failure, endless, wpc, answer, history>>

StartIdle(c) ==
    /\ cpc[c] = "startIdle"
    /\ IdleEvent' = FALSE
    /\ endless' \in BOOLEAN
    /\ accepted' = accepted + 1
    /\ ticket' = [ticket EXCEPT ![c] = accepted + 1]
    /\ Goto(c, "startRunning")
    /\ UNCHANGED <<lock, StopRequested, StopEvent, ShutdownEvent, StartEvent, RunningEvent,
                   Failure, wpc, answer, executed, failedJob, stopOwed>>

StartRunning(c) ==
    /\ cpc[c] = "startRunning"
    /\ RunningEvent' = TRUE
    /\ Goto(c, "startSignal")
    /\ UNCHANGED <<lock, StopRequested, StopEvent, ShutdownEvent, StartEvent, IdleEvent,
                   Failure, endless, wpc, answer, history>>

StartSignal(c) ==
    /\ cpc[c] = "startSignal"
    /\ StartEvent' = TRUE
    /\ lock' = Nobody
    /\ Returns(c, "started")
    /\ UNCHANGED <<StopRequested, StopEvent, ShutdownEvent, RunningEvent, IdleEvent,
                   Failure, endless, wpc, history>>

\* RequestStop, lines 197-203.
RequestStop(c) ==
    /\ MayCall(c) /\ lock = Nobody
    /\ StopRequested' = TRUE /\ StopEvent' = TRUE
    /\ stopOwed' = (stopOwed \/ Outstanding)
    /\ Answer(c, "none")
    /\ UNCHANGED <<lock, ShutdownEvent, StartEvent, RunningEvent, IdleEvent, Failure, endless,
                   wpc, cpc, accepted, executed, failedJob, ticket>>

\* SetStopRequested(False), lines 218-221: the stop is withdrawn.
ClearStop(c) ==
    /\ MayCall(c) /\ lock = Nobody
    /\ StopRequested' = FALSE /\ StopEvent' = FALSE
    /\ stopOwed' = FALSE
    /\ Answer(c, "none")
    /\ UNCHANGED <<lock, ShutdownEvent, StartEvent, RunningEvent, IdleEvent, Failure, endless,
                   wpc, cpc, accepted, executed, failedJob, ticket>>

\* IsRunning, lines 242-246: the failure is looked at first, the event later.
IsRunningCheck(c) ==
    /\ MayCall(c) /\ lock = Nobody
    /\ \/ Failure /\ Returns(c, "raised")
       \/ ~Failure /\ Goto(c, "isRunningTest") /\ Answer(c, "none")
    /\ UNCHANGED <<lock, StopRequested, events, Failure, endless, wpc, history>>

IsRunningTest(c) ==
    /\ cpc[c] = "isRunningTest"
    /\ Returns(c, IF IdleEvent THEN "notRunning" ELSE "running")
    /\ UNCHANGED <<lock, StopRequested, events, Failure, endless, wpc, history>>

\* WaitForIdle(INFINITE), lines 248-252: the event first, the failure later.
WaitForIdle(c) ==
    /\ MayCall(c)
    /\ Goto(c, "waitIdle") /\ Answer(c, "none")
    /\ UNCHANGED <<lock, StopRequested, events, Failure, endless, wpc, history>>

WaitEnds(c) ==
    /\ cpc[c] = "waitIdle" /\ IdleEvent
    /\ Goto(c, "waitCheck")
    /\ UNCHANGED <<lock, StopRequested, events, Failure, endless, wpc, answer, history>>

\* A slip: the wait returns without asking for the failure.
WaitUnchecked(c) ==
    /\ cpc[c] = "waitCheck" /\ lock = Nobody
    /\ Returns(c, "idle")
    /\ UNCHANGED <<lock, StopRequested, events, Failure, endless, wpc, history>>

WaitCheck(c) ==
    /\ cpc[c] = "waitCheck" /\ lock = Nobody
    /\ Returns(c, IF Failure THEN "raised" ELSE "idle")
    /\ UNCHANGED <<lock, StopRequested, events, Failure, endless, wpc, history>>

\* A slip: the destructor joins the worker without asking its job to stop.
DestroyNoStop ==
    /\ MayCall(Owner) /\ \A c \in Client : cpc[c] = "outside"
    /\ lock = Nobody
    /\ Goto(Owner, "destroyShutdown") /\ Answer(Owner, "none")
    /\ UNCHANGED <<lock, StopRequested, events, Failure, endless, wpc, history>>

\* Destroy, lines 103-109.
DestroyStop ==
    /\ MayCall(Owner) /\ \A c \in Client : cpc[c] = "outside"
    /\ lock = Nobody
    /\ StopRequested' = TRUE /\ StopEvent' = TRUE
    /\ stopOwed' = (stopOwed \/ Outstanding)
    /\ Goto(Owner, "destroyShutdown") /\ Answer(Owner, "none")
    /\ UNCHANGED <<lock, ShutdownEvent, StartEvent, RunningEvent, IdleEvent, Failure, endless,
                   wpc, accepted, executed, failedJob, ticket>>

DestroyShutdown ==
    /\ cpc[Owner] = "destroyShutdown"
    /\ ShutdownEvent' = TRUE
    /\ Goto(Owner, "destroyJoin")
    /\ UNCHANGED <<lock, StopRequested, StopEvent, StartEvent, RunningEvent, IdleEvent,
                   Failure, endless, wpc, answer, history>>

DestroyJoin ==
    /\ cpc[Owner] = "destroyJoin" /\ wpc = "exited"
    /\ Goto(Owner, "destroyed")
    /\ UNCHANGED <<lock, StopRequested, events, Failure, endless, wpc, answer, history>>

-----------------------------------------------------------------------------
\* ProcessRequests, line 144: both events are auto-reset, and the shutdown has
\* the smaller index, so a request that waits beside it is dropped.
TakeShutdown ==
    /\ wpc = "waiting" /\ ShutdownEvent
    /\ ShutdownEvent' = FALSE
    /\ wpc' = "exited"
    /\ UNCHANGED <<lock, StopRequested, StopEvent, StartEvent, RunningEvent, IdleEvent,
                   Failure, endless, cpc, answer, history>>

TakeStart ==
    /\ wpc = "waiting" /\ ~ShutdownEvent /\ StartEvent
    /\ StartEvent' = FALSE
    /\ wpc' = "executing"
    /\ UNCHANGED <<lock, StopRequested, StopEvent, ShutdownEvent, RunningEvent, IdleEvent,
                   Failure, endless, cpc, answer, history>>

EndExecute(outcome) ==
    /\ wpc = "executing"
    /\ wpc' = outcome
    /\ executed' = executed + 1
    /\ stopOwed' = FALSE
    /\ failedJob' = IF outcome = "caught" THEN executed + 1 ELSE failedJob
    /\ UNCHANGED <<lock, StopRequested, events, Failure, endless, cpc, answer, accepted, ticket>>

\* Execute returns, by itself or because it saw the stop, or raises.
ExecuteReturns == (endless => StopRequested) /\ EndExecute("ended")
ExecuteRaises  == EndExecute("caught")

\* Lines 149-160: the report is stored under Lock.
StoreFailure ==
    /\ wpc = "caught" /\ lock = Nobody
    /\ Failure' = TRUE
    /\ wpc' = "failed"
    /\ UNCHANGED <<endless, lock, StopRequested, events, cpc, answer, history>>

\* Lines 161-163.
PublishRunning ==
    /\ wpc \in {"ended", "failed"} /\ lock = Nobody
    /\ lock' = WorkerThread
    /\ RunningEvent' = FALSE
    /\ wpc' = IF wpc = "ended" THEN "publishing" ELSE "publishingFailed"
    /\ UNCHANGED <<StopRequested, StopEvent, ShutdownEvent, StartEvent, IdleEvent,
                   Failure, endless, cpc, answer, history>>

\* A slip: a failed worker leaves without publishing its end.
PublishIdleUnlessFailed ==
    /\ wpc \in {"publishing", "publishingFailed"}
    /\ IdleEvent' = (wpc = "publishing")
    /\ lock' = Nobody
    /\ wpc' = IF wpc = "publishing" THEN "waiting" ELSE "exited"
    /\ UNCHANGED <<StopRequested, StopEvent, ShutdownEvent, StartEvent, RunningEvent,
                   Failure, endless, cpc, answer, history>>

\* Lines 164-170: completion is published after a failure too.
PublishIdle ==
    /\ wpc \in {"publishing", "publishingFailed"}
    /\ IdleEvent' = TRUE
    /\ lock' = Nobody
    /\ wpc' = IF wpc = "publishing" THEN "waiting" ELSE "exited"
    /\ UNCHANGED <<StopRequested, StopEvent, ShutdownEvent, StartEvent, RunningEvent,
                   Failure, endless, cpc, answer, history>>

Destroyed == cpc[Owner] = "destroyed" /\ UNCHANGED vars

-----------------------------------------------------------------------------
StartProceeds(c) == \/ StartEnter(c) \/ StartReset(c) \/ StartIdle(c)
                    \/ StartRunning(c) \/ StartSignal(c)

ClientProceeds(c) == \/ StartProceeds(c)
                     \/ IsRunningTest(c) \/ WaitEnds(c) \/ WaitCheck(c)

ClientCalls(c) == \/ StartCheck(c) \/ RequestStop(c) \/ ClearStop(c)
                  \/ IsRunningCheck(c) \/ WaitForIdle(c)

DestroyProceeds == DestroyShutdown \/ DestroyJoin

WorkerProceeds == \/ TakeShutdown \/ TakeStart \/ ExecuteReturns
                  \/ StoreFailure \/ PublishRunning \/ PublishIdle

Next == \/ \E c \in Client : ClientCalls(c) \/ ClientProceeds(c)
        \/ DestroyStop \/ DestroyProceeds
        \/ WorkerProceeds \/ ExecuteRaises
        \/ Destroyed

\* The scheduler runs every thread that is inside a call or a job; nobody has
\* to call anything, and no job has to raise.  A job that does not end by
\* itself ends once it sees the stop.
Fairness == /\ \A c \in Client : WF_vars(ClientProceeds(c))
            /\ WF_vars(DestroyProceeds)
            /\ WF_vars(WorkerProceeds)

Spec == Init /\ [][Next]_vars /\ Fairness

-----------------------------------------------------------------------------
ClientSteps == StartSteps \cup {"outside", "isRunningTest", "waitIdle", "waitCheck",
                                "destroyShutdown", "destroyJoin", "destroyed"}

WorkerStates == {"waiting", "executing", "caught", "ended", "failed",
                 "publishing", "publishingFailed", "exited"}

Answers == {"none", "raised", "busy", "started", "running", "notRunning", "idle"}

TypeOK ==
    /\ lock \in Client \cup {WorkerThread, Nobody}
    /\ StopRequested \in BOOLEAN /\ StopEvent \in BOOLEAN /\ ShutdownEvent \in BOOLEAN
    /\ StartEvent \in BOOLEAN /\ RunningEvent \in BOOLEAN /\ IdleEvent \in BOOLEAN
    /\ Failure \in BOOLEAN /\ endless \in BOOLEAN
    /\ wpc \in WorkerStates
    /\ cpc \in [Client -> ClientSteps]
    /\ answer \in [Client -> Answers]
    /\ accepted \in Nat /\ executed \in Nat /\ failedJob \in Nat
    /\ ticket \in [Client -> Nat]
    /\ stopOwed \in BOOLEAN

\* While the idle event is set no accepted job is left: none waits in the start
\* event, none executes, and every job Start accepted has been executed once
\* (lines 225-240 against 144-170).
IdleMeansDone ==
    IdleEvent => /\ ~StartEvent
                 /\ wpc \in {"waiting", "exited"}
                 /\ executed = accepted

\* A client that started a job and was told "idle" by WaitForIdle knows that
\* the job was executed and did not raise (lines 248-252).
WaitReportsTheJob ==
    \A c \in Client : answer[c] = "idle" =>
        /\ ticket[c] <= executed
        /\ failedJob = 0 \/ ticket[c] < failedJob

\* A stop requested while a job is outstanding reaches that job: no Start takes
\* it back before the job has ended (lines 197-203 against 225-240).
StopReachesTheJob == stopOwed => StopRequested /\ StopEvent

\* A client that started a job and was told "not running" by IsRunning knows
\* the same (lines 242-246): completion is accepted only with the failure.
PollReportsTheJob ==
    \A c \in Client : answer[c] = "notRunning" =>
        failedJob = 0 \/ ticket[c] < failedJob

\* The destructor does not wait forever (lines 103-109).
DestroyReturns == (cpc[Owner] = "destroyShutdown") ~> (cpc[Owner] = "destroyed")

-----------------------------------------------------------------------------
\* The job in progress has nothing that would end it.
OpenEnded == endless /\ ~StopRequested /\ (wpc = "waiting" \/ wpc = "executing")

status == IF IdleEvent /\ Failure THEN "dead"
          ELSE IF wpc = "exited" /\ ~Failure THEN "gone"
          ELSE IF IdleEvent THEN "idle"
          ELSE IF OpenEnded THEN "endless" ELSE "busy"

\* The worker is a JobService: refinement with the fairness of the threads.
Jobs == INSTANCE JobService
ImplementsJobService == Jobs!Spec
=============================================================================
