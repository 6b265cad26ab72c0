----------------------------- MODULE GameEvents -----------------------------
(***************************************************************************)
(* platform/GameEvents.pas: manual- and auto-reset events on one SDL mutex *)
(* (EventMutex) and one condition variable (EventChanged).                 *)
(*                                                                         *)
(* Each action is one critical section of EventMutex.  A waiter that finds *)
(* nothing to return gives the mutex up and falls asleep in one step       *)
(* (SDL_CondWaitTimeout); a broadcast, a deadline or a spurious wakeup     *)
(* makes it compete for the mutex again ("woken"), and its next critical   *)
(* section is a new scan.                                                  *)
(*                                                                         *)
(* Owners keep the contract of lines 32-33: no signal, reset or new wait   *)
(* on an event that has been closed.                                       *)
(***************************************************************************)
EXTENDS Naturals, Sequences, FiniteSets

CONSTANTS Event, Manual, Thread, Requests, NoRequest, NoHandle,
          MaxSets       \* bound on the signals counted per event

ASSUME ManualAssumption == Manual \subseteq Event
ASSUME RequestsAssumption ==
    /\ NoRequest \notin Requests
    /\ NoHandle \notin Event
    /\ \A r \in Requests :
         /\ r.handles \in Seq(Event \cup {NoHandle})
         /\ r.all \in BOOLEAN
         /\ r.timeout \in {"poll", "timed", "infinite"}

VARIABLES
    exists,     \* Event -> "absent", "open" or "freed": the TGameEvent object
    signalled,  \* Event -> BOOLEAN
    closed,     \* Event -> BOOLEAN
    references, \* Event -> Nat
    pc,         \* Thread -> "outside", "asleep" or "woken"
    req,        \* Thread -> request of the wait the thread is inside
    expired,    \* Thread -> its deadline has passed
    result,     \* Thread -> what its last wait returned
    signals,    \* Event -> number of signals given       (history)
    releases    \* Event -> number of waits it has ended, if auto-reset (history)

objects == <<exists, signalled, closed, references>>
waits   == <<pc, req, expired, result>>
history == <<signals, releases>>
vars    == <<objects, waits, history>>

-----------------------------------------------------------------------------
Handles(r) == {r.handles[i] : i \in DOMAIN r.handles}

\* One reference per array entry, as the loop of lines 132-139 takes them.
Slots(r, e) == {i \in DOMAIN r.handles : r.handles[i] = e}
Entries(r, e) == Cardinality(Slots(r, e))

\* The scan of lines 140-156.
Selected(r) == {i \in DOMAIN r.handles :
                  /\ signalled[r.handles[i]]
                  /\ \A j \in 1..(i - 1) : ~signalled[r.handles[j]]}
Ready(r) == IF r.all THEN \A e \in Handles(r) : signalled[e]
                     ELSE Selected(r) # {}
AnyClosed(r) == \E e \in Handles(r) : closed[e]

\* The events whose signal ends the wait.
Ending(r) == IF r.all THEN Handles(r) ELSE {r.handles[i] : i \in Selected(r)}

\* Slips of these lines: no signal is taken; a wait for any takes them all.
TakenNone(r) == {}
TakenAll(r) == Handles(r) \ Manual

\* Lines 157-169: the events whose signal the wait takes.
Taken(r) == Ending(r) \ Manual

\* ReleaseEvent: the last reference frees the object.
Freed(refs) == [e \in Event |->
                  IF exists[e] = "open" /\ refs[e] = 0 THEN "freed" ELSE exists[e]]

Woken == [t \in Thread |-> IF pc[t] = "asleep" THEN "woken" ELSE pc[t]]

\* A slip: SDL_CondSignal, which wakes one waiter, in its place.
SignalOne == /\ \/ \E t \in Thread : pc[t] = "asleep" /\ pc' = [pc EXCEPT ![t] = "woken"]
                \/ (\A t \in Thread : pc[t] # "asleep") /\ UNCHANGED pc
             /\ UNCHANGED <<req, expired, result>>

\* SDL_CondBroadcast(EventChanged)
Broadcast == /\ pc' = Woken
             /\ UNCHANGED <<req, expired, result>>

-----------------------------------------------------------------------------
Init == /\ exists = [e \in Event |-> "absent"]
        /\ signalled = [e \in Event |-> FALSE]
        /\ closed = [e \in Event |-> FALSE]
        /\ references = [e \in Event |-> 0]
        /\ pc = [t \in Thread |-> "outside"]
        /\ req = [t \in Thread |-> NoRequest]
        /\ expired = [t \in Thread |-> FALSE]
        /\ result = [t \in Thread |-> "none"]
        /\ signals = [e \in Event |-> 0]
        /\ releases = [e \in Event |-> 0]

CreateGameEvent(e, InitialState) ==
    /\ exists[e] = "absent"
    /\ exists' = [exists EXCEPT ![e] = "open"]
    /\ signalled' = [signalled EXCEPT ![e] = InitialState]
    /\ references' = [references EXCEPT ![e] = 1]
    /\ signals' = [signals EXCEPT ![e] = IF InitialState THEN 1 ELSE 0]
    /\ UNCHANGED <<closed, waits, releases>>

CloseGameEvent(e) ==
    /\ exists[e] = "open" /\ ~closed[e]
    /\ closed' = [closed EXCEPT ![e] = TRUE]
    /\ Broadcast
    /\ references' = [references EXCEPT ![e] = @ - 1]
    /\ exists' = Freed(references')
    /\ UNCHANGED <<signalled, history>>

SetGameEvent(e) ==
    /\ exists[e] = "open" /\ ~closed[e]
    /\ signals[e] < MaxSets
    /\ signalled' = [signalled EXCEPT ![e] = TRUE]
    /\ signals' = [signals EXCEPT ![e] = @ + 1]
    /\ Broadcast
    /\ UNCHANGED <<exists, closed, references, releases>>

ResetGameEvent(e) ==
    /\ exists[e] = "open" /\ ~closed[e]
    /\ signalled' = [signalled EXCEPT ![e] = FALSE]
    /\ UNCHANGED <<exists, closed, references, waits, history>>

-----------------------------------------------------------------------------
\* The ends of a scan that returns, all but the release of the references.
ScanSucceeds(t, r) ==
    /\ Ready(r)
    /\ signalled' = [e \in Event |-> signalled[e] /\ e \notin Taken(r)]
    /\ releases' = [e \in Event |-> IF e \in Ending(r) \ Manual THEN releases[e] + 1 ELSE releases[e]]
    /\ result' = [result EXCEPT ![t] = "object"]

ScanFails(t, r) ==
    /\ ~Ready(r) /\ AnyClosed(r)
    /\ result' = [result EXCEPT ![t] = "failed"]
    /\ UNCHANGED <<signalled, releases>>

ScanTimesOut(t, r, late) ==
    /\ ~Ready(r) /\ ~AnyClosed(r) /\ late
    /\ result' = [result EXCEPT ![t] = "timeout"]
    /\ UNCHANGED <<signalled, releases>>

ScanReturns(t, r, late) ==
    ScanSucceeds(t, r) \/ ScanFails(t, r) \/ ScanTimesOut(t, r, late)

GiveBack(r) == [e \in Event |-> references[e] - Entries(r, e)]

\* The finally block of lines 186-190.
Leave(t) ==
    /\ references' = GiveBack(req[t])
    /\ exists' = Freed(references')
    /\ pc' = [pc EXCEPT ![t] = "outside"]
    /\ req' = [req EXCEPT ![t] = NoRequest]
    /\ expired' = [expired EXCEPT ![t] = FALSE]
    /\ UNCHANGED <<closed, signals>>

\* A slip: the wait retains its first event only.
RetainFirst(r) == [e \in Event |-> references[e] + IF r.handles[1] = e THEN 1 ELSE 0]

Retain(r) == [e \in Event |-> references[e] + Entries(r, e)]

MayCall(t, r) == /\ pc[t] = "outside"
                 /\ \A e \in Handles(r) \ {NoHandle} : exists[e] = "open" /\ ~closed[e]

\* Lines 125-126 and 134-135: no handles, or a nil one; references taken so
\* far are given back before the mutex is left.
WaitRejected(t, r) ==
    /\ MayCall(t, r)
    /\ Len(r.handles) = 0 \/ NoHandle \in Handles(r)
    /\ result' = [result EXCEPT ![t] = "failed"]
    /\ UNCHANGED <<objects, pc, req, expired, history>>

\* A wait whose first scan returns: the references come and go in one section.
\* A deadline, fixed before the mutex is taken, may have passed by then.
WaitReturns(t, r) ==
    /\ MayCall(t, r)
    /\ Len(r.handles) > 0 /\ NoHandle \notin Handles(r)
    /\ \E late \in {r.timeout = "poll", r.timeout # "infinite"} : ScanReturns(t, r, late)
    /\ UNCHANGED <<exists, closed, references, pc, req, expired, signals>>

\* A wait whose first scan decides nothing: it sleeps holding its references.
WaitSleeps(t, r) ==
    /\ MayCall(t, r)
    /\ Len(r.handles) > 0 /\ NoHandle \notin Handles(r)
    /\ ~Ready(r) /\ ~AnyClosed(r) /\ r.timeout # "poll"
    /\ references' = Retain(r)
    /\ pc' = [pc EXCEPT ![t] = "asleep"]
    /\ req' = [req EXCEPT ![t] = r]
    /\ result' = [result EXCEPT ![t] = "none"]
    /\ UNCHANGED <<exists, signalled, closed, expired, history>>

\* A deadline, or a wakeup without a reason.
Expire(t) == /\ pc[t] # "outside"
             /\ req[t].timeout = "timed" /\ ~expired[t]
             /\ expired' = [expired EXCEPT ![t] = TRUE]
             /\ pc' = [pc EXCEPT ![t] = "woken"]
             /\ UNCHANGED <<objects, req, result, history>>

SpuriousWakeup(t) == /\ pc[t] = "asleep"
                     /\ pc' = [pc EXCEPT ![t] = "woken"]
                     /\ UNCHANGED <<objects, req, expired, result, history>>

RescanReturns(t) == /\ pc[t] = "woken"
                    /\ ScanReturns(t, req[t], expired[t])
                    /\ Leave(t)

RescanSleeps(t) == /\ pc[t] = "woken"
                   /\ ~Ready(req[t]) /\ ~AnyClosed(req[t]) /\ ~expired[t]
                   /\ pc' = [pc EXCEPT ![t] = "asleep"]
                   /\ UNCHANGED <<objects, req, expired, result, history>>

\* Lines 183-184: SDL_CondWaitTimeout reports an error.
SleepRefused(t) == /\ pc[t] = "asleep"
                   /\ result' = [result EXCEPT ![t] = "failed"]
                   /\ Leave(t)
                   /\ UNCHANGED <<signalled, releases>>

-----------------------------------------------------------------------------
Next ==
    \/ \E e \in Event, b \in BOOLEAN : CreateGameEvent(e, b)
    \/ \E e \in Event : CloseGameEvent(e) \/ SetGameEvent(e) \/ ResetGameEvent(e)
    \/ \E t \in Thread, r \in Requests :
          WaitRejected(t, r) \/ WaitReturns(t, r) \/ WaitSleeps(t, r)
    \/ \E t \in Thread :
          \/ Expire(t) \/ SpuriousWakeup(t) \/ SleepRefused(t)
          \/ RescanReturns(t) \/ RescanSleeps(t)

\* Threads that are awake run, and clocks advance.  Nobody has to signal.
Fairness == \A t \in Thread :
              /\ WF_vars(RescanReturns(t) \/ RescanSleeps(t))
              /\ WF_vars(Expire(t))

Spec == Init /\ [][Next]_vars /\ Fairness

-----------------------------------------------------------------------------
Inside(t) == pc[t] # "outside"

\* The array entries that the waits in progress have for an event.
Held(e) == UNION {{t} \X Slots(req[t], e) : t \in {t \in Thread : Inside(t)}}

\* The owner's reference, given up by CloseGameEvent.
Owned(e) == IF exists[e] = "open" /\ ~closed[e] THEN 1 ELSE 0

\* The object of an event is referenced by its owner until the close and by
\* every entry of every wait in progress, and is freed with the last of them:
\* neither leaked (lines 186-189) nor freed under a waiter (line 33).
ReferencesExact ==
    \A e \in Event :
       /\ references[e] = Owned(e) + Cardinality(Held(e))
       /\ (exists[e] = "open") = (references[e] > 0)

\* A thread that sleeps with nobody about to wake it has nothing to return:
\* no signal or close is lost between its scan and its sleep (lines 181-182).
NoLostWakeup ==
    \A t \in Thread : pc[t] = "asleep" => ~Ready(req[t]) /\ ~AnyClosed(req[t])

\* One signal of an auto-reset event ends at most one wait, whatever the
\* broadcast wakes (lines 157-169).
OneReleasePerSignal ==
    \A e \in Event \ Manual :
       releases[e] + (IF signalled[e] THEN 1 ELSE 0) <= signals[e]

-----------------------------------------------------------------------------
\* Each wait is one outstanding request of EventWaits, however often its
\* thread wakes and scans again: a wait that fails or times out takes no
\* signal, a wait for all takes every signal or none, and a wait that is
\* decided for good (by a manual event, or by a close, lines 79-89) returns.
Waits == INSTANCE EventWaits WITH AutoReset <- Event \ Manual, waiting <- req
ImplementsEventWaits == Waits!Spec
=============================================================================
