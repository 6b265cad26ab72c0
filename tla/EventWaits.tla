----------------------------- MODULE EventWaits -----------------------------
(***************************************************************************)
(* What platform/GameEvents.pas promises to its callers: kernel-style      *)
(* event objects with blocking waits on one or several of them.  A wait    *)
(* is outstanding from its call to its return; there is no mutex, no       *)
(* condition variable and no reference count here.  GameEvents implements  *)
(* this specification (see MCGameEvents), and the modules above it use     *)
(* waits as the atomic steps this module describes.                        *)
(***************************************************************************)
EXTENDS Naturals, Sequences

CONSTANTS Event,        \* event handles
          AutoReset,    \* the events created with ManualReset = False
          Thread,       \* callers
          Requests,     \* the argument lists of WaitGameEvents
          NoRequest     \* no wait is outstanding

VARIABLES signalled,    \* Event -> BOOLEAN
          closed,       \* Event -> BOOLEAN, set by CloseGameEvent
          waiting,      \* Thread -> the outstanding request
          result        \* Thread -> result of the last returned wait

vars == <<signalled, closed, waiting, result>>

Handles(r) == {r.handles[i] : i \in DOMAIN r.handles}

\* The smallest index whose event is signalled: what a wait for any selects.
IsSelected(r, i) == /\ i \in DOMAIN r.handles
                    /\ signalled[r.handles[i]]
                    /\ \A j \in 1..(i - 1) : ~signalled[r.handles[j]]

Satisfied(r) == IF r.all THEN \A e \in Handles(r) : signalled[e]
                         ELSE \E e \in Handles(r) : signalled[e]

\* The auto-reset events a satisfied wait takes the signal of.
Consumed(r) == AutoReset \cap
                 IF r.all THEN Handles(r)
                          ELSE {r.handles[i] : i \in {j \in DOMAIN r.handles : IsSelected(r, j)}}

TypeOK == /\ signalled \in [Event -> BOOLEAN]
          /\ closed \in [Event -> BOOLEAN]
          /\ waiting \in [Thread -> Requests \cup {NoRequest}]

Init == /\ signalled \in [Event -> BOOLEAN]
        /\ closed = [e \in Event |-> FALSE]
        /\ waiting = [t \in Thread |-> NoRequest]
        /\ result = [t \in Thread |-> "none"]

\* The possible ends of wait r by thread t.
Succeeds(t, r) ==
    /\ Satisfied(r)
    /\ signalled' = [e \in Event |-> signalled[e] /\ e \notin Consumed(r)]
    /\ result' = [result EXCEPT ![t] = "object"]

Fails(t, r) ==
    /\ ~Satisfied(r)
    /\ \E e \in Handles(r) : closed[e]
    /\ result' = [result EXCEPT ![t] = "failed"]
    /\ UNCHANGED signalled

TimesOut(t, r) ==
    /\ ~Satisfied(r)
    /\ \A e \in Handles(r) : ~closed[e]
    /\ r.timeout # "infinite"
    /\ result' = [result EXCEPT ![t] = "timeout"]
    /\ UNCHANGED signalled

\* A wait that cannot be started, or whose sleep the platform refuses.
Refused(t) == /\ result' = [result EXCEPT ![t] = "failed"]
              /\ UNCHANGED signalled

Ends(t, r) == Succeeds(t, r) \/ Fails(t, r) \/ TimesOut(t, r)

\* A wait that returns without blocking.
CallReturns(t, r) == /\ waiting[t] = NoRequest
                     /\ \/ Handles(r) \subseteq Event /\ Ends(t, r)
                        \/ Refused(t)
                     /\ UNCHANGED <<closed, waiting>>

\* A wait that blocks: possible only while nothing decides it.
CallBlocks(t, r) == /\ waiting[t] = NoRequest
                    /\ Handles(r) \subseteq Event
                    /\ ~Satisfied(r)
                    /\ r.timeout # "poll"
                    /\ \A e \in Handles(r) : ~closed[e]
                    /\ waiting' = [waiting EXCEPT ![t] = r]
                    /\ result' = [result EXCEPT ![t] = "none"]
                    /\ UNCHANGED <<signalled, closed>>

Return(t) == /\ waiting[t] # NoRequest
             /\ Ends(t, waiting[t])
             /\ waiting' = [waiting EXCEPT ![t] = NoRequest]
             /\ UNCHANGED closed

SleepRefused(t) == /\ waiting[t] # NoRequest
                   /\ Refused(t)
                   /\ waiting' = [waiting EXCEPT ![t] = NoRequest]
                   /\ UNCHANGED closed

\* SetGameEvent and ResetGameEvent, and the creation that fixes the initial state.
Assign(e) == /\ ~closed[e]
             /\ \E b \in BOOLEAN : signalled' = [signalled EXCEPT ![e] = b]
             /\ UNCHANGED <<closed, waiting, result>>

Close(e) == /\ ~closed[e]
            /\ closed' = [closed EXCEPT ![e] = TRUE]
            /\ UNCHANGED <<signalled, waiting, result>>

Next == \/ \E e \in Event : Assign(e) \/ Close(e)
        \/ \E t \in Thread : Return(t) \/ SleepRefused(t)
        \/ \E t \in Thread, r \in Requests : CallReturns(t, r) \/ CallBlocks(t, r)

\* A wait that is decided and stays decided returns: no signal is lost.
Fairness == \A t \in Thread : WF_vars(Return(t))

Spec == Init /\ [][Next]_vars /\ Fairness
=============================================================================
