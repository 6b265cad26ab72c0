-------------------------- MODULE GameEventsProofs --------------------------
(***************************************************************************)
(* Proofs about GameEvents for any events, threads and requests: no wakeup *)
(* is lost, one signal ends one wait, reference counts are exact, and the  *)
(* step simulation of EventWaits.  What fairness adds to it is left to TLC.*)
(***************************************************************************)
EXTENDS GameEvents, FiniteSetTheorems, WellFoundedInduction, TLAPS

Fields ==
    /\ exists \in [Event -> {"absent", "open", "freed"}]
    /\ signalled \in [Event -> BOOLEAN] /\ closed \in [Event -> BOOLEAN]
    /\ references = [e \in Event |-> references[e]]
    /\ pc \in [Thread -> {"outside", "asleep", "woken"}]
    /\ req \in [Thread -> Requests \cup {NoRequest}]
    /\ expired \in [Thread -> BOOLEAN]
    /\ result \in [Thread -> {"none", "object", "failed", "timeout"}]
    /\ signals \in [Event -> Nat] /\ releases \in [Event -> Nat]

TypeOK == Fields /\ references \in [Event -> Nat]

\* A request that a wait is called with, or is in progress
Proper(r) == r \in Requests /\ NoHandle \notin Handles(r)

\* A wait in progress has a deadline or none, and events that were created.
WaitInv ==
    \A t \in Thread :
       /\ Inside(t) <=> req[t] # NoRequest
       /\ expired[t] => req[t] # NoRequest /\ req[t].timeout = "timed"
       /\ req[t] # NoRequest => /\ Proper(req[t])
                                /\ \A e \in Handles(req[t]) : exists[e] # "absent"

\* An event that is still to be created has not been used.
AbsentInv == \A e \in Event : exists[e] = "absent" => ~closed[e] /\ releases[e] = 0

ReferenceInv == ReferencesExact /\ \A e \in Event : IsFiniteSet(Held(e))

-----------------------------------------------------------------------------
(* Facts about numbers, handles and scans *)

\* Every set of numbers has a least one: the sets 0 .. m are well-founded.
LEMMA Least == ASSUME NEW S \in SUBSET Nat, S # {}  PROVE \E m \in S : \A k \in S : m <= k
<1> DEFINE T == {0 .. m : m \in S}
           R == StrictSubsetOrdering(Nat)
           F == FiniteSubsetsOf(Nat)
<1>1. T \subseteq F /\ T # {}
  <2>1. ASSUME NEW m \in S  PROVE 0 .. m \in F
    <3>1. IsFiniteSet(0 .. m)
      BY FS_Interval
    <3>2. 0 .. m \in SUBSET Nat
      OBVIOUS
    <3> QED BY <3>1, <3>2 DEF FiniteSubsetsOf
  <2> QED BY <2>1
<1>2. IsWellFoundedOn(R, F)
  BY FS_StrictSubsetOrderingWellFounded
<1>3. \E x \in T : \A y \in T : ~ (<<y, x>> \in R)
  <2> HIDE DEF T, R, F
  <2> QED BY <1>1, <1>2, WFMin
<1>4. PICK m \in S : \A k \in S : ~ (<<0 .. k, 0 .. m>> \in R)
  BY <1>3
<1>5. ASSUME NEW k \in S, k < m  PROVE FALSE
  <2>1. 0 .. k \subseteq 0 .. m /\ 0 .. k # 0 .. m
    BY <1>5
  <2>2. <<0 .. k, 0 .. m>> \in (SUBSET Nat) \X (SUBSET Nat)
    OBVIOUS
  <2>3. <<0 .. k, 0 .. m>> \in R
    BY <2>1, <2>2 DEF StrictSubsetOrdering
  <2> QED BY <1>4, <2>3
<1> QED BY <1>5

\* If an entry of the array is signalled, there is a first one.
LEMMA FirstSignalled ==
    ASSUME NEW X, NEW h \in Seq(X), NEW sig, NEW i \in DOMAIN h, sig[h[i]]
    PROVE  \E f \in DOMAIN h : sig[h[f]] /\ \A j \in 1..(f - 1) : ~sig[h[j]]
<1> DEFINE S == {k \in DOMAIN h : sig[h[k]]}
<1>1. S \in SUBSET Nat /\ S # {}
  OBVIOUS
<1>2. PICK f \in S : \A k \in S : f <= k
  BY <1>1, Least
<1>3. \A j \in 1..(f - 1) : j \in DOMAIN h /\ j \notin S
  BY <1>1, <1>2
<1> QED BY <1>3

LEMMA ProperHandles ==
    ASSUME NEW r, Proper(r)
    PROVE  r.handles \in Seq(Event \cup {NoHandle}) /\ Handles(r) \subseteq Event
BY RequestsAssumption DEF Proper, Handles

\* What the scan looks for is whether all, or any, of the events are signalled.
LEMMA ReadyMeans ==
    ASSUME NEW r, Proper(r)
    PROVE  Ready(r) <=> IF r.all THEN \A e \in Handles(r) : signalled[e]
                                 ELSE \E e \in Handles(r) : signalled[e]
<1>1. ASSUME NEW e \in Handles(r), signalled[e]  PROVE Selected(r) # {}
  <2>1. PICK i \in DOMAIN r.handles : signalled[r.handles[i]]
    BY <1>1 DEF Handles
  <2> QED BY <2>1, ProperHandles, FirstSignalled DEF Selected
<1>2. Selected(r) # {} => \E e \in Handles(r) : signalled[e]
  BY DEF Selected, Handles
<1> QED BY <1>1, <1>2 DEF Ready

\* A wait that nothing decides stays undecided while none of its events is set.
LEMMA ReadyShrinks ==
    ASSUME NEW r, Proper(r), ~Ready(r), \A e \in Handles(r) : signalled'[e] => signalled[e]
    PROVE  ~Ready(r)'
<1>1. CASE r.all
  BY <1>1 DEF Ready, Handles
<1>2. CASE ~r.all
  <2>1. \A i \in DOMAIN r.handles : ~signalled[r.handles[i]]
    BY <1>2, ReadyMeans DEF Handles
  <2> QED BY <1>2, <2>1 DEF Ready, Selected, Handles
<1> QED BY <1>1, <1>2

\* A scan takes signals, and sets none.
LEMMA ScanTakes ==
    ASSUME TypeOK, NEW t, NEW r, NEW late, ScanReturns(t, r, late)
    PROVE  \A e \in Event : signalled'[e] => signalled[e]
BY DEF TypeOK, Fields, ScanReturns, ScanSucceeds, ScanFails, ScanTimesOut

-----------------------------------------------------------------------------
(* Types, and the state of the waits *)

USE DEF objects, waits, history, Broadcast, Woken

LEMMA InitHolds == Init => TypeOK /\ WaitInv /\ AbsentInv /\ NoLostWakeup /\ OneReleasePerSignal
<1> SUFFICES ASSUME Init
             PROVE  TypeOK /\ WaitInv /\ AbsentInv /\ NoLostWakeup /\ OneReleasePerSignal
  OBVIOUS
<1>1. TypeOK
  BY DEF Init, TypeOK, Fields
<1>2. WaitInv /\ AbsentInv /\ NoLostWakeup /\ OneReleasePerSignal
  BY DEF Init, WaitInv, Inside, AbsentInv, NoLostWakeup, OneReleasePerSignal
<1> QED BY <1>1, <1>2

-----------------------------------------------------------------------------
(* References *)

\* The entries of an event in the array of a request can be counted.
LEMMA SlotsFinite ==
    ASSUME NEW r, Proper(r), NEW e
    PROVE  IsFiniteSet(Slots(r, e)) /\ Entries(r, e) \in Nat
<1>1. DOMAIN r.handles = 1..Len(r.handles) /\ Len(r.handles) \in Nat
  BY ProperHandles
<1>2. IsFiniteSet(DOMAIN r.handles)
  BY <1>1, FS_Interval
<1>3. IsFiniteSet(Slots(r, e))
  BY <1>2, FS_Subset DEF Slots
<1> QED BY <1>3, FS_CardinalityType DEF Entries

\* A wait holds one reference per entry.
LEMMA RowCount ==
    ASSUME NEW t, NEW r, Proper(r), NEW e
    PROVE  IsFiniteSet({t} \X Slots(r, e)) /\ Cardinality({t} \X Slots(r, e)) = Entries(r, e)
<1>1. IsFiniteSet({t}) /\ Cardinality({t}) = 1
  BY FS_Singleton
<1>2. IsFiniteSet(Slots(r, e)) /\ Entries(r, e) \in Nat
  BY SlotsFinite
<1>3. Cardinality({t} \X Slots(r, e)) = 1 * Entries(r, e) /\ IsFiniteSet({t} \X Slots(r, e))
  BY <1>1, <1>2, FS_Product DEF Entries
<1> QED BY <1>2, <1>3

\* The steps that neither begin nor end a wait leave what is held alone.
LEMMA HeldUnchanged ==
    ASSUME req' = req, \A t \in Thread : Inside(t)' <=> Inside(t), NEW e
    PROVE  Held(e)' = Held(e)
<1>1. {t \in Thread : Inside(t)}' = {t \in Thread : Inside(t)}
  OBVIOUS
<1>2. \A t : Slots(req[t], e)' = Slots(req[t], e)
  BY DEF Slots
<1> QED BY <1>1, <1>2 DEF Held

LEMMA Retained ==
    ASSUME TypeOK, ReferenceInv, NEW t \in Thread, ~Inside(t), NEW r, Proper(r), NEW e \in Event,
           pc' = [pc EXCEPT ![t] = "asleep"], req' = [req EXCEPT ![t] = r]
    PROVE  IsFiniteSet(Held(e))' /\ Cardinality(Held(e))' = Cardinality(Held(e)) + Entries(r, e)
<1> DEFINE Row == {t} \X Slots(r, e)
<1>1. Held(e)' = Held(e) \cup Row
  BY DEF TypeOK, Fields, Held, Inside, Slots
<1>2. Held(e) \cap Row = {}
  BY DEF Held
<1>3. IsFiniteSet(Held(e)) /\ Cardinality(Held(e)) \in Nat
  BY FS_CardinalityType DEF ReferenceInv
<1>4. IsFiniteSet(Row) /\ Cardinality(Row) = Entries(r, e) /\ Entries(r, e) \in Nat
  <2>1. IsFiniteSet(Row)
    BY RowCount
  <2>2. Cardinality(Row) = Entries(r, e)
    BY RowCount
  <2>3. Entries(r, e) \in Nat
    BY SlotsFinite
  <2> QED BY <2>1, <2>2, <2>3
<1> HIDE DEF Row
<1>5. /\ IsFiniteSet(Held(e) \cup Row)
      /\ Cardinality(Held(e) \cup Row) = Cardinality(Held(e)) + Entries(r, e)
  <2>1. Cardinality(Held(e) \cap Row) = 0
    BY <1>2, FS_EmptySet
  <2>2. /\ IsFiniteSet(Held(e) \cup Row)
        /\ Cardinality(Held(e) \cup Row)
              = Cardinality(Held(e)) + Cardinality(Row) - Cardinality(Held(e) \cap Row)
    BY <1>3, <1>4, FS_Union
  <2> QED BY <1>3, <1>4, <2>1, <2>2
<1> QED BY <1>1, <1>5

LEMMA GivenBack ==
    ASSUME TypeOK, ReferenceInv, NEW t \in Thread, Inside(t), Proper(req[t]), NEW e \in Event,
           pc' = [pc EXCEPT ![t] = "outside"], req' = [req EXCEPT ![t] = NoRequest]
    PROVE  /\ IsFiniteSet(Held(e))'
           /\ Cardinality(Held(e))' = Cardinality(Held(e)) - Entries(req[t], e)
<1> DEFINE Row == {t} \X Slots(req[t], e)
<1>1. Held(e)' = Held(e) \ Row
  BY DEF TypeOK, Fields, Held, Inside, Slots
<1>2. Held(e) \cap Row = Row
  BY DEF Held
<1>3. IsFiniteSet(Held(e)) /\ Cardinality(Held(e)) \in Nat
  BY FS_CardinalityType DEF ReferenceInv
<1>4. Cardinality(Row) = Entries(req[t], e)
  BY RowCount
<1> HIDE DEF Row
<1>5. /\ IsFiniteSet(Held(e) \ Row)
      /\ Cardinality(Held(e) \ Row) = Cardinality(Held(e)) - Entries(req[t], e)
  <2>1. /\ IsFiniteSet(Held(e) \ Row)
        /\ Cardinality(Held(e) \ Row) = Cardinality(Held(e)) - Cardinality(Held(e) \cap Row)
    BY <1>3, FS_Difference
  <2> QED BY <1>2, <1>4, <2>1
<1> QED BY <1>1, <1>5

-----------------------------------------------------------------------------
(* Steps *)

\* A step that changes no reference, and neither begins nor ends a wait
LEMMA ReferencesKept ==
    ASSUME ReferenceInv, UNCHANGED <<exists, closed, references, req>>,
           \A t \in Thread : Inside(t)' <=> Inside(t)
    PROVE  ReferenceInv'
<1>1. \A e \in Event : Held(e)' = Held(e)
  BY HeldUnchanged
<1>2. \A e \in Event : Owned(e)' = Owned(e)
  BY DEF Owned
<1> QED BY <1>1, <1>2 DEF ReferenceInv, ReferencesExact

\* The end of a wait gives back what it held, and frees what nothing holds.
LEMMA LeaveReferences ==
    ASSUME TypeOK, ReferenceInv, NEW t \in Thread, Inside(t), Proper(req[t]),
           pc' = [pc EXCEPT ![t] = "outside"], req' = [req EXCEPT ![t] = NoRequest],
           references' = GiveBack(req[t]), exists' = Freed(references'), closed' = closed
    PROVE  ReferenceInv'
<1>1. ASSUME NEW e \in Event
      PROVE  /\ IsFiniteSet(Held(e))'
             /\ references'[e] = Owned(e)' + Cardinality(Held(e))'
             /\ (exists'[e] = "open") = (references'[e] > 0)
  <2>1. /\ IsFiniteSet(Held(e))'
        /\ Cardinality(Held(e))' = Cardinality(Held(e)) - Entries(req[t], e)
    BY GivenBack
  <2>2. Cardinality(Held(e)) \in Nat /\ Cardinality(Held(e))' \in Nat /\ Entries(req[t], e) \in Nat
    <3>1. Cardinality(Held(e)) \in Nat
      BY FS_CardinalityType DEF ReferenceInv
    <3>2. Cardinality(Held(e)') \in Nat
      BY <2>1, FS_CardinalityType
    <3> QED BY <3>1, <3>2, SlotsFinite
  <2>3. references'[e] = references[e] - Entries(req[t], e)
    BY DEF GiveBack
  <2>4. exists'[e] = IF exists[e] = "open" /\ references'[e] = 0 THEN "freed" ELSE exists[e]
    BY DEF Freed
  <2> QED BY <2>1, <2>2, <2>3, <2>4 DEF ReferenceInv, ReferencesExact, Owned
<1> QED BY <1>1 DEF ReferenceInv, ReferencesExact

\* What is held and what is counted change together.
LEMMA ReferenceStep ==
    ASSUME TypeOK, WaitInv, AbsentInv, ReferenceInv, [Next]_vars
    PROVE  ReferenceInv'
<1>1. ASSUME NEW e \in Event, NEW b \in BOOLEAN, CreateGameEvent(e, b)  PROVE ReferenceInv'
  <2>1. \A f \in Event : Held(f)' = Held(f)
    <3>1. req' = req /\ \A u \in Thread : Inside(u)' <=> Inside(u)
      BY <1>1 DEF CreateGameEvent, TypeOK, Fields, Inside
    <3> QED BY <3>1, HeldUnchanged
  <2>2. \A f \in Event : Cardinality(Held(f)) \in Nat
    BY FS_CardinalityType DEF ReferenceInv
  <2>3. references[e] = 0 /\ ~closed[e]
    BY <1>1, <2>2 DEF CreateGameEvent, TypeOK, Fields, AbsentInv, ReferenceInv, ReferencesExact
  <2>4. ASSUME NEW f \in Event
        PROVE  /\ references'[f] = Owned(f)' + Cardinality(Held(f))
               /\ (exists'[f] = "open") = (references'[f] > 0)
    BY <1>1, <2>2, <2>3 DEF CreateGameEvent, TypeOK, Fields, ReferenceInv, ReferencesExact, Owned
  <2> QED BY <2>1, <2>4 DEF ReferenceInv, ReferencesExact
<1>2. ASSUME NEW e \in Event, CloseGameEvent(e)  PROVE ReferenceInv'
  <2>1. \A f \in Event : Held(f)' = Held(f)
    <3>1. req' = req /\ \A u \in Thread : Inside(u)' <=> Inside(u)
      BY <1>2 DEF CloseGameEvent, TypeOK, Fields, Inside
    <3> QED BY <3>1, HeldUnchanged
  <2>2. \A f \in Event : Cardinality(Held(f)) \in Nat
    BY FS_CardinalityType DEF ReferenceInv
  <2>4. ASSUME NEW f \in Event
        PROVE  /\ references'[f] = Owned(f)' + Cardinality(Held(f))
               /\ (exists'[f] = "open") = (references'[f] > 0)
    BY <1>2, <2>2 DEF CloseGameEvent, Freed, TypeOK, Fields, ReferenceInv, ReferencesExact, Owned
  <2> QED BY <2>1, <2>4 DEF ReferenceInv, ReferencesExact
<1>3. ASSUME NEW e \in Event, SetGameEvent(e)  PROVE ReferenceInv'
  <2>1. UNCHANGED <<exists, closed, references, req>>
    BY <1>3 DEF SetGameEvent
  <2>2. \A u \in Thread : Inside(u)' <=> Inside(u)
    BY <1>3 DEF SetGameEvent, TypeOK, Fields, Inside
  <2> QED BY <2>1, <2>2, ReferencesKept
<1>4. ASSUME NEW e \in Event, ResetGameEvent(e)  PROVE ReferenceInv'
  <2>1. UNCHANGED <<exists, closed, references, req>>
    BY <1>4 DEF ResetGameEvent
  <2>2. \A u \in Thread : Inside(u)' <=> Inside(u)
    BY <1>4 DEF ResetGameEvent, TypeOK, Fields, Inside
  <2> QED BY <2>1, <2>2, ReferencesKept
<1>5. ASSUME NEW t \in Thread, NEW r \in Requests, WaitRejected(t, r)  PROVE ReferenceInv'
  <2>1. UNCHANGED <<exists, closed, references, req>>
    BY <1>5 DEF WaitRejected
  <2>2. \A u \in Thread : Inside(u)' <=> Inside(u)
    BY <1>5 DEF WaitRejected, TypeOK, Fields, Inside
  <2> QED BY <2>1, <2>2, ReferencesKept
<1>6. ASSUME NEW t \in Thread, NEW r \in Requests, WaitReturns(t, r)  PROVE ReferenceInv'
  <2>1. UNCHANGED <<exists, closed, references, req>>
    BY <1>6 DEF WaitReturns
  <2>2. \A u \in Thread : Inside(u)' <=> Inside(u)
    BY <1>6 DEF WaitReturns, TypeOK, Fields, Inside
  <2> QED BY <2>1, <2>2, ReferencesKept
<1>7. ASSUME NEW t \in Thread, NEW r \in Requests, WaitSleeps(t, r)  PROVE ReferenceInv'
  <2>1. ~Inside(t) /\ Proper(r)
    BY <1>7 DEF WaitSleeps, MayCall, Inside, Proper
  <2>2. ASSUME NEW e \in Event
        PROVE  IsFiniteSet(Held(e))' /\ Cardinality(Held(e))' = Cardinality(Held(e)) + Entries(r, e)
    BY <1>7, <2>1, Retained DEF WaitSleeps
  <2>3. ASSUME NEW e \in Event
        PROVE  /\ references'[e] = Owned(e)' + Cardinality(Held(e))'
               /\ (exists'[e] = "open") = (references'[e] > 0)
    <3>1. Cardinality(Held(e)) \in Nat /\ Entries(r, e) \in Nat
      BY <2>1, SlotsFinite, FS_CardinalityType DEF ReferenceInv
    <3>2. references'[e] = references[e] + Entries(r, e)
      BY <1>7 DEF WaitSleeps, Retain
    <3>3. e \in Handles(r) => exists[e] = "open"
      BY <1>7, <2>1, ProperHandles DEF WaitSleeps, MayCall
    <3>4. e \notin Handles(r) => Entries(r, e) = 0
      <4>1. ASSUME e \notin Handles(r)  PROVE Slots(r, e) = {}
        BY <4>1 DEF Handles, Slots
      <4> QED BY <4>1, FS_EmptySet DEF Entries
    <3>5. UNCHANGED <<exists, closed>>
      BY <1>7 DEF WaitSleeps
    <3> QED BY <2>2, <3>1, <3>2, <3>3, <3>4, <3>5 DEF ReferenceInv, ReferencesExact, Owned
  <2> QED BY <2>2, <2>3 DEF ReferenceInv, ReferencesExact
<1>8. ASSUME NEW t \in Thread, Expire(t)  PROVE ReferenceInv'
  <2>1. UNCHANGED <<exists, closed, references, req>>
    BY <1>8 DEF Expire
  <2>2. \A u \in Thread : Inside(u)' <=> Inside(u)
    BY <1>8 DEF Expire, TypeOK, Fields, Inside
  <2> QED BY <2>1, <2>2, ReferencesKept
<1>9. ASSUME NEW t \in Thread, SpuriousWakeup(t)  PROVE ReferenceInv'
  <2>1. UNCHANGED <<exists, closed, references, req>>
    BY <1>9 DEF SpuriousWakeup
  <2>2. \A u \in Thread : Inside(u)' <=> Inside(u)
    BY <1>9 DEF SpuriousWakeup, TypeOK, Fields, Inside
  <2> QED BY <2>1, <2>2, ReferencesKept
<1>10. ASSUME NEW t \in Thread, RescanReturns(t)  PROVE ReferenceInv'
  <2>1. Inside(t) /\ Proper(req[t])
    BY <1>10 DEF RescanReturns, TypeOK, Fields, WaitInv, Inside
  <2>2. pc' = [pc EXCEPT ![t] = "outside"] /\ req' = [req EXCEPT ![t] = NoRequest]
    BY <1>10 DEF RescanReturns, Leave
  <2>3. references' = GiveBack(req[t]) /\ exists' = Freed(references') /\ closed' = closed
    BY <1>10 DEF RescanReturns, Leave
  <2> QED BY <2>1, <2>2, <2>3, LeaveReferences
<1>11. ASSUME NEW t \in Thread, RescanSleeps(t)  PROVE ReferenceInv'
  <2>1. UNCHANGED <<exists, closed, references, req>>
    BY <1>11 DEF RescanSleeps
  <2>2. \A u \in Thread : Inside(u)' <=> Inside(u)
    BY <1>11 DEF RescanSleeps, TypeOK, Fields, Inside
  <2> QED BY <2>1, <2>2, ReferencesKept
<1>12. ASSUME NEW t \in Thread, SleepRefused(t)  PROVE ReferenceInv'
  <2>1. Inside(t) /\ Proper(req[t])
    BY <1>12 DEF SleepRefused, TypeOK, Fields, WaitInv, Inside
  <2>2. pc' = [pc EXCEPT ![t] = "outside"] /\ req' = [req EXCEPT ![t] = NoRequest]
    BY <1>12 DEF SleepRefused, Leave
  <2>3. references' = GiveBack(req[t]) /\ exists' = Freed(references') /\ closed' = closed
    BY <1>12 DEF SleepRefused, Leave
  <2> QED BY <2>1, <2>2, <2>3, LeaveReferences
<1>13. CASE UNCHANGED vars
  BY <1>13, ReferencesKept DEF vars, Inside
<1> QED BY <1>1, <1>2, <1>3, <1>4, <1>5, <1>6, <1>7, <1>8, <1>9, <1>10, <1>11, <1>12, <1>13 DEF Next

\* Exact references are numbers.
LEMMA NextReferencesAreNumbers ==
    ASSUME ReferenceInv', references' = [e \in Event |-> references'[e]]
    PROVE  references' \in [Event -> Nat]
<1>1. \A e \in Event : Cardinality(Held(e)') \in Nat
  BY FS_CardinalityType DEF ReferenceInv
<1>2. \A e \in Event : references'[e] \in Nat
  BY <1>1 DEF ReferenceInv, ReferencesExact, Owned
<1> QED BY <1>2

\* No wait, no event and no reference at the beginning
LEMMA InitReferences == Init => ReferenceInv
<1> SUFFICES ASSUME Init  PROVE ReferenceInv
  OBVIOUS
<1>1. \A e \in Event : Held(e) = {}
  BY DEF Init, Held, Inside
<1> QED BY <1>1, FS_EmptySet DEF Init, ReferenceInv, ReferencesExact, Owned

\* ReleaseEvent frees objects, and unmakes none.
LEMMA FreedFields ==
    ASSUME TypeOK, NEW refs
    PROVE  /\ Freed(refs) \in [Event -> {"absent", "open", "freed"}]
           /\ \A e \in Event : Freed(refs)[e] = "absent" <=> exists[e] = "absent"
BY DEF TypeOK, Fields, Freed

\* A scan that returns takes the signals of the auto-reset events it ends on.
LEMMA ScanEffect ==
    ASSUME TypeOK, NEW t, NEW r, NEW late, ScanReturns(t, r, late)
    PROVE  /\ signalled' \in [Event -> BOOLEAN] /\ releases' \in [Event -> Nat]
           /\ result' \in [Thread -> {"none", "object", "failed", "timeout"}]
           /\ \A e \in Event :
                 \/ releases'[e] = releases[e] /\ (signalled'[e] => signalled[e])
                 \/ /\ releases'[e] = releases[e] + 1 /\ signalled[e] /\ ~signalled'[e]
                    /\ e \in Handles(r)
<1>1. result' \in [Thread -> {"none", "object", "failed", "timeout"}]
  BY DEF TypeOK, Fields, ScanReturns, ScanSucceeds, ScanFails, ScanTimesOut
<1>2. CASE ScanSucceeds(t, r)
  <2>1. \A e \in Event : e \in Ending(r) => signalled[e] /\ e \in Handles(r)
    BY <1>2 DEF ScanSucceeds, Ending, Ready, Selected, Handles
  <2>2. signalled' \in [Event -> BOOLEAN]
    BY <1>2, Zenon DEF ScanSucceeds, TypeOK, Fields
  <2>3. /\ releases' = [e \in Event |-> IF e \in Ending(r) \ Manual THEN releases[e] + 1
                                                                ELSE releases[e]]
        /\ releases \in [Event -> Nat]
    BY <1>2 DEF ScanSucceeds, TypeOK, Fields
  <2>4. releases' \in [Event -> Nat]
    BY <2>3
  <2>5. \A e \in Event : signalled'[e] <=> signalled[e] /\ e \notin Taken(r)
    BY <1>2, Zenon DEF ScanSucceeds
  <2> QED BY <1>1, <2>1, <2>2, <2>3, <2>4, <2>5 DEF Taken
<1>3. CASE ScanFails(t, r) \/ ScanTimesOut(t, r, late)
  BY <1>1, <1>3 DEF TypeOK, Fields, ScanFails, ScanTimesOut
<1> QED BY <1>2, <1>3 DEF ScanReturns

\* The types, but that references are numbers
LEMMA FieldStep ==
    ASSUME TypeOK, [Next]_vars
    PROVE  Fields'
<1> USE DEF TypeOK, Fields
<1>1. ASSUME NEW e \in Event, NEW b \in BOOLEAN, CreateGameEvent(e, b)  PROVE Fields'
  BY <1>1 DEF CreateGameEvent
<1>2. ASSUME NEW e \in Event, CloseGameEvent(e)  PROVE Fields'
  BY <1>2, FreedFields DEF CloseGameEvent
<1>3. ASSUME NEW e \in Event, SetGameEvent(e)  PROVE Fields'
  BY <1>3 DEF SetGameEvent
<1>4. ASSUME NEW e \in Event, ResetGameEvent(e)  PROVE Fields'
  BY <1>4 DEF ResetGameEvent
<1>5. ASSUME NEW t \in Thread, NEW r \in Requests, WaitRejected(t, r)  PROVE Fields'
  BY <1>5 DEF WaitRejected
<1>6. ASSUME NEW t \in Thread, NEW r \in Requests, WaitReturns(t, r)  PROVE Fields'
  <2>1. PICK late : ScanReturns(t, r, late)
    BY <1>6 DEF WaitReturns
  <2> QED BY <1>6, <2>1, ScanEffect DEF WaitReturns
<1>7. ASSUME NEW t \in Thread, NEW r \in Requests, WaitSleeps(t, r)  PROVE Fields'
  BY <1>7 DEF WaitSleeps, Retain
<1>8. ASSUME NEW t \in Thread, Expire(t)  PROVE Fields'
  BY <1>8 DEF Expire
<1>9. ASSUME NEW t \in Thread, SpuriousWakeup(t)  PROVE Fields'
  BY <1>9 DEF SpuriousWakeup
<1>10. ASSUME NEW t \in Thread, RescanReturns(t)  PROVE Fields'
  <2>1. ScanReturns(t, req[t], expired[t])
    BY <1>10 DEF RescanReturns
  <2> QED BY <1>10, <2>1, ScanEffect, FreedFields DEF RescanReturns, Leave, GiveBack
<1>11. ASSUME NEW t \in Thread, RescanSleeps(t)  PROVE Fields'
  BY <1>11 DEF RescanSleeps
<1>12. ASSUME NEW t \in Thread, SleepRefused(t)  PROVE Fields'
  BY <1>12, FreedFields DEF SleepRefused, Leave, GiveBack
<1>13. CASE UNCHANGED vars
  BY <1>13 DEF vars
<1> QED BY <1>1, <1>2, <1>3, <1>4, <1>5, <1>6, <1>7, <1>8, <1>9, <1>10, <1>11, <1>12, <1>13 DEF Next

\* A wait begins on open events, and no event becomes absent.
LEMMA WaitStep ==
    ASSUME TypeOK, WaitInv, [Next]_vars
    PROVE  WaitInv'
<1> USE RequestsAssumption DEF TypeOK, Fields, WaitInv, Inside
<1>1. ASSUME NEW e \in Event, NEW b \in BOOLEAN, CreateGameEvent(e, b)  PROVE WaitInv'
  <2>1. \A f \in Event : exists'[f] = "absent" => exists[f] = "absent"
    BY <1>1 DEF CreateGameEvent
  <2> QED BY <1>1, <2>1, ProperHandles DEF CreateGameEvent
<1>2. ASSUME NEW e \in Event, CloseGameEvent(e)  PROVE WaitInv'
  <2>1. \A f \in Event : exists'[f] = "absent" <=> exists[f] = "absent"
    BY <1>2, FreedFields DEF CloseGameEvent
  <2> QED BY <1>2, <2>1, ProperHandles DEF CloseGameEvent
<1>3. ASSUME NEW e \in Event, SetGameEvent(e)  PROVE WaitInv'
  BY <1>3 DEF SetGameEvent
<1>4. ASSUME NEW e \in Event, ResetGameEvent(e)  PROVE WaitInv'
  BY <1>4 DEF ResetGameEvent
<1>5. ASSUME NEW t \in Thread, NEW r \in Requests, WaitRejected(t, r)  PROVE WaitInv'
  BY <1>5 DEF WaitRejected
<1>6. ASSUME NEW t \in Thread, NEW r \in Requests, WaitReturns(t, r)  PROVE WaitInv'
  BY <1>6 DEF WaitReturns
<1>7. ASSUME NEW t \in Thread, NEW r \in Requests, WaitSleeps(t, r)  PROVE WaitInv'
  BY <1>7 DEF WaitSleeps, MayCall, Proper
<1>8. ASSUME NEW t \in Thread, Expire(t)  PROVE WaitInv'
  BY <1>8 DEF Expire
<1>9. ASSUME NEW t \in Thread, SpuriousWakeup(t)  PROVE WaitInv'
  BY <1>9 DEF SpuriousWakeup
<1>10. ASSUME NEW t \in Thread, RescanReturns(t)  PROVE WaitInv'
  <2>1. \A f \in Event : exists'[f] = "absent" <=> exists[f] = "absent"
    BY <1>10, FreedFields DEF RescanReturns, Leave
  <2>2. /\ pc' = [pc EXCEPT ![t] = "outside"] /\ req' = [req EXCEPT ![t] = NoRequest]
        /\ expired' = [expired EXCEPT ![t] = FALSE]
    BY <1>10 DEF RescanReturns, Leave
  <2> QED BY <2>1, <2>2, ProperHandles
<1>11. ASSUME NEW t \in Thread, RescanSleeps(t)  PROVE WaitInv'
  BY <1>11 DEF RescanSleeps
<1>12. ASSUME NEW t \in Thread, SleepRefused(t)  PROVE WaitInv'
  <2>1. \A f \in Event : exists'[f] = "absent" <=> exists[f] = "absent"
    BY <1>12, FreedFields DEF SleepRefused, Leave
  <2>2. /\ pc' = [pc EXCEPT ![t] = "outside"] /\ req' = [req EXCEPT ![t] = NoRequest]
        /\ expired' = [expired EXCEPT ![t] = FALSE]
    BY <1>12 DEF SleepRefused, Leave
  <2> QED BY <2>1, <2>2, ProperHandles
<1>13. CASE UNCHANGED vars
  BY <1>13 DEF vars
<1> QED BY <1>1, <1>2, <1>3, <1>4, <1>5, <1>6, <1>7, <1>8, <1>9, <1>10, <1>11, <1>12, <1>13 DEF Next

\* Only the events of a wait are taken, and only open ones are closed.
LEMMA AbsentStep ==
    ASSUME TypeOK, WaitInv, AbsentInv, [Next]_vars
    PROVE  AbsentInv'
<1> USE DEF TypeOK, Fields, AbsentInv
<1>1. ASSUME NEW e \in Event, NEW b \in BOOLEAN, CreateGameEvent(e, b)  PROVE AbsentInv'
  BY <1>1 DEF CreateGameEvent
<1>2. ASSUME NEW e \in Event, CloseGameEvent(e)  PROVE AbsentInv'
  BY <1>2, FreedFields DEF CloseGameEvent
<1>3. ASSUME NEW e \in Event, SetGameEvent(e)  PROVE AbsentInv'
  BY <1>3 DEF SetGameEvent
<1>4. ASSUME NEW e \in Event, ResetGameEvent(e)  PROVE AbsentInv'
  BY <1>4 DEF ResetGameEvent
<1>5. ASSUME NEW t \in Thread, NEW r \in Requests, WaitRejected(t, r)  PROVE AbsentInv'
  BY <1>5 DEF WaitRejected
<1>6. ASSUME NEW t \in Thread, NEW r \in Requests, WaitReturns(t, r)  PROVE AbsentInv'
  <2>1. PICK late : ScanReturns(t, r, late)
    BY <1>6 DEF WaitReturns
  <2>2. \A e \in Handles(r) : exists[e] # "absent"
    BY <1>6 DEF WaitReturns, MayCall
  <2> QED BY <1>6, <2>1, <2>2, ScanEffect DEF WaitReturns
<1>7. ASSUME NEW t \in Thread, NEW r \in Requests, WaitSleeps(t, r)  PROVE AbsentInv'
  BY <1>7 DEF WaitSleeps
<1>8. ASSUME NEW t \in Thread, Expire(t)  PROVE AbsentInv'
  BY <1>8 DEF Expire
<1>9. ASSUME NEW t \in Thread, SpuriousWakeup(t)  PROVE AbsentInv'
  BY <1>9 DEF SpuriousWakeup
<1>10. ASSUME NEW t \in Thread, RescanReturns(t)  PROVE AbsentInv'
  <2>1. ScanReturns(t, req[t], expired[t])
    BY <1>10 DEF RescanReturns
  <2>2. \A e \in Handles(req[t]) : exists[e] # "absent"
    BY <1>10 DEF RescanReturns, WaitInv, Inside
  <2> QED BY <1>10, <2>1, <2>2, ScanEffect, FreedFields DEF RescanReturns, Leave
<1>11. ASSUME NEW t \in Thread, RescanSleeps(t)  PROVE AbsentInv'
  BY <1>11 DEF RescanSleeps
<1>12. ASSUME NEW t \in Thread, SleepRefused(t)  PROVE AbsentInv'
  BY <1>12, FreedFields DEF SleepRefused, Leave
<1>13. CASE UNCHANGED vars
  BY <1>13 DEF vars
<1> QED BY <1>1, <1>2, <1>3, <1>4, <1>5, <1>6, <1>7, <1>8, <1>9, <1>10, <1>11, <1>12, <1>13 DEF Next

\* A signal that is counted as released is taken.
LEMMA ReleaseStep ==
    ASSUME TypeOK, AbsentInv, OneReleasePerSignal, [Next]_vars
    PROVE  OneReleasePerSignal'
<1> USE DEF TypeOK, Fields, OneReleasePerSignal
<1>1. ASSUME NEW e \in Event, NEW b \in BOOLEAN, CreateGameEvent(e, b)  PROVE OneReleasePerSignal'
  BY <1>1 DEF CreateGameEvent, AbsentInv
<1>2. ASSUME NEW e \in Event, CloseGameEvent(e)  PROVE OneReleasePerSignal'
  BY <1>2 DEF CloseGameEvent
<1>3. ASSUME NEW e \in Event, SetGameEvent(e)  PROVE OneReleasePerSignal'
  BY <1>3 DEF SetGameEvent
<1>4. ASSUME NEW e \in Event, ResetGameEvent(e)  PROVE OneReleasePerSignal'
  BY <1>4 DEF ResetGameEvent
<1>5. ASSUME NEW t \in Thread, NEW r \in Requests, WaitRejected(t, r)  PROVE OneReleasePerSignal'
  BY <1>5 DEF WaitRejected
<1>6. ASSUME NEW t \in Thread, NEW r \in Requests, WaitReturns(t, r)  PROVE OneReleasePerSignal'
  <2>1. PICK late : ScanReturns(t, r, late)
    BY <1>6 DEF WaitReturns
  <2>2. signals' = signals
    BY <1>6 DEF WaitReturns
  <2> QED BY <2>1, <2>2, ScanEffect
<1>7. ASSUME NEW t \in Thread, NEW r \in Requests, WaitSleeps(t, r)  PROVE OneReleasePerSignal'
  BY <1>7 DEF WaitSleeps
<1>8. ASSUME NEW t \in Thread, Expire(t)  PROVE OneReleasePerSignal'
  BY <1>8 DEF Expire
<1>9. ASSUME NEW t \in Thread, SpuriousWakeup(t)  PROVE OneReleasePerSignal'
  BY <1>9 DEF SpuriousWakeup
<1>10. ASSUME NEW t \in Thread, RescanReturns(t)  PROVE OneReleasePerSignal'
  <2>1. ScanReturns(t, req[t], expired[t])
    BY <1>10 DEF RescanReturns
  <2> QED BY <1>10, <2>1, ScanEffect DEF RescanReturns, Leave
<1>11. ASSUME NEW t \in Thread, RescanSleeps(t)  PROVE OneReleasePerSignal'
  BY <1>11 DEF RescanSleeps
<1>12. ASSUME NEW t \in Thread, SleepRefused(t)  PROVE OneReleasePerSignal'
  BY <1>12 DEF SleepRefused, Leave
<1>13. CASE UNCHANGED vars
  BY <1>13 DEF vars
<1> QED BY <1>1, <1>2, <1>3, <1>4, <1>5, <1>6, <1>7, <1>8, <1>9, <1>10, <1>11, <1>12, <1>13 DEF Next

\* Whether a sleeper is still undecided, for the steps that leave it asleep
LEMMA SleepersUndecided ==
    ASSUME TypeOK, WaitInv, NoLostWakeup, closed' = closed,
           \A t \in Thread : pc'[t] = "asleep" => pc[t] = "asleep" /\ req'[t] = req[t],
           \A t \in Thread : pc[t] = "asleep" =>
              \A e \in Handles(req[t]) : signalled'[e] => signalled[e]
    PROVE  NoLostWakeup'
<1> SUFFICES ASSUME NEW t \in Thread, pc'[t] = "asleep"
             PROVE  ~Ready(req[t])' /\ ~AnyClosed(req[t])'
  BY DEF NoLostWakeup
<1>1. Proper(req[t]) /\ ~Ready(req[t]) /\ ~AnyClosed(req[t]) /\ req'[t] = req[t]
  BY DEF NoLostWakeup, WaitInv, Inside
<1>2. PICK q : q = req[t]
  OBVIOUS
<1>3. ~Ready(q)'
  BY <1>1, <1>2, ReadyShrinks
<1>4. ~AnyClosed(q)'
  BY <1>1, <1>2 DEF AnyClosed
<1> QED BY <1>1, <1>2, <1>3, <1>4 DEF Ready, Selected, AnyClosed, Handles

\* Whatever sets or closes an event wakes all sleepers; nothing else decides a
\* wait, and a thread falls asleep undecided.
LEMMA WakeupStep ==
    ASSUME TypeOK, WaitInv, NoLostWakeup, [Next]_vars
    PROVE  NoLostWakeup'
<1>1. ASSUME NEW e \in Event, NEW b \in BOOLEAN, CreateGameEvent(e, b)  PROVE NoLostWakeup'
  <2>1. \A t \in Thread : pc[t] = "asleep" => e \notin Handles(req[t])
    BY <1>1 DEF CreateGameEvent, WaitInv, Inside
  <2>2. \A f \in Event : f # e => signalled'[f] = signalled[f]
    BY <1>1 DEF CreateGameEvent, TypeOK, Fields
  <2>3. \A t \in Thread : pc[t] = "asleep" => Handles(req[t]) \subseteq Event
    BY ProperHandles DEF WaitInv, Inside
  <2>4. UNCHANGED <<closed, pc, req>>
    BY <1>1 DEF CreateGameEvent
  <2> QED BY <2>1, <2>2, <2>3, <2>4, SleepersUndecided
<1>2. ASSUME NEW e \in Event, CloseGameEvent(e)  PROVE NoLostWakeup'
  <2>1. \A t \in Thread : pc'[t] # "asleep"
    BY <1>2 DEF CloseGameEvent, TypeOK, Fields
  <2> QED BY <2>1 DEF NoLostWakeup
<1>3. ASSUME NEW e \in Event, SetGameEvent(e)  PROVE NoLostWakeup'
  <2>1. \A t \in Thread : pc'[t] # "asleep"
    BY <1>3 DEF SetGameEvent, TypeOK, Fields
  <2> QED BY <2>1 DEF NoLostWakeup
<1>4. ASSUME NEW e \in Event, ResetGameEvent(e)  PROVE NoLostWakeup'
  <2>1. \A u \in Thread : pc[u] = "asleep" => Handles(req[u]) \subseteq Event
    BY ProperHandles DEF WaitInv, Inside
  <2>2. \A f \in Event : signalled'[f] => signalled[f]
    BY <1>4 DEF ResetGameEvent, TypeOK, Fields
  <2>3. UNCHANGED <<closed, pc, req>>
    BY <1>4 DEF ResetGameEvent
  <2> QED BY <2>1, <2>2, <2>3, SleepersUndecided
<1>5. ASSUME NEW t \in Thread, NEW r \in Requests, WaitRejected(t, r)  PROVE NoLostWakeup'
  <2>1. closed' = closed /\ signalled' = signalled
    BY <1>5 DEF WaitRejected
  <2>2. \A u \in Thread : pc'[u] = "asleep" => pc[u] = "asleep" /\ req'[u] = req[u]
    BY <1>5 DEF WaitRejected, TypeOK, Fields
  <2> QED BY <2>1, <2>2, SleepersUndecided
<1>6. ASSUME NEW t \in Thread, NEW r \in Requests, WaitReturns(t, r)  PROVE NoLostWakeup'
  <2>1. \A u \in Thread : pc[u] = "asleep" => Handles(req[u]) \subseteq Event
    BY ProperHandles DEF WaitInv, Inside
  <2>2. PICK late : ScanReturns(t, r, late)
    BY <1>6 DEF WaitReturns
  <2>3. \A f \in Event : signalled'[f] => signalled[f]
    BY <2>2, ScanTakes
  <2>4. UNCHANGED <<closed, pc, req>>
    BY <1>6 DEF WaitReturns
  <2> QED BY <2>1, <2>3, <2>4, SleepersUndecided
<1>7. ASSUME NEW t \in Thread, NEW r \in Requests, WaitSleeps(t, r)  PROVE NoLostWakeup'
  <2>1. UNCHANGED <<signalled, closed>>
    BY <1>7 DEF WaitSleeps
  <2>2. ~Ready(r) /\ ~AnyClosed(r)
    BY <1>7 DEF WaitSleeps
  <2>3. \A u \in Thread : pc'[u] = "asleep" =>
           \/ u = t /\ req'[u] = r
           \/ pc[u] = "asleep" /\ req'[u] = req[u]
    BY <1>7 DEF WaitSleeps, TypeOK, Fields
  <2>4. ASSUME NEW u \in Thread, pc'[u] = "asleep"
        PROVE  ~Ready(req'[u]) /\ ~AnyClosed(req'[u])
    BY <2>2, <2>3, <2>4 DEF NoLostWakeup
  <2> QED BY <2>1, <2>4 DEF NoLostWakeup, Ready, Selected, AnyClosed, Handles
<1>8. ASSUME NEW t \in Thread, Expire(t)  PROVE NoLostWakeup'
  <2>1. closed' = closed /\ signalled' = signalled
    BY <1>8 DEF Expire
  <2>2. \A u \in Thread : pc'[u] = "asleep" => pc[u] = "asleep" /\ req'[u] = req[u]
    BY <1>8 DEF Expire, TypeOK, Fields
  <2> QED BY <2>1, <2>2, SleepersUndecided
<1>9. ASSUME NEW t \in Thread, SpuriousWakeup(t)  PROVE NoLostWakeup'
  <2>1. closed' = closed /\ signalled' = signalled
    BY <1>9 DEF SpuriousWakeup
  <2>2. \A u \in Thread : pc'[u] = "asleep" => pc[u] = "asleep" /\ req'[u] = req[u]
    BY <1>9 DEF SpuriousWakeup, TypeOK, Fields
  <2> QED BY <2>1, <2>2, SleepersUndecided
<1>10. ASSUME NEW t \in Thread, RescanReturns(t)  PROVE NoLostWakeup'
  <2>1. \A u \in Thread : pc[u] = "asleep" => Handles(req[u]) \subseteq Event
    BY ProperHandles DEF WaitInv, Inside
  <2>2. ScanReturns(t, req[t], expired[t])
    BY <1>10 DEF RescanReturns
  <2>3. \A f \in Event : signalled'[f] => signalled[f]
    BY <2>2, ScanTakes
  <2>4. closed' = closed
    BY <1>10 DEF RescanReturns, Leave
  <2>5. \A u \in Thread : pc'[u] = "asleep" => pc[u] = "asleep" /\ req'[u] = req[u]
    BY <1>10 DEF RescanReturns, Leave, TypeOK, Fields
  <2> QED BY <2>1, <2>3, <2>4, <2>5, SleepersUndecided
<1>11. ASSUME NEW t \in Thread, RescanSleeps(t)  PROVE NoLostWakeup'
  <2>1. UNCHANGED <<signalled, closed>>
    BY <1>11 DEF RescanSleeps
  <2>2. ~Ready(req[t]) /\ ~AnyClosed(req[t])
    BY <1>11 DEF RescanSleeps
  <2>3. \A u \in Thread : pc'[u] = "asleep" =>
           \/ u = t /\ req'[u] = req[t]
           \/ pc[u] = "asleep" /\ req'[u] = req[u]
    BY <1>11 DEF RescanSleeps, TypeOK, Fields
  <2>4. ASSUME NEW u \in Thread, pc'[u] = "asleep"
        PROVE  ~Ready(req'[u]) /\ ~AnyClosed(req'[u])
    BY <2>2, <2>3, <2>4 DEF NoLostWakeup
  <2> QED BY <2>1, <2>4 DEF NoLostWakeup, Ready, Selected, AnyClosed, Handles
<1>12. ASSUME NEW t \in Thread, SleepRefused(t)  PROVE NoLostWakeup'
  <2>1. closed' = closed /\ signalled' = signalled
    BY <1>12 DEF SleepRefused, Leave
  <2>2. \A u \in Thread : pc'[u] = "asleep" => pc[u] = "asleep" /\ req'[u] = req[u]
    BY <1>12 DEF SleepRefused, Leave, TypeOK, Fields
  <2> QED BY <2>1, <2>2, SleepersUndecided
<1>13. CASE UNCHANGED vars
  BY <1>13, SleepersUndecided DEF vars
<1> QED BY <1>1, <1>2, <1>3, <1>4, <1>5, <1>6, <1>7, <1>8, <1>9, <1>10, <1>11, <1>12, <1>13 DEF Next

-----------------------------------------------------------------------------
(* Theorems *)

IInv == /\ TypeOK /\ WaitInv /\ AbsentInv
        /\ NoLostWakeup /\ OneReleasePerSignal /\ ReferenceInv

\* A wait in progress is on events that were created and not freed under it,
\* only a timed one has expired, and an event that does not exist has not been
\* closed or taken (GameEvents.pas 116-191), for any events, threads and
\* requests that keep the owners' contract of lines 32-33.
THEOREM Inductive == Spec => []IInv
<1>1. Init => IInv
  BY InitHolds, InitReferences DEF IInv
<1>2. ASSUME IInv, [Next]_vars  PROVE IInv'
  <2>1. ReferenceInv'
    BY <1>2, ReferenceStep DEF IInv
  <2>2. TypeOK'
    <3>1. Fields'
      BY <1>2, FieldStep DEF IInv
    <3>2. references' \in [Event -> Nat]
      BY <2>1, <3>1, NextReferencesAreNumbers DEF Fields
    <3> QED BY <3>1, <3>2 DEF Fields, TypeOK
  <2> QED BY <1>2, <2>1, <2>2, WaitStep, AbsentStep, WakeupStep, ReleaseStep DEF IInv
<1> QED BY <1>1, <1>2, PTL DEF Spec

\* No signal and no close is lost between a waiter's scan and its sleep
\* (lines 181-182): the broadcast of every set and close, and the mutex.
THEOREM Wakeups == Spec => []NoLostWakeup
<1>1. IInv => NoLostWakeup
  BY DEF IInv
<1> QED BY <1>1, Inductive, PTL

\* One signal of an auto-reset event ends one wait at most (lines 157-169).
THEOREM Releases == Spec => []OneReleasePerSignal
<1>1. IInv => OneReleasePerSignal
  BY DEF IInv
<1> QED BY <1>1, Inductive, PTL

\* The count of an event is its owner's reference and one for every entry that
\* the waits in progress have for it, and the object lives while it is not 0
\* (lines 55-60, 132-139 and 186-190).
THEOREM References == Spec => []ReferencesExact
<1>1. IInv => ReferencesExact
  BY DEF IInv, ReferenceInv
<1> QED BY <1>1, Inductive, PTL

-----------------------------------------------------------------------------
(* The simulation of EventWaits *)

\* A scan ends a wait where the abstract event objects do, and as they do.
LEMMA ScansAgree ==
    ASSUME NEW r, Proper(r)
    PROVE  /\ Waits!Handles(r) = Handles(r)
           /\ Waits!Satisfied(r) <=> Ready(r)
           /\ Waits!Consumed(r) = Taken(r)
<1>1. Waits!Handles(r) = Handles(r)
  BY DEF Waits!Handles, Handles
<1>2. Waits!Satisfied(r) <=> Ready(r)
  BY <1>1, ReadyMeans DEF Waits!Satisfied
<1>3. \A i : Waits!IsSelected(r, i) <=> i \in Selected(r)
  BY DEF Waits!IsSelected, Selected
<1>4. Handles(r) \subseteq Event /\ \A i \in Selected(r) : r.handles[i] \in Event
  BY ProperHandles DEF Selected, Handles
<1>5. Waits!Consumed(r) = Taken(r)
  BY <1>1, <1>3, <1>4 DEF Waits!Consumed, Taken, Ending, Selected
<1> QED BY <1>1, <1>2, <1>5

LEMMA EndsAgree ==
    ASSUME TypeOK, NEW t, NEW r, Proper(r), NEW late,
           ScanReturns(t, r, late), late => r.timeout # "infinite"
    PROVE  Waits!Ends(t, r)
<1>1. CASE ScanSucceeds(t, r)
  BY <1>1, ScansAgree DEF ScanSucceeds, Waits!Ends, Waits!Succeeds
<1>2. CASE ScanFails(t, r)
  BY <1>2, ScansAgree DEF ScanFails, AnyClosed, Waits!Ends, Waits!Fails
<1>3. CASE ScanTimesOut(t, r, late)
  BY <1>3, ScansAgree DEF ScanTimesOut, AnyClosed, Waits!Ends, Waits!TimesOut
<1> QED BY <1>1, <1>2, <1>3 DEF ScanReturns

\* Each step is one of the abstract event objects, or leaves them alone.
LEMMA StepSimulation ==
    ASSUME IInv, [Next]_vars
    PROVE  [Waits!Next]_(Waits!vars)
<1> USE DEF IInv
<1>1. ASSUME NEW e \in Event, NEW b \in BOOLEAN, CreateGameEvent(e, b)
      PROVE  [Waits!Next]_(Waits!vars)
  <2>1. Waits!Assign(e)
    BY <1>1 DEF CreateGameEvent, AbsentInv, Waits!Assign
  <2> QED BY <2>1 DEF Waits!Next
<1>2. ASSUME NEW e \in Event, CloseGameEvent(e)
      PROVE  [Waits!Next]_(Waits!vars)
  <2>1. Waits!Close(e)
    BY <1>2 DEF CloseGameEvent, Waits!Close
  <2> QED BY <2>1 DEF Waits!Next
<1>3. ASSUME NEW e \in Event, SetGameEvent(e)
      PROVE  [Waits!Next]_(Waits!vars)
  <2>1. Waits!Assign(e)
    BY <1>3 DEF SetGameEvent, Waits!Assign
  <2> QED BY <2>1 DEF Waits!Next
<1>4. ASSUME NEW e \in Event, ResetGameEvent(e)
      PROVE  [Waits!Next]_(Waits!vars)
  <2>1. Waits!Assign(e)
    BY <1>4 DEF ResetGameEvent, Waits!Assign
  <2> QED BY <2>1 DEF Waits!Next
<1>5. ASSUME NEW t \in Thread, NEW r \in Requests, WaitRejected(t, r)
      PROVE  [Waits!Next]_(Waits!vars)
  <2>1. req[t] = NoRequest
    BY <1>5 DEF WaitRejected, MayCall, WaitInv, Inside
  <2>2. Waits!CallReturns(t, r)
    BY <1>5, <2>1 DEF WaitRejected, Waits!CallReturns, Waits!Refused
  <2> QED BY <2>2 DEF Waits!Next
<1>6. ASSUME NEW t \in Thread, NEW r \in Requests, WaitReturns(t, r)
      PROVE  [Waits!Next]_(Waits!vars)
  <2>1. req[t] = NoRequest
    BY <1>6 DEF WaitReturns, MayCall, WaitInv, Inside
  <2>2. Proper(r)
    BY <1>6 DEF WaitReturns, Proper
  <2>3. PICK late \in {r.timeout = "poll", r.timeout # "infinite"} : ScanReturns(t, r, late)
    BY <1>6 DEF WaitReturns
  <2>4. late => r.timeout # "infinite"
    BY <2>3
  <2>5. Waits!Ends(t, r) /\ Waits!Handles(r) \subseteq Event
    BY <2>2, <2>3, <2>4, EndsAgree, ScansAgree, ProperHandles
  <2>6. Waits!CallReturns(t, r)
    BY <1>6, <2>1, <2>5 DEF WaitReturns, Waits!CallReturns
  <2> QED BY <2>6 DEF Waits!Next
<1>7. ASSUME NEW t \in Thread, NEW r \in Requests, WaitSleeps(t, r)
      PROVE  [Waits!Next]_(Waits!vars)
  <2>1. req[t] = NoRequest
    BY <1>7 DEF WaitSleeps, MayCall, WaitInv, Inside
  <2>2. Proper(r)
    BY <1>7 DEF WaitSleeps, Proper
  <2>3. /\ Waits!Handles(r) \subseteq Event /\ ~Waits!Satisfied(r)
        /\ \A e \in Waits!Handles(r) : ~closed[e]
    BY <1>7, <2>2, ScansAgree, ProperHandles DEF WaitSleeps, AnyClosed
  <2>4. Waits!CallBlocks(t, r)
    BY <1>7, <2>1, <2>3 DEF WaitSleeps, Waits!CallBlocks
  <2> QED BY <2>4 DEF Waits!Next
<1>8. ASSUME NEW t \in Thread, Expire(t)
      PROVE  [Waits!Next]_(Waits!vars)
  BY <1>8 DEF Expire, Waits!vars
<1>9. ASSUME NEW t \in Thread, SpuriousWakeup(t)
      PROVE  [Waits!Next]_(Waits!vars)
  BY <1>9 DEF SpuriousWakeup, Waits!vars
<1>10. ASSUME NEW t \in Thread, RescanReturns(t)
      PROVE  [Waits!Next]_(Waits!vars)
  <2>1. req[t] # NoRequest /\ Proper(req[t]) /\ (expired[t] => req[t].timeout # "infinite")
    BY <1>10 DEF RescanReturns, WaitInv, Inside
  <2>2. Waits!Ends(t, req[t])
    BY <1>10, <2>1, EndsAgree DEF RescanReturns
  <2>3. Waits!Return(t)
    BY <1>10, <2>1, <2>2 DEF RescanReturns, Leave, Waits!Return
  <2> QED BY <2>3 DEF Waits!Next
<1>11. ASSUME NEW t \in Thread, RescanSleeps(t)
      PROVE  [Waits!Next]_(Waits!vars)
  BY <1>11 DEF RescanSleeps, Waits!vars
<1>12. ASSUME NEW t \in Thread, SleepRefused(t)
      PROVE  [Waits!Next]_(Waits!vars)
  <2>1. req[t] # NoRequest
    BY <1>12 DEF SleepRefused, WaitInv, Inside
  <2>2. Waits!SleepRefused(t)
    BY <1>12, <2>1 DEF SleepRefused, Leave, Waits!SleepRefused, Waits!Refused
  <2> QED BY <2>2 DEF Waits!Next
<1>13. CASE UNCHANGED vars
  BY <1>13 DEF vars, Waits!vars
<1> QED BY <1>1, <1>2, <1>3, <1>4, <1>5, <1>6, <1>7, <1>8, <1>9, <1>10, <1>11, <1>12, <1>13 DEF Next

\* Every wait is one wait of EventWaits, however often its thread wakes and
\* scans again: it takes the signals that decide it and no other, and ends once.
THEOREM Simulation == Spec => Waits!Init /\ [][Waits!Next]_(Waits!vars)
<1>1. Init => Waits!Init
  BY InitHolds DEF Init, TypeOK, Fields, Waits!Init
<1>2. IInv /\ [Next]_vars => [Waits!Next]_(Waits!vars)
  BY StepSimulation
<1> QED BY <1>1, <1>2, Inductive, PTL DEF Spec
=============================================================================
