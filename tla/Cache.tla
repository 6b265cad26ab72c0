------------------------------- MODULE Cache -------------------------------
(***************************************************************************)
(* source/resources/EC_Cache.pas: the cache of decoded resources.  A       *)
(* control (TCacheControlEC) names a resource and pins its entry           *)
(* (TCacheDataEC) while somebody uses the data; entries nobody pins stay   *)
(* in a list, the most recently used first, until a budget is exceeded.    *)
(* A control belongs to one thread; the entries, their list and the count  *)
(* of resident bytes belong to all, under CacheLock.                       *)
(*                                                                         *)
(* Each critical section of CacheLock is one action.  What the code does   *)
(* without the lock (the load, the wait for another thread's load, the     *)
(* test of BoundData in Reset) lies between two actions.                   *)
(***************************************************************************)
EXTENDS Integers, Sequences, FiniteSets, FiniteSetsExt, SequencesExt

CONSTANTS Thread, Control, Key, NoKey,
          Owner,            \* Control -> the thread that uses it
          Size,             \* Key -> bytes of the decoded resource
          ResidentByteLimit,
          MaxRetains        \* bound on RetainCount

ASSUME CacheAssumption == /\ NoKey \notin Key
                          /\ Owner \in [Control -> Thread]
                          /\ Size \in [Key -> Nat]
                          /\ ResidentByteLimit \in Nat
                          /\ MaxRetains \in Nat

VARIABLES
    \* the cache
    lru,            \* the list of entries, each named by its key
    load,           \* Key -> "loading" (LoadCompleteEvent not set), "complete" or "failed"
    bytes,          \* Key -> ResidentBytes of its entry
    ResidentBytes,
    \* the controls
    CacheKey,       \* Control -> Key or NoKey
    BoundData,      \* Control -> the entry, or NoKey
    RetainCount,    \* Control -> Nat
    \* the threads
    pc,             \* Thread -> "outside", "loading", "waiting", "trimming",
                    \* "resetting", "crashed" or "astray"
    control,        \* Thread -> the control its call is about
    answer          \* Control -> what its last AcquireData came to

entries  == <<lru, load, bytes, ResidentBytes>>
controls == <<CacheKey, BoundData, RetainCount>>
threads  == <<pc, control, answer>>
vars     == <<entries, controls, threads>>

Resident == Range(lru)

\* The list without the entries ks.
Without(ks) ==
    LET kept[i \in 0 .. Len(lru)] ==
            IF i = 0 THEN <<>>
            ELSE IF lru[i] \in ks THEN kept[i - 1] ELSE Append(kept[i - 1], lru[i])
    IN  kept[Len(lru)]

\* The controls in the list of entry k.
BoundTo(k) == {c \in Control : BoundData[c] = k}

Init == /\ lru = <<>>
        /\ load = [k \in Key |-> "complete"]
        /\ bytes = [k \in Key |-> 0]
        /\ ResidentBytes = 0
        /\ CacheKey = [c \in Control |-> NoKey]
        /\ BoundData = [c \in Control |-> NoKey]
        /\ RetainCount = [c \in Control |-> 0]
        /\ pc = [t \in Thread |-> "outside"]
        /\ control = [t \in Thread |-> CHOOSE c \in Control : TRUE]
        /\ answer = [c \in Control |-> "none"]

\* A thread has freed an entry that others use: what they do is undefined.
Astray == \E t \in Thread : pc[t] = "astray"

\* A thread that crashes holds the lock, and nobody goes on.
Running == ~Astray /\ \A t \in Thread : pc[t] # "crashed"

\* A thread calls, with a control of its own, and its call goes on or ends.
Enter(c, step) == /\ Running
                  /\ pc[Owner[c]] = "outside"
                  /\ pc' = [pc EXCEPT ![Owner[c]] = step]
                  /\ control' = [control EXCEPT ![Owner[c]] = c]

Goto(t, step) == /\ Running
                 /\ pc' = [pc EXCEPT ![t] = step]
                 /\ UNCHANGED control

Answer(c, a) == answer' = [answer EXCEPT ![c] = a]

-----------------------------------------------------------------------------
\* SetCacheKey: Reset, then the key.  Without an entry there is no lock to take.
SetCacheKey(c, k) ==
    /\ BoundData[c] = NoKey
    /\ Enter(c, "outside")
    /\ RetainCount' = [RetainCount EXCEPT ![c] = 0]
    /\ CacheKey' = [CacheKey EXCEPT ![c] = k]
    /\ Answer(c, "none")
    /\ UNCHANGED <<entries, BoundData>>

\* Reset, and the destructor: the control is seen to have an entry.
Reset(c) ==
    /\ BoundData[c] # NoKey
    /\ Enter(c, "resetting")
    /\ RetainCount' = [RetainCount EXCEPT ![c] = 0]
    /\ Answer(c, "none")
    /\ UNCHANGED <<entries, CacheKey, BoundData>>

\* Then, under the lock, the control leaves the list of its entry.  An entry
\* that was freed in between has left BoundData nil, and is used all the same:
\* the thread crashes with the lock taken, and the program is over.
ResetUnlink(t) ==
    LET c == control[t] IN
    /\ pc[t] = "resetting"
    /\ BoundData' = [BoundData EXCEPT ![c] = NoKey]
    /\ CacheKey' = [CacheKey EXCEPT ![c] = NoKey]
    /\ Goto(t, IF BoundData[c] = NoKey THEN "crashed" ELSE "outside")
    /\ UNCHANGED <<entries, RetainCount, answer>>

-----------------------------------------------------------------------------
\* AcquireData, AcquireDataFromConfig and AcquireDataFromDirectKey.

\* A failed load is raised again; otherwise the call goes on to the trim.
CheckLoadFailure(c, k) == IF load[k] = "failed" THEN Answer(c, "raised") ELSE Answer(c, "data")
AfterCheck(k) == IF load[k] = "failed" THEN "outside" ELSE "trimming"

TouchData(k) == IF load[k] = "failed" THEN lru ELSE <<k>> \o Without({k})

\* The control pins its entry already: no lock.
AcquireRetained(c) ==
    LET k == BoundData[c] IN
    /\ RetainCount[c] \in 1..(MaxRetains - 1)
    /\ Enter(c, AfterCheck(k))
    /\ CheckLoadFailure(c, k)
    /\ RetainCount' = IF load[k] = "failed" THEN RetainCount
                                            ELSE [RetainCount EXCEPT ![c] = @ + 1]
    /\ UNCHANGED <<entries, CacheKey, BoundData>>

\* It has an entry it does not pin.
AcquireBound(c) ==
    LET k == BoundData[c] IN
    /\ RetainCount[c] = 0 /\ k # NoKey
    /\ Enter(c, AfterCheck(k))
    /\ CheckLoadFailure(c, k)
    /\ RetainCount' = [RetainCount EXCEPT ![c] = 1]
    /\ lru' = TouchData(k)
    /\ UNCHANGED <<load, bytes, ResidentBytes, CacheKey, BoundData>>

\* A slip: an entry that is still being loaded is not found.
FindLoaded(k) == k \in Resident /\ load[k] # "loading"

FindDataByKeyAndClass(k) == k \in Resident

Bind(c) == /\ RetainCount[c] = 0 /\ BoundData[c] = NoKey /\ CacheKey[c] # NoKey
           /\ BoundData' = [BoundData EXCEPT ![c] = CacheKey[c]]
           /\ RetainCount' = [RetainCount EXCEPT ![c] = 1]

\* Nobody has loaded the resource: this thread does, with the lock left.
AcquireNew(c) ==
    /\ ~FindDataByKeyAndClass(CacheKey[c])
    /\ Bind(c)
    /\ Enter(c, "loading")
    /\ lru' = <<CacheKey[c]>> \o lru
    /\ load' = [load EXCEPT ![CacheKey[c]] = "loading"]
    /\ bytes' = [bytes EXCEPT ![CacheKey[c]] = 0]
    /\ Answer(c, "none")
    /\ UNCHANGED <<ResidentBytes, CacheKey>>

\* A slip: the entry is there, so its data are.
AcquireFoundAtOnce(c) ==
    /\ FindDataByKeyAndClass(CacheKey[c])
    /\ Bind(c)
    /\ Enter(c, AfterCheck(CacheKey[c]))
    /\ CheckLoadFailure(c, CacheKey[c])
    /\ lru' = TouchData(CacheKey[c])
    /\ UNCHANGED <<load, bytes, ResidentBytes, CacheKey>>

\* Somebody has, or is loading it: the entry is pinned before the lock is left.
AcquireFound(c) ==
    /\ FindDataByKeyAndClass(CacheKey[c])
    /\ Bind(c)
    /\ Enter(c, "waiting")
    /\ Answer(c, "none")
    /\ UNCHANGED <<entries, CacheKey>>

\* The lock is taken again after LoadFromConfigBuffer or LoadFromKey, which has
\* counted its bytes so far when it fails; the completion event is set.
LoadCompletes(t) ==
    LET c == control[t]  k == BoundData[c] IN
    /\ pc[t] = "loading"
    /\ Goto(t, "trimming")
    /\ load' = [load EXCEPT ![k] = "complete"]
    /\ bytes' = [bytes EXCEPT ![k] = Size[k]]
    /\ ResidentBytes' = ResidentBytes + Size[k]
    /\ lru' = <<k>> \o Without({k})
    /\ Answer(c, "data")
    /\ UNCHANGED controls

\* A slip: the exception leaves the procedure past the event.
LoadFailsSilently(t) ==
    /\ pc[t] = "loading"
    /\ Goto(t, "outside")
    /\ Answer(control[t], "raised")
    /\ UNCHANGED <<entries, controls>>

LoadFails(t) ==
    LET c == control[t]  k == BoundData[c] IN
    /\ pc[t] = "loading"
    /\ Goto(t, "outside")
    /\ load' = [load EXCEPT ![k] = "failed"]
    /\ \E n \in {0, Size[k]} : /\ bytes' = [bytes EXCEPT ![k] = n]
                               /\ ResidentBytes' = ResidentBytes + n
    /\ Answer(c, "raised")
    /\ UNCHANGED <<lru, controls>>

\* The wait for LoadCompleteEvent is over and the lock taken.
WaitEnds(t) ==
    LET c == control[t]  k == BoundData[c] IN
    /\ pc[t] = "waiting" /\ Running /\ load[k] # "loading"
    /\ lru' = TouchData(k)
    /\ CheckLoadFailure(c, k)
    /\ Goto(t, AfterCheck(k))
    /\ UNCHANGED <<load, bytes, ResidentBytes, controls>>

Release(c) == /\ Enter(c, "outside")
              /\ RetainCount[c] > 0
              /\ RetainCount' = [RetainCount EXCEPT ![c] = @ - 1]
              /\ UNCHANGED <<entries, CacheKey, BoundData, answer>>

-----------------------------------------------------------------------------
\* TrimToBudget: from the least recently used on, entries that no control pins
\* are freed for as long as the budget is reached.

\* A slip: the control list is not looked at.
AnyEntry == Resident

Unpinned == {k \in Resident : \A c \in BoundTo(k) : RetainCount[c] = 0}

Position(k) == CHOOSE i \in DOMAIN lru : lru[i] = k
SizeOf(ks)  == MapThenSumSet(LAMBDA k : bytes[k], ks)

Trimmed(budget) ==
    {k \in Unpinned :
        ResidentBytes - SizeOf({j \in Unpinned : Position(j) > Position(k)}) >= budget}

\* RemoveAndFreeData for each: the destructor unlinks their controls.
Free(ks) == /\ lru' = Without(ks)
            /\ BoundData' = [c \in Control |-> IF BoundData[c] \in ks THEN NoKey ELSE BoundData[c]]

\* A slip: only the local copy of the count goes down.
TrimUncounted(budget) == Free(Trimmed(budget)) /\ UNCHANGED ResidentBytes

TrimToBudget(budget) == /\ Free(Trimmed(budget))
                        /\ ResidentBytes' = ResidentBytes - SizeOf(Trimmed(budget))

\* The end of AcquireData.
Trim(t) == /\ pc[t] = "trimming"
           /\ TrimToBudget(ResidentByteLimit)
           /\ Goto(t, "outside")
           /\ UNCHANGED <<load, bytes, CacheKey, RetainCount, answer>>

\* Before a planetary battle everything that can go goes (Robot.pas).
TrimAll(t) == /\ Running
              /\ pc[t] = "outside"
              /\ TrimToBudget(0)
              /\ UNCHANGED <<load, bytes, CacheKey, RetainCount, threads>>

Evicted(k) == bytes[k]

\* One entry is freed, by way of a control that does not pin it.  The code looks at
\* no other control: that nobody else pins the entry is for the callers to see to,
\* who evict the pictures of a screen they have left and a script they have read.
EvictData(c) ==
    LET k == IF BoundData[c] = NoKey THEN CacheKey[c] ELSE BoundData[c] IN
    /\ RetainCount[c] = 0 /\ k \in Resident
    /\ Enter(c, IF k \in Unpinned THEN "outside" ELSE "astray")
    /\ ResidentBytes' = ResidentBytes - Evicted(k)
    /\ Free({k})
    /\ UNCHANGED <<load, bytes, CacheKey, RetainCount, answer>>

-----------------------------------------------------------------------------
ThreadProceeds(t) == ResetUnlink(t) \/ LoadCompletes(t) \/ WaitEnds(t) \/ Trim(t)

Next == \/ \E c \in Control :
              \/ \E k \in Key : SetCacheKey(c, k)
              \/ Reset(c)
              \/ AcquireRetained(c) \/ AcquireBound(c) \/ AcquireNew(c) \/ AcquireFound(c)
              \/ Release(c) \/ EvictData(c)
        \/ \E t \in Thread : ThreadProceeds(t) \/ LoadFails(t) \/ TrimAll(t)

\* Threads inside a call are scheduled, and a load comes to an end.
Fairness == \A t \in Thread : WF_vars(ThreadProceeds(t) \/ LoadFails(t))

Spec == Init /\ [][Next]_vars /\ Fairness

-----------------------------------------------------------------------------
\* The properties are about the program until an eviction, if ever one does, frees
\* an entry that another control pins: EvictData itself does not keep from it.

\* No trim frees an entry under a control that pins it, under a thread that loads it
\* or waits for it, or leaves a control bound to an entry that is gone: the pin is
\* taken before the lock is left for the wait (lines 235-243), and a trim looks at
\* every control of an entry (566-584).  Only Reset, which tests BoundData without
\* the lock (125-128), can come upon a freed entry.
EntriesOutliveTheirUsers ==
    ~Astray =>
        /\ \A c \in Control : BoundData[c] # NoKey => BoundData[c] \in Resident
        /\ \A c \in Control : RetainCount[c] > 0 => BoundData[c] # NoKey
        /\ \A t \in Thread : pc[t] \in {"loading", "waiting"} => BoundData[control[t]] # NoKey

\* A resource has one entry, and one thread loads it, however many ask for it
\* at once (lines 185-201).
OneLoadPerResource ==
    ~Astray =>
        /\ IsInjective(lru)
        /\ \A t, u \in Thread :
              pc[t] = "loading" /\ pc[u] = "loading" /\ t # u =>
                 BoundData[control[t]] # BoundData[control[u]]

\* Whoever was given data has all of them: nobody gets an entry that is being
\* loaded by another thread, or whose load failed (lines 239-250).
DataAreWhole ==
    ~Astray =>
        \A c \in Control :
            answer[c] = "data" /\ RetainCount[c] > 0 => load[BoundData[c]] = "complete"

\* The count of resident bytes is that of the entries whose load has ended,
\* through loads that fail, trims and evictions (lines 228, 356, 582-583).
CountIsExact ==
    ~Astray => ResidentBytes = SizeOf({k \in Resident : load[k] # "loading"})

\* Every AcquireData returns or raises, unless the program is over: a load that
\* fails wakes those who wait for it (lines 218-231).
AcquiresEnd ==
    \A t \in Thread : pc[t] \in {"loading", "waiting", "trimming"} ~>
                          pc[t] = "outside" \/ ~Running
=============================================================================
