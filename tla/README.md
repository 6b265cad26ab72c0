# A verification of Space Rangers HD (FPC)

TLA+ specifications of the parts of this repository in which threads, files and
ordering matter, model-checked with TLC, with proofs checked by TLAPS.
`PROJECT.json` lists the components, the runs, the lines each definition models,
the hazards, the mutants that show each property can fail, and the theorems.

To check a run: `tlc -config MCWorker.cfg MCWorker`; a proof: `tlapm WorkerProofs.tla`.
Each definition's lines are in `PROJECT.json` under `map`.

## Inventory

The program is a single-player game: 310k lines of Pascal that simulate a galaxy,
show it and play it, on top of SDL; and 4k lines of Python that build it. Most of
it is sequential simulation and drawing. What is hard lies where the UI thread,
which owns the game, hands work to others.

| component | state | operations | interacts with | what makes it correct |
|---|---|---|---|---|
| event objects (`platform/GameEvents.pas`) | events with signal, closed flag, references; one mutex, one condition | create, close, set, reset, wait for any or all with a deadline | every thread | no wakeup lost; one waiter per signal of an auto-reset event; no event freed under a waiter |
| workers (`source/core/EC_Thread.pas`) | five events, stop flag, failure report, lock | Start, IsRunning, WaitForIdle, RequestStop, Destroy | event objects; all background tasks derive from it | idle means done; failures and stops arrive; destruction ends |
| turn calculation (`source/game/ThreadCalc.pas`) | job, phase, prepared flag, primary film | galaxy turn, player-star turn, preparation | star map, through the worker, films and conversations | turns alternate; the film is not swapped while written |
| star map and turn flow (`source/screens/fStarMap.pas`, `fJump`, `fHangar`, `fPanelMain`) | mode, film, timers, break and continue flags | end turn, film timer, break, landing, jump, exit | turn calculation, conversations, script requests | each day is calculated and shown once; waits end; nobody changes the world with the worker |
| saving and loading (`source/game/aSaveLoad.pas`) | queued save, save files, `SaveLoadLock` | save, rotate, load, finalize | worker, disk, load screen | no torn file; slots in order; nothing lost for less than a newer save |
| save manager (`source/screens/fSaveManager.pas`) | list of saves | save, delete, rename | saving | deletes what the player chose |
| resource cache (`source/resources/EC_Cache.pas`, `screens/fLoad.pas`) | entries, retain counts, LRU list, budget, load events | acquire, release, evict, trim | UI thread, cache loader | no use after free; one load per entry; budget exact |
| packages and files (`EC_HsFile`, `EC_File`) | open packages, shared handles | open, read, close | cache, loader | handles are neither leaked nor shared across threads |
| script requests (`source/script/aScript.pas`, `aScriptFun.pas`) | queues, request thread, four events | queue, run in UI, dialog, abort | conversations, UI code | every request is answered or cancelled |
| ether (`source/core/EC_Ether.pas`) | locked list of names | set, get | scripts, all threads | lock released on all paths |
| music (`source/audio/GR_Music.pas`, `EC_FileStream.pas`) | requested and current track, stream halves | play, fade, next | mixer, UI thread | a request is not lost; halves are filled before played |
| mixer (`platform/GameAudio.pas`, `source/audio/GR_Sound.pas`) | voices, cursor, failure | start, stop, mix | music, sound | stops join the thread |
| UI toolkit (`source/ui/GI_MessageLoop.pas`) | callback timers, modal stack | schedule, cancel, run | all screens | cancelled timers do not fire |
| touch input (`platform/GameTouch.pas`) | fingers, gesture, queue | feed, poll, cancel | window | presses and releases pair up |
| diagnostics (`platform/GameDiagnostics.pas`) | log files, session marker | write, rotate | all threads | three backups, in order |
| simulation, battles, quests (`source/game`, `arcade`, `quests`) | the world | days, turns, choices | turn calculation, scripts | rules of the game; data-driven and sequential |
| graphics, resources, scene, screens | pictures, fonts, forms | decode, draw | UI thread | formats and layout |
| native build (`tools/build_support.py`) | codec sources, CMake directories, adapters, link, a stamp for each | fetch, configure, build, install, compile, link | host tools, disk | what is delivered is current whatever was skipped; nothing is made twice; no object of an old compiler stays |
| compiler sync (`tools/sync_fpc.py`) | `vendor/fpc`, its pin, `.local/fpc-sync.json` | sync | a local checkout, Git, the developer | an edit by hand is never overwritten; only such an edit stops a sync |
| compiler cache (`tools/compiler.py`, `switch.py`) | source tree, build compiler, compiler, runtime, three stamps | bootstrap, compile alone, make a runtime | sync, host tools | compiler, host RTL and runtime are those of the present sources |
| game build and packages (`tools/pascal.py`, `build.py`, `ios.py`, `switch.py`, `android.py`, `windows.py`) | FPC's units, the build's inventory, bundles, APK and key | compile, package, sign, publish | all the above | no stale unit is linked; what is sealed or published is whole |
| launchers and scripts (`run.py`, `serve.py`, `format.py`, `targets.py`) | none that outlives a run | | | |

## Modules

| module | models | how |
|---|---|---|
| `EventWaits` | what GameEvents promises | a wait is one outstanding request; no mutex |
| `GameEvents` | `platform/GameEvents.pas` | one action per critical section of the mutex; implements `EventWaits` |
| `GameEventsProofs` | | proofs about `GameEvents` |
| `JobService` | what a worker promises | six transitions of one status |
| `Worker` | `source/core/EC_Thread.pas` | one action per lock section or event operation; implements `JobService` |
| `WorkerProofs` | | proofs about `Worker` |
| `TurnPipeline` | `ThreadCalc.pas`, `fStarMap.pas` and the screens that calculate days | UI and worker, each step from one wait to the next |
| `TurnPipelineProofs` | | proofs about `TurnPipeline` |
| `SaveWriter` | `aSaveLoad.pas` | UI, writer, loader and disk, one action per disk operation |
| `SaveWriterProofs` | | proofs about `SaveWriter` |
| `Cache` | `source/resources/EC_Cache.pas` | one action per critical section of `CacheLock`, and the steps between them |
| `CacheProofs` | | proofs about `Cache` |
| `NativeBuild` | `tools/build_support.py` | one action per decision, step and way to fail |
| `NativeBuildProofs` | | proofs about `NativeBuild` |
| `FpcSync` | `tools/sync_fpc.py` | one action per file written; the developer's edits and pins |
| `CompilerCache` | `tools/compiler.py`, the runtime of `switch.py` | extends `FpcSync`: a build may begin with a sync |
| `CompilerCacheProofs` | | proofs about `FpcSync` and `CompilerCache` |
| `GameBuild` | `tools/pascal.py` and the packages of `build.py`, `ios.py`, `switch.py`, `android.py` | one recipe of stages per target |
| `GameBuildProofs` | | proofs about `GameBuild` |
| `MC...` | | the instances TLC checks |

The layers meet at waits. `GameEvents` shows that a wait behaves as the atomic step
of `EventWaits`; `Worker` uses such steps and shows that a worker is a
`JobService`; `TurnPipeline` and `SaveWriter` use a worker as one: a job queued by
Start, running, and idle again. The build is in three layers as well: `CompilerCache`
contains the sync; the compiler it hands over is an option of `GameBuild`, and the
libraries of `NativeBuild` are one library there, each of which may change between two
builds.

**GameEvents.** A thread is `outside`, `asleep` in `SDL_CondWaitTimeout`, or `woken`
and competing for the mutex. A call's first scan and each later one is an action.
Deadlines are a choice (`Expire`), spurious wakeups and refused sleeps are actions.
`exists`, `closed`, `references` and `signalled` are the fields of `TGameEvent`.

**Worker.** `wpc` is the place of the worker in `ProcessRequests`, `cpc` that of each
client in the method it called. Start and the end of a job change several events
under `Lock`, and waiters look at events without it, so these are separate steps.
Counters `accepted`, `executed`, `failedJob`, `ticket` and `stopOwed` are history.

**TurnPipeline.** `ui` names the wait or screen the UI thread is in; `wrk` and `Job`
the worker's job; `talkKind`, `TalkRequest`, `TalkCompleted` and `ScriptUiRequest`
the conversation; a film is the day it shows and where the player is at its end. A
player-star turn leads to space, a port, hyperspace or death by choice.
`ProcessTurnFilm` leaves the map for a landing or a station only if
`PlayerAutomaticControl` is off (7047, 7067). It always is: it is declared `False`
(`aRanger.pas:200`), the program's three assignments to it (`fHangar.pas:873`,
`fStarMap.pas:1439`, `fPanelRuins.pas:210`) are of `False`, and nothing takes its
address. So `LeavesMap` has no such condition, and a docked player never reaches stage 21
by way of it.

**SaveWriter.** `disk` maps the automatic save, the quick saves and `save.tmp` to the
game they hold and whether it is whole. `wr` is the writer's next operation. Every
operation can fail and the program can die before each.

**Cache.** An entry is named by its key. `lru` is the list of entries, `BoundData` and
`RetainCount` are the controls' fields, `pc` says where in a call a thread is between
two critical sections: it loads, waits for another's load, is about to trim, or has
seen in `Reset` that its control has an entry. `answer` is what the last acquire of a
control came to. The two procedures that acquire (`AcquireDataFromConfig`,
`AcquireDataFromDirectKey`) follow one
protocol and are the same actions. `EvictData` looks at no control but its own
(`EC_Cache.pas:347-361`) and frees what it finds. So does the model: if another control
pins the entry, the evicting thread is `"astray"`, what the others do with freed memory is
undefined, and the run ends there. The four invariants are about the program before that
(`~Astray`): they speak of trims and of the pinned wait, and of evictions only as long as
each frees an entry nobody pins.

**The build tools.** All four modules have the same shape. Between two builds the
developer changes sources, tools and options or loses generated files; a build goes from
step to step, and at each of them the command may fail or the program be killed, with
whatever the command had written by then. What is known afterwards is on the disk: the
stamps and inventories. A stamp is `Missing`, `Empty` (its step has begun and has not
ended) or the signature of the inputs. A file that the code knows by its contents
(`content_state`) has a version, which may return to an earlier value; a file it knows by
size and times (`file_state`) is *seen* by an inventory until it is written again. A
success is remembered in `outcome`, so that the properties can speak of what a build
that succeeded delivers.

**NativeBuild.** `run` has the locals of the running build: the stage of the recipe, what
`configure_native` returned (`clean`) and the stamp it found (`old`). `project[p].objects`
is the set of tools that the objects in a CMake directory were compiled with, `whole`
whether none is missing; a generator compiles what is missing and keeps the rest.

**FpcSync.** A file's contents are a version, `Gone`, or `Torn` by a kill. `head` is the
pinned commit, `synced` the record. `handmade` is history: the files whose contents in
`vendor/fpc` somebody put there by hand, and which no later pin replaced.

**CompilerCache.** `tree` is the copy of the sources with its manifest, the host RTL's
units (`units`) and the compiler's released PPUs (`released`); a compiler is the sources,
RTL and tools it was made of. The signature of a step is the pinned commit's file and the
worktree's, as Git lists them.

**GameBuild.** `file` has contents and mtime in seconds, since FPC keeps a unit whose PPU
names its source's second; an edit leaves one of two seconds, perhaps the one before.
`seen` and `inputs` are the build's own inventory. `bundle`, `apk` and `signing` are what
is packed, published and signed with. The password's file is written at once but may be
cut short. `dsymutil` makes the symbols of the executable and those of the library, a stage
each. When it or `codesign` fails or is killed, it leaves nothing, something partial, what
was there before or what it was to make (`Leftovers`); `build.py:75` and `96` ask only
whether a directory and a file are there. `cut` is history: such a failure of macOS left
something, and the executable's symbols have not been made anew since.

## What each run shows

| run | bounds | states | result |
|---|---|---|---|
| `game_events` | 2 events, 2 threads, 6 kinds of wait, 2 signals per event | 17k | all properties hold |
| `worker` | 2 clients, 2 jobs | 19k | all properties hold, no deadlock |
| `worker_poll` | 2 clients, 1 job | small | the claim of `CHANGES.md` about failures is violated for `IsRunning` |
| `turn_pipeline` | 4 days, 2 conversations per job | 14k | all properties hold; two ways to hang are found and described |
| `save_writer` | 3 quick slots, 4 saves, 1 fault, 1 crash | 259k | all properties hold |
| `cache` | 2 threads, 3 controls, 2 resources, budget 2, 2 retains | 243k | all properties hold, until an eviction frees an entry in use; the race of `Reset` is described |
| `native_build` | 2 recipes, 2 compiler paths, 3 changes, 2 failures at any step but `--clean-first` | 2.06M | all properties hold |
| `native_clean_lost` | the same, a failure of `--clean-first` | stops at the counterexample | objects of the old compiler stay |
| `fpc_sync` | 2 files, 3 versions, 4 edits or pins, no edits by hand | stops | a sync reports a local edit that nobody made |
| `compiler_cache` | 3 files, one per part; 3 edits, pins or tools; 1 failure at any step but two | 2.38M | all properties hold |
| `compiler_runtime` | the same, no edits by hand, a later full bootstrap fails | stops | the compiler is compiled in a tree without its RTL |
| `game_build` | 5 targets, a source and the generated unit, 2 changes, 2 failures at any step | 3.79M | all properties hold; `AppIsSealed` with the exclusion `cut`, whose trace is described |

*Why the bounds are enough.* Two threads and one event of each kind suffice for
every race of a signal with a scan; two clients for every race of two calls of a
worker, and two jobs for one that follows another. Four days let a day be
prepared, calculated, travelled over and broken, with one more before and after;
two conversations let a stale answer meet the next one. Four saves fill three slots
and rotate them once more. In a build, a hazard needs a change, a build that fails, and the
next one that succeeds with what it finds: two changes and one failure; `native_build`
and `game_build` have one more failure for a second step that trusts the first's remains,
and `native_build` and `compiler_cache` one more change, so that an input can go away and
come back between two failures. One file per part of the compiler's sources is enough,
since a revision is compared as a whole and files are mirrored independently; a second
file matters only to which were reached before a kill, and the three parts give that.
Versions have two values: a stamp compares for equality, and the return to an earlier
value is the case that could fool it.

`game_events` does not check deadlock: a thread may wait for ever for an event nobody
sets. `turn_pipeline` does not: the game may end, and the two hangs are real.
`save_writer` does not: the program exits; nor `cache`, since a crashed thread ends the
program (`AcquiresEnd` finds threads that are stuck in a call). Two resources, one as
large as the budget, are enough for a trim that frees one, both or none, and the second
control of the UI thread for an entry with two users on one thread.

None of the build's runs switches the deadlock check off: a new build can always start.

*Fairness.* The build's modules state none, since all that is said of them is safety: a
build that is never run again delivers nothing. Each other specification assumes that a thread that can proceed is scheduled:
weak fairness of the steps inside a call or job, never of the decision to call,
to click, to raise or to speak. A deadline passes (`Expire`). A job that does not
end by itself ends when it sees the stop. `SaveWriter` also assumes strong fairness
of taking `SaveLoadLock`: a load by the player does not starve the writer for ever,
which holds since loads are days of clicks apart, though the lock makes no promise.

## Findings

*IsRunning and failures.* `CHANGES.md:174-175` says that `CheckFailure` transfers
failures before completion is accepted. `IsRunning` (`EC_Thread.pas:242-246`) checks
first and tests the idle event later, so a job that raises in between is reported as
finished. `WaitForIdle` does it in the right order, and `WaitReportsTheJob` is proved.

*Hangs of the turn.* `OnlyKnownHangs` states precisely when the UI can block on a
worker that is blocked on the UI: a script opens a dialogue during the galaxy's turn
while the UI is in a wait that does not listen (`fStarMap.pas:7109`, `7159`), or UI
code tests `ScriptUiRequest` before the conversation announces itself and then waits
(`fStarMap.pas:8991-8995`). There is no other, and closing the program always ends
either kind when it is the exit that brings the wait (`ExitCloses`).

*Saves.* The old file is deleted before `save.tmp` is renamed: until the rename, the
newer game exists only as `save.tmp`, which nothing loads. `SlotsHoldTheNewest` says
that this window, and a fault inside it, is the only way to lose a slot.

*Reset of a control.* `Reset` (`EC_Cache.pas:125-128`) tests `BoundData` and then takes
`CacheLock`. If another thread's trim frees the entry in between, which it may since
`Reset` has just set `RetainCount` to zero, `UnlinkControl` is called on nil with the lock taken. The
model has this as `pc = "crashed"`; `EntriesOutliveTheirUsers` holds of everything else
but evictions.

*Evictions.* `EvictData` would free an entry under another control that pins it, or under
a thread that loads it or waits for it; the model reaches this at once (`"astray"`), since
any thread may evict there at any time. That the program does is not shown: its callers
evict pictures of screens that are no longer in front (`EC_Cache.pas:664-740`) and a
script they have read themselves (`aScript.pas:3971-3974`), and we know of no control
that pins one of them then. Who may call is not modelled, and nothing in the code of the
cache keeps a new caller from it.

*A clean build that is lost* (`native_clean_lost`). `configure_native` says once, in its
return value, that the objects of another compiler must go, after it has recorded its
stamp (`build_support.py:345`). If `cmake --build --clean-first` then fails, the next
build neither configures nor cleans and links the old objects. `native_build` shows that
any other failure is harmless.

*A local edit that nobody made* (`fpc_sync`). The record of a sync outlives a change of
the pin (`sync_fpc.py:97`). Edit upstream, sync, edit again, commit and pin: `vendor/fpc`
is exactly at its pin, and the next edit upstream cannot be synced, as a conflicting
local vendor edit (112). `HandEditsSurvive` holds and is proved: the error is on the safe
side.

*A tree without its RTL* (`compiler_runtime`). A full bootstrap removes the tree first and
renews `host-runtime.stamp` last (`compiler.py:375-391`). If it fails in between and the
host's sources go back to what the stamp says, an incremental build compiles the compiler
in a tree without RTL units or with others. It usually fails every time, until a host
source changes or the directory is removed.

*A file between mirror and manifest.* A kill of the mirroring may leave a new file in the
tree that the manifest does not list; if it is gone from the sources in the next build, it
stays in the tree (`compiler.py`, `sync_build_source`). For the compiler's sources that
is a file no unit uses, or one that shadows another; `compiler_cache` leaves this failure
(`"mirror new file"`) out.

*Symbols and seal of the macOS bundle.* `package_macos` says that it updates "debug symbols
and bundle metadata before ad-hoc signing" (`build.py:70`). It makes the symbols if the
bundle changed in this build or there is no `.dSYM` directory (75), and signs if anything
changed or there is no `_CodeSignature/CodeResources` (96). Whether the bundle changed is
a local of one build (`build.py:58`). So it takes what a failed tool left, old or partial,
and without `~cut` TLC finds `AppIsSealed` violated in 18 states, with no earlier bundle
at all: in the first build `dsymutil` fails on the executable and leaves a `.dSYM`
directory that is not whole; the next build finds the game up to date, takes the directory
as it is, makes the library's symbols, `Info.plist` and the seal, and succeeds. In the same
way a `codesign` that fails after an earlier bundle was sealed leaves the old seal in
place, and the next build finds nothing to do. These failures are in `game_build`, and the
builds after them are excluded by the property itself: from the failure on, until the
executable's symbols are made anew, `AppIsSealed` claims nothing. If the tool left
nothing, the next build makes up for it, and the property holds and is proved; so it does
after the failures of all other steps, and on iOS, whose seal has an inventory of its own
(`ios.py:197-208`) and is not excluded.

*What a failure leaves for good.* A downloaded archive that is corrupt is reported and
kept (`build_support.py:394`), so every later build reports it; a password file that a
kill left empty makes every later Android release build fail (`android.py:396`). Both are
in the models, and on the safe side: `SourcesAreWhole` and `PublishedApkIsGood` hold.

## What is proved

`WorkerProofs` proves, for any set of clients and any bound on jobs, from
`WorkerAssumption` only (the owner is a client; the worker and nobody are not):

- `TypeCorrect`: the type invariant;
- `Inductive`: `IInv`, the inductive invariant;
- `IdleIsDone`, `WaitIsTruthful`, `StopIsDelivered`: the three safety invariants of
  the run `worker`, from `IInv`;
- `Simulation`: the initial states and every step of `Worker` map to `JobService`.

None of the three is inductive alone. That idle means done needs to know that Start
is serialised by `Lock` (`LockInv`), that between its steps the worker waits and the
idle event is in a known state (`PhaseInv`), and that at most one job is unfinished
(`CountInv`). That a waiter hears of a failure needs the worker's last job to be the
failed one and the report to be stored before completion (`FailureInv`,
`AnswerInv`); that a stop stays needs that Start cannot pass its test while a job
is outstanding (`StopInv`). The destructor adds that nobody else calls it
(`DestroyInv`).

`GameEventsProofs` proves, for any events, threads and requests, from `RequestsAssumption`
only:

- `Inductive`: `IInv`, the types and the inductive invariant;
- `Wakeups`, `Releases`, `References`: the three safety invariants of the run
  `game_events`;
- `Simulation`: the initial states and every step of `GameEvents` map to `EventWaits`.

`NoLostWakeup` needs the mutex and the broadcast of every set and close, and that what is
closed stays closed; `OneReleasePerSignal` needs that a wait takes a signal only in the
critical section that decides it. `ReferencesExact` counts places, not handles: an event
may stand twice in one wait. `Held(e)` is the set of these places, and a step of the
proof adds or removes one thread's places at once; that they are finitely many is part of
the invariant (`ReferenceInv`), and that a wait in progress has only events that were
created is `WaitInv`. That a wait for any takes the *first* signalled entry, on which the
simulation rests, needs a least element in a set of numbers; the library's induction
theorems cannot be used for it (they take an operator), so `Least` derives it from the
well-foundedness of finite subsets.

`TurnPipelineProofs` proves, for any number of days, landings and conversations and
without any assumption on the constants:

- `Agreement`: `IInv`, the types and the inductive invariant;
- `Alternation`, `JobsAreKept`, `Exclusion`, `HangsAreKnown`: the four safety invariants
  of the run `turn_pipeline`;
- `DaysAreShownOnce`, `SwapsAreAtRest`: its two action properties.

None of them is inductive, and none holds for a reason within one thread: the star map
never asks what the worker does, it waits, and then relies on the phase. The invariant
says what each wait and each screen may meet (`MapInv` on the star map, `AwayInv` on the
way out of it and in other screens): which job is queued or done, where the player is,
and which day each film shows. Under it lie the order of jobs and phases (`PhaseInv`),
the days that follow from the phase (`DayInv`), the conversation that holds the worker
(`TalkInv`) and the film that was recorded and not shown yet (`FilmInv`). The proof
found one definition of the model, `Outcomes`, that was given by two overlapping arms of a
`CASE`, whose value TLA+ leaves open; it is an `IF` now.

`SaveWriterProofs` proves, for every setting of `QuickSaveExtraSlots` (0 to 9) and any number of
saves, failures and crashes, from `SlotsAssumption` only:

- `TypeCorrect` and `Inductive`: the types and `IInv`;
- `Whole`, `Newest`: `SavesAreWhole` and `SlotsHoldTheNewest`;
- `LoadFinds`, `Replaced`: the action properties `LoadFindsTheSave` and
  `OnlyReplacedSavesAreRemoved`.

The argument: the lock keeps the loader out of a replacement (`LockInv`); the request in
progress keeps its name and buffers (`RequestInv`) and is newer than whatever is on the
disk (`AgeInv`); `save.tmp` is complete before anything is deleted (`StepInv`); and
during the rotation the slots above the gap have moved up by one and those below have
not (`SlotInv`, by cases on `Vacated` and `Moved`). `SlotsHoldTheNewest` speaks only of
the time between replacements and is not inductive without `SlotInv`; that a load never
meets a gap is `LockInv` with it. All of `SlotInv` is under `~broken`: a deletion or
rename that fails, or a crash inside the replacement, does lose the order.

`CacheProofs` proves, for any threads, controls, keys, sizes and budget, from
`CacheAssumption` (every control has one thread that uses it, sizes are natural numbers):

- `CacheInductive`: `IInv`, the types and the inductive invariant;
- `UsersOutlived`: `EntriesOutliveTheirUsers`, which is about trims and waits;
- `OneLoad`, `WholeData`: `OneLoadPerResource` and `DataAreWhole`;
- `ExactCount`: `CountIsExact`.

All of them hold until an eviction frees an entry that another control pins: `IInv` is
`Astray \/ Sound`, and the step of `EvictData` is proved by cases on whether its entry is
in `Unpinned`; if it is not, the step leads to `Astray` and nothing is claimed.

The argument: who loads or waits has pinned its entry, and who resets has not (`Pins`); an
entry whose event is not set has exactly one thread that loads it (`Loaders`); and the other
controls that have it belong to threads inside the call, which wait (`Waiters`). The
first part alone is not inductive, because a trim looks at the controls and not at the
loads: that it frees no entry under a loader needs `Loaders` with `Pins`, and so does the
count, from which a trim takes the bytes of what it frees: an entry that is being loaded is
not counted yet. `DataAreWhole` needs `Waiters`: a control of a thread outside any call
never has an entry whose load has not ended, and so whoever finds its control bound has no
need to wait. The lock-free test in `Reset` is in the proof as it is in the code: its race ends in
`"crashed"`, and the properties hold around it.

The list of entries and the sum of their bytes are computed by recursion (`Without`,
`SizeOf`). Instead of by induction, what they compute is proved from a least
counterexample: finite sets are well-founded by inclusion, so among the sets, or the
numbers, for which a claim fails there is a least one (`LeastSet`, `Least`). This gives that
the recursions have solutions, that `Without` keeps exactly the other entries (`WithoutMeans`),
and that a sum does not depend on the order of its terms and can be split
(`TotalWithout`, `TotalSame`, `TotalSplit`).

`CompilerCacheProofs` proves first about the sync alone, for any files, versions, edits,
pins and kills, from `FilesAssumption` and `LimitsAssumption`:

- `SyncInductive`: the types, and that a file last written by hand is neither as the pin
  nor as the record has it, and is not among those a running sync will write (`HandInv`);
- `HandEditsPreserved`: `HandEditsSurvive`.

`HandEditsSurvive` speaks of one step and says nothing of why a sync has no such file
before it. The reason is the test that all of `Conflicts` is empty before the first
write; that the record and the pin, which it compares with, cannot come to equal a hand
edit later needs `HandInv`: the record is replaced by what was written, and a pin writes
the files it changes.

It proves about the builds, with `PartsAssumption` (the compiler's and the Switch's
files are different ones), for any sources, tools, edits and failures:

- `BuildsKeepHandEdits`: `HandEditsSurvive` in every build, since each of its steps is
  one of `FpcSync` or leaves its variables alone;
- `HostRuntime`: `HostRuntimeAgrees`, if no full bootstrap after the first recorded one
  fails (`"next bootstrap" \notin FailingSteps`);
- `CompilerCurrent`: `CompilerIsCurrent`, if moreover no kill comes between a new file of
  the tree and the manifest (`"mirror new file" \notin FailingSteps`).

The two assumptions are exactly the failures that `compiler_cache` leaves out and that
the findings describe. The invariant follows the stamps: a recorded host stamp describes
tree and build compiler except inside a full bootstrap, where the tree is a copy of the
sources (`HostInv`); what the manifest does not list is not in the tree (`ManifestInv`);
the compiler's stamp is empty from before the first change to the tree until the compiler
is there, and a recorded one describes it (`CompilerInv`); the runtime's likewise
(`RuntimeInv`). None is inductive without the others: that a mirrored tree is the
sources needs the manifest, and that a compiler compiled in it is the present one needs
the host RTL.

`NativeBuildProofs` proves, for any recipes, compiler paths, changes and failures, from
`RecipesAssumption` (a recipe is a non-empty sequence of stages) and `LinkAssumption` (what
is linked is linked last, as in all recipes):

- `CourseInductive`: a running build is at a step of its stage (`ControlInv`), and what is
  extracted is the whole archive and not complete before the end (`SourceInv`);
- `Sources`: `SourcesAreWhole`;
- `CurrentObjects`: `ObjectsAreCurrent`, if no clean build fails (`"cleanbuild" \notin
  FailingSteps`, the failure of the run `native_clean_lost` and its finding);
- `NativeInductive`, `CurrentNative` and `NothingTwice`: `NativeIsCurrent` and the action
  property `NothingIsMadeTwice`, whatever fails.

`ObjectsAreCurrent` speaks of the end of a build. Through the build, a recorded signature
names the tools of all objects that are there, except between a configuration that asks
for a clean and the clean build (`ToolsInv`); a configuration that was not fresh knows the
tools of the old objects (`ConfigureInv`); a build starts from the signature of its own
cache (`BuildInv`); and the projects the build has done with stay as they are (`DoneInv`).
A failed clean build is just what breaks `ToolsInv`.

`NativeIsCurrent` and `NothingIsMadeTwice` rest on one invariant, `NativeInv`. What a
signature records was made under it, as long as the files it knows by size and times were
not written since (`RecordInv`); a step that is running has emptied its stamp (`StepInv`);
what the running build has passed is made from the present inputs and known to its stamp,
`Fine` (`DeliveredInv`: a later stage leaves an earlier one alone, which for the link is
`LinkAssumption`); after a success all stages are `Fine` (`SettledInv`), and so no guard of
a step that makes something holds until something changes (`RestingInv`). The object of an
adapter may be lost with the game's stamp still in order: that the next link notices is
the second half of `RecordInv`.

`GameBuildProofs` proves, for any sources and targets and any number of edits, losses and
failures, from `UnitsAssumption` (the names of the sources are not those of the library and
of generated files) and `TargetsAssumption`:

- `Inductive`: `IInv`;
- `Currency`, `Publication`: `GameIsCurrent` and `PublishedApkIsGood`;
- `Relinking`: the action property `LibrariesOnlyRelink`;
- `Sealing`: `AppIsSealed`, for all failures; the exclusion is in the property (`~cut`).

`GameIsCurrent` speaks of the end of a build. Through it, and across failed builds, what a
stamp or an inventory records is so: the copied library (`CopyInv`), the package
(`PackageInv`), the NRO (`NroInv`), the PPUs (`UnitsInv`: until one is lost or a
compilation fails, they are those of the inventory, and a file that is *seen* is as it was
compiled) and the executable (`ExeInv`). FPC keeps units by the second of their source;
that this keeps none that is old needs `WorkInv`: where `-B` is not given, every file that
is not seen has another second than its PPU and all PPUs have the present options. What a
stage has done is there until the build ends (`StageInv`), which is why the APK that is
published is the one that was verified. `ChangesInv` says what is left to do after a
change of libraries only. `AppIsSealed` has an invariant of its own (`Sealed`). As long as
nothing is `cut`, each of the two symbols and the seal is that of the present app, or it or
something made before it is absent, or the running build knows of a change and is not past
the stage that makes it (`Knows`, in `SymbolsInv`, `LibrarySymbolsInv` and `SealInv`); what
is absent makes the next build know, since the stage that makes it counts as a change for
those after it. iOS has `SignInv`, without the exclusion. The recipes are
the constants of the proof: that a stage precedes another is derived from `Recipes` once
(`RecipeOrder`), by cases on the target.

Left to TLC: liveness (`DestroyReturns`, the fairness of `ImplementsJobService` and
`ImplementsEventWaits`, `EventWaitsEnd`, `ExitCloses`, `EveryRequestEnds`,
`AcquiresEnd`). Every invariant and every action property of the runs that pass is a
theorem, under the assumptions named above.

## What is not modelled

The simulation's rules, drawing, formats and layout: sequential, and large. In the
modelled parts: the worker's failures inside `TurnPipeline` (they end the program);
a film that a script keeps running past a landing is taken not to kill the player;
the rebuilding of the player's path by `ShouldContinuePlayerTravel`; the loops that
sleep until the player is gone; the format of a save, memory snapshots, the save
manager's deletions, and a loss of power, where the order of writes on the disk
would not be that of the calls; the cache's lock-free searches when loads are queued,
its textures and its start and shutdown; who may evict what, and what happens once an entry
in use was evicted. `QuickSaveExtraSlots`, read
twice while the settings may change it (`aSaveLoad.pas:172`); a dialogue that UI code
opens and only its own thread could answer (`aScriptFun.pas:3927`).

Of the build: edits while a build runs (the inventory is taken after the compilation,
`pascal.py:208`); a stamp or a JSON file cut short by a kill, which the code reads as no
stamp at all (`build_support.py`) or stops at; what FPC, CMake, Git and the signing tools
do is external and taken as their callers rely on it; what the verifiers find in a binary;
iOS devices and Android's debug packages, whose recipes are parts of those modelled; a
native Windows host, which always bootstraps in full; lost outputs of the compiler cache;
`run.py`, `serve.py`, `format.py`, `targets.py` and the release archives, which keep
nothing between two runs.

## Plan

1. `GameEvents`, `Worker`, `TurnPipeline`, `SaveWriter`, `Cache` and the build
   (`NativeBuild`, `FpcSync`, `CompilerCache`, `GameBuild`), all with proofs - done.
2. `Cache` composed with the loader's list of pending loads (`fLoad.pas`).
3. The save manager on top of `SaveWriter`.
4. Script requests (`aScript.pas`): the four queues and the request thread, composed
   with the conversations of `TurnPipeline`.
5. Music and its file stream; the mixer thread; `TGameEventTimer`; the message loop's
   timers; touch gestures; log rotation.
