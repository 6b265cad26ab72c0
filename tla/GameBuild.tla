----------------------------- MODULE GameBuild -----------------------------
(***************************************************************************)
(* The game's own build: compile_pascal of tools/pascal.py, for the        *)
(* released package paszlib and for the game, and the packaging of the     *)
(* platforms (tools/build.py, ios.py, switch.py, android.py), one recipe   *)
(* per target.  The compiler and the native libraries are those of         *)
(* CompilerCache and NativeBuild; here they are options and a library that *)
(* change between two builds.                                              *)
(*                                                                         *)
(* FPC keeps a unit whose PPU holds the second of its source's mtime.  The *)
(* build's own inventory, pascal-inputs.json, has the files' whole states  *)
(* (file_state): an edit makes a file unseen, whatever second it leaves.   *)
(***************************************************************************)
EXTENDS Naturals, Sequences, FiniteSets

CONSTANTS
    Units,          \* the game's source files
    Targets,        \* of "linux", "macos", "ios", "switch", "android"
    FailingSteps,   \* the steps that may fail or be killed
    MaxEdits,       \* changes between builds
    MaxFailures     \* failures and kills

\* Windows has Linux's recipe; iOS is that of the simulator, Android that of a
\* release.  The links of the browser and the Switch are those of NativeBuild.
Recipes == [
    linux |-> <<"copy", "package", "game">>,
    macos |-> <<"copy", "package", "game", "symbols", "librarySymbols", "info", "seal">>,
    ios |-> <<"package", "game", "info", "sign">>,
    switch |-> <<"package", "game", "nro">>,
    android |-> <<"package", "game", "assemble", "key", "signed", "archive", "publish">>]

SymbolStages == {"symbols", "librarySymbols"}   \* of the executable, of its library
Stages == SymbolStages \union
          {"copy", "package", "game", "info", "seal", "sign", "nro",
           "assemble", "key", "signed", "archive", "publish"}
BuildInfo == "GameBuildInfo"
AllUnits == Units \union {BuildInfo}
Library == "library"
Generated == "generated"
Package == "paszlib.ppu"

ASSUME UnitsAssumption ==
    Units \intersect {BuildInfo, Library, Generated, Package} = {}
ASSUME TargetsAssumption == Targets \subseteq DOMAIN Recipes
ASSUME StepsAssumption == FailingSteps \subseteq Stages
ASSUME BoundsAssumption == MaxEdits \in Nat /\ MaxFailures \in Nat

VARIABLES
    target,
    env,        \* options, the library, the package's source, metadata, revision
    file,       \* the sources: contents and second of the mtime
    package,    \* paszlib: its stamp, whether its inputs are as recorded, its PPU
    stamp,      \* pascal-command.json
    inputs,     \* pascal-inputs.json: the seconds of the files it has
    seen,       \* the files that are still as pascal-inputs.json has them
    units,      \* the generated PPUs: contents and second of the source, options
    exe,        \* the game's executable
    bundle,     \* what is packed with it
    apk,        \* Android's signed APK and published APK
    signing,    \* the password's file and the key
    run, outcome, edits, failures,
    cut,        \* history: dsymutil or codesign left something when it failed
    changes     \* history: what was changed since the last successful build

pascal == <<package, stamp, inputs, seen, units, exe>>
packed == <<bundle, apk, signing, cut>>
vars == <<target, env, file, pascal, packed, run, outcome, edits, failures, changes>>

None == [is |-> "none"]
Missing == [is |-> "missing"]
Empty == [is |-> "empty"]
Partial == [is |-> "partial"]

\* What there may be once a tool that replaces old by new has failed
Leftovers(old, new) == {None, old, Partial, new}

Present == DOMAIN file
Idle == [stage |-> 0, at |-> "idle", rebuild |-> FALSE, all |-> FALSE, changed |-> FALSE]

Init ==
    /\ target \in Targets
    /\ env = [options |-> 0, library |-> 0, package |-> 0, metadata |-> 0, revision |-> 0]
    /\ file = [u \in Units |-> [content |-> 0, second |-> 0]]
    /\ package = [stamp |-> Missing, seen |-> FALSE, ppu |-> None]
    /\ stamp = Missing
    /\ inputs = Missing
    /\ seen = {}
    /\ units = [u \in {} |-> 0]
    /\ exe = None
    /\ bundle = [library |-> None, copied |-> FALSE, symbols |-> None,
                 librarySymbols |-> None, info |-> None, seal |-> None, signed |-> FALSE,
                 nro |-> None, nroStamp |-> Missing]
    /\ apk = [work |-> None, published |-> None, archive |-> {}]
    /\ signing = [password |-> "none", key |-> 0, lost |-> FALSE]
    /\ run = Idle
    /\ outcome = "none"
    /\ edits = 0
    /\ failures = 0
    /\ cut = FALSE
    /\ changes = {"everything"}

---------------------------------------------------------------------------
(* The course of a build *)

Recipe == Recipes[target]
Stage == IF run.stage = 0 THEN "none" ELSE Recipe[run.stage]
Checks(stage) == run.at = "check" /\ Stage = stage
Works(stage) == run.at = "work" /\ Stage = stage

Carry == UNCHANGED <<target, env, edits, failures>>

\* The stage is done; changed says whether it changed the bundle.
Finish(changed) ==
    IF run.stage < Len(Recipe)
    THEN /\ run' = [run EXCEPT !.stage = @ + 1, !.at = "check", !.all = FALSE,
                              !.changed = @ \/ changed]
         /\ UNCHANGED <<outcome, changes>>
    ELSE /\ run' = Idle
         /\ outcome' = "ok"
         /\ changes' = {}

Begin(all) ==
    /\ run' = [run EXCEPT !.at = "work", !.all = all]
    /\ UNCHANGED <<outcome, changes>>

\* run_step raises, a check does, or the build is killed.
Stops ==
    /\ run' = Idle
    /\ outcome' = "failed"
    /\ changes' = changes \union {"failure"}

Abort ==
    /\ failures < MaxFailures
    /\ failures' = failures + 1
    /\ Stops
    /\ UNCHANGED <<target, env, edits>>

Fails(stage) == Works(stage) /\ stage \in FailingSteps /\ Abort

---------------------------------------------------------------------------
(* Between two builds *)

Changed(what) ==
    /\ run.at = "idle"
    /\ edits < MaxEdits
    /\ edits' = edits + 1
    /\ outcome' = "changed"
    /\ changes' = changes \union {what}
    /\ UNCHANGED <<target, run, failures>>

\* The options stand for the command line, the compiler, its runtime and Clang;
\* the package, metadata and revision for paszlib's sources, Info.plist with
\* the version, and Git's state of the repository.
ChangeEnvironment ==
    \E what \in DOMAIN env :
        /\ Changed(what)
        /\ env' = [env EXCEPT ![what] = 1 - @]
        /\ package' = [package EXCEPT !.seen = @ /\ what # "package"]
        /\ seen' = IF what = "library" /\ target # "linux" THEN seen \ {Library} ELSE seen
        /\ bundle' = [bundle EXCEPT !.copied = @ /\ what # "library"]
        /\ UNCHANGED <<file, stamp, inputs, units, exe, apk, signing, cut>>

\* A source is added, or written, in the same second as before or in another.
EditUnit ==
    /\ Changed("source")
    /\ \E u \in Units, second \in 0 .. 1 :
          LET old == IF u \in Present THEN file[u] ELSE [content |-> 0, second |-> 0]
          IN  /\ file' = [v \in Present \union {u} |->
                    IF v = u THEN [content |-> 1 - old.content, second |-> second] ELSE file[v]]
              /\ seen' = seen \ {u}
    /\ UNCHANGED <<env, package, stamp, inputs, units, exe, packed>>

RemoveUnit ==
    /\ Changed("source")
    /\ \E u \in Units \intersect Present :
          /\ file' = [v \in Present \ {u} |-> file[v]]
          /\ seen' = seen \ {u}
    /\ UNCHANGED <<env, package, stamp, inputs, units, exe, packed>>

\* A generated file is removed or replaced.
LoseGenerated ==
    /\ Changed("generated")
    /\ \/ /\ \E u \in DOMAIN units : units' = [v \in DOMAIN units \ {u} |-> units[v]]
          /\ seen' = seen \ {Generated}
          /\ UNCHANGED <<package, exe, bundle>>
       \/ /\ package' = [package EXCEPT !.ppu = None, !.seen = FALSE]
          /\ seen' = seen \ {Package}
          /\ UNCHANGED <<units, exe, bundle>>
       \/ exe' = None /\ UNCHANGED <<package, seen, units, bundle>>
       \/ /\ bundle' \in {[bundle EXCEPT !.seal = None], [bundle EXCEPT !.nro = None],
                          [bundle EXCEPT !.symbols = None],
                          [bundle EXCEPT !.librarySymbols = None],
                          [bundle EXCEPT !.library = None]}
          /\ UNCHANGED <<package, seen, units, exe>>
    /\ UNCHANGED <<env, file, stamp, inputs, apk, signing, cut>>

\* The password or the key of build/android-signing is lost.
LoseSigning ==
    /\ target = "android"
    /\ Changed("signing")
    /\ \/ signing' = [signing EXCEPT !.password = "none"]
       \/ signing' = [signing EXCEPT !.key = 0, !.lost = TRUE]
    /\ UNCHANGED <<env, file, pascal, bundle, apk, cut>>

StartBuild ==
    /\ run.at = "idle"
    /\ \E rebuild \in BOOLEAN :
          run' = [Idle EXCEPT !.stage = 1, !.at = "check", !.rebuild = rebuild]
    /\ outcome' = "running"
    /\ Carry
    /\ UNCHANGED <<file, pascal, packed, changes>>

---------------------------------------------------------------------------
(* The library's copy in the bundle: copy_if_changed on Linux; a stamp of   *)
(* the original on macOS, where signing changes the copy.                   *)

CopyIsUpToDate == bundle.copied /\ bundle.library # None

CopySkips ==
    /\ Checks("copy") /\ CopyIsUpToDate
    /\ Finish(FALSE)
    /\ Carry
    /\ UNCHANGED <<file, pascal, packed>>

CopyBegins ==
    /\ Checks("copy") /\ ~CopyIsUpToDate
    /\ bundle' = [bundle EXCEPT !.copied = FALSE]
    /\ Begin(FALSE)
    /\ Carry
    /\ UNCHANGED <<file, pascal, apk, signing, cut>>

CopyEnds ==
    /\ Works("copy")
    /\ bundle' = [bundle EXCEPT !.copied = TRUE, !.library = [version |-> env.library]]
    /\ seen' = IF target = "linux" THEN seen \ {Library} ELSE seen
    /\ Finish(TRUE)
    /\ Carry
    /\ UNCHANGED <<file, package, stamp, inputs, units, exe, apk, signing, cut>>

CopyFails ==
    /\ Fails("copy")
    /\ \E library \in {bundle.library, [version |-> env.library]} :
          bundle' = [bundle EXCEPT !.library = library]
    /\ seen' = IF target = "linux" THEN seen \ {Library} ELSE seen
    /\ UNCHANGED <<file, package, stamp, inputs, units, exe, apk, signing, cut>>

---------------------------------------------------------------------------
(* compile_pascal of the package: its units are released (-Ur), FPC takes   *)
(* them as they are whatever their sources are, -B or not.                  *)

PackageIsUpToDate ==
    /\ ~run.rebuild
    /\ package.stamp = [options |-> env.options]
    /\ package.seen /\ package.ppu # None

PackageSkips ==
    /\ Checks("package") /\ PackageIsUpToDate
    /\ Finish(FALSE)
    /\ Carry
    /\ UNCHANGED <<file, pascal, packed>>

\* The released PPUs are removed first.
PackageBegins ==
    /\ Checks("package") /\ ~PackageIsUpToDate
    /\ package' = [package EXCEPT !.stamp = Empty, !.ppu = None]
    /\ seen' = seen \ {Package}
    /\ Begin(TRUE)
    /\ Carry
    /\ UNCHANGED <<file, stamp, inputs, units, exe, packed>>

NewPackage == IF package.ppu # None THEN package.ppu
              ELSE [source |-> env.package, options |-> env.options]

PackageEnds ==
    /\ Works("package")
    /\ package' = [stamp |-> [options |-> env.options], seen |-> TRUE, ppu |-> NewPackage]
    /\ Finish(FALSE)
    /\ Carry
    /\ UNCHANGED <<file, stamp, inputs, seen, units, exe, packed>>

PackageFails ==
    /\ Fails("package")
    /\ \E ppu \in {package.ppu, NewPackage} :
          package' = [package EXCEPT !.ppu = ppu, !.seen = FALSE]
    /\ UNCHANGED <<file, stamp, inputs, seen, units, exe, packed>>

---------------------------------------------------------------------------
(* compile_pascal of the game *)

\* generate_build_info writes the unit if its text would differ.
InfoIsCurrent == BuildInfo \in Present /\ file[BuildInfo].content = env.revision

GenerateBuildInfo ==
    /\ Checks("game") /\ ~InfoIsCurrent
    /\ \E second \in 0 .. 1 :
          file' = [v \in Present \union {BuildInfo} |->
                     IF v = BuildInfo THEN [content |-> env.revision, second |-> second]
                     ELSE file[v]]
    /\ seen' = seen \ {BuildInfo}
    /\ Carry
    /\ UNCHANGED <<package, stamp, inputs, units, exe, packed, run, outcome, changes>>

Inputs == Present \union {Library, Generated, Package}
SameCommand == stamp = [options |-> env.options]
SameInputs == inputs # Missing /\ DOMAIN inputs = Present /\ seen = Inputs

\* Mutant: FPC's own check of the sources is relied upon.
NeedRebuildForUnits ==
    \/ inputs = Missing
    \/ DOMAIN inputs # Present
    \/ {Generated, Package} \ seen # {}

\* Mutant: a new library is taken for a new unit.
NeedRebuildForAll ==
    \/ inputs = Missing
    \/ DOMAIN inputs # Present
    \/ {Generated, Package, Library} \ seen # {}
    \/ \E u \in Present \ seen : inputs[u] = file[u].second

units_need_rebuild ==
    \/ inputs = Missing
    \/ DOMAIN inputs # Present
    \/ {Generated, Package} \ seen # {}
    \/ \E u \in Present \ seen : inputs[u] = file[u].second

GameIsUpToDate == ~run.rebuild /\ SameCommand /\ SameInputs /\ exe # None

GameSkips ==
    /\ Checks("game") /\ InfoIsCurrent /\ GameIsUpToDate
    /\ Finish(FALSE)
    /\ Carry
    /\ UNCHANGED <<file, pascal, packed>>

\* The stamp is emptied; all says whether FPC is given -B.
GameBegins ==
    /\ Checks("game") /\ InfoIsCurrent /\ ~GameIsUpToDate
    /\ stamp' = Empty
    /\ Begin(run.rebuild \/ ~SameCommand \/ (~SameInputs /\ units_need_rebuild))
    /\ Carry
    /\ UNCHANGED <<file, package, inputs, seen, units, exe, packed>>

\* FPC: with -B every unit is compiled; without, one that has no PPU or whose
\* source has another second.  PPUs of removed sources are still found.
NewUnit(u) == [content |-> file[u].content, second |-> file[u].second,
               options |-> env.options]
Kept(u) == ~run.all /\ u \in DOMAIN units
           /\ (u \in Present => units[u].second = file[u].second)
Compiled ==
    [u \in Present \union (IF run.all THEN {} ELSE DOMAIN units) |->
        IF Kept(u) THEN units[u] ELSE NewUnit(u)]
Linked(compiled) == [units |-> compiled, package |-> package.ppu, library |-> env.library]

\* The inventory is taken after the step, it has the new PPUs.
GameEnds ==
    /\ Works("game")
    /\ units' = Compiled
    /\ exe' = Linked(Compiled)
    /\ stamp' = [options |-> env.options]
    /\ inputs' = [u \in Present |-> file[u].second]
    /\ seen' = Inputs
    /\ bundle' = [bundle EXCEPT !.signed = FALSE]
    /\ Finish(TRUE)
    /\ Carry
    /\ UNCHANGED <<file, package, apk, signing, cut>>

\* Some of the units are compiled, the old executable may be gone.
GameFails ==
    /\ Fails("game")
    /\ \E done \in SUBSET Present :
          units' = [u \in done \union DOMAIN units |->
                      IF u \in done THEN NewUnit(u) ELSE units[u]]
    /\ exe' \in {exe, None}
    /\ seen' = seen \ {Generated}
    /\ bundle' = [bundle EXCEPT !.signed = FALSE]
    /\ UNCHANGED <<file, package, stamp, inputs, apk, signing, cut>>

---------------------------------------------------------------------------
(* package_macos and package_ios *)

\* dsymutil makes the .dSYM directories of the executable and of its library, one
\* stage each; one that is there is taken as it is unless the build changed
\* something.
SymbolsAreMade == run.changed \/ bundle[Stage] = None
NewSymbols == [of |-> IF Stage = "symbols" THEN exe ELSE bundle.library]

SymbolsSkip ==
    /\ run.at = "check" /\ Stage \in SymbolStages /\ ~SymbolsAreMade
    /\ Finish(FALSE)
    /\ Carry
    /\ UNCHANGED <<file, pascal, packed>>

\* Once the executable's are made all that follows is made in the same build.
SymbolsEnd ==
    /\ run.at = "check" /\ Stage \in SymbolStages /\ SymbolsAreMade
    /\ bundle' = [bundle EXCEPT ![Stage] = NewSymbols]
    /\ cut' = (cut /\ Stage # "symbols")
    /\ Finish(TRUE)
    /\ Carry
    /\ UNCHANGED <<file, pascal, apk, signing>>

\* That something was changed is known to this build only: the next one takes
\* whatever directory, or seal, there is.
SymbolsFail ==
    /\ run.at = "check" /\ Stage \in SymbolStages \intersect FailingSteps /\ SymbolsAreMade
    /\ \E left \in Leftovers(bundle[Stage], NewSymbols) :
          /\ bundle' = [bundle EXCEPT ![Stage] = left]
          /\ cut' = (cut \/ left # None)
    /\ Abort
    /\ UNCHANGED <<file, pascal, apk, signing>>

\* Info.plist is written if its text would differ.
WriteInfo ==
    /\ Checks("info")
    /\ LET info == [version |-> env.metadata]
       IN  /\ bundle' = [bundle EXCEPT !.info = info, !.signed = @ /\ bundle.info = info]
           /\ Finish(bundle.info # info)
    /\ Carry
    /\ UNCHANGED <<file, pascal, apk, signing, cut>>

Contents == [exe |-> exe, library |-> bundle.library, info |-> bundle.info]

SealSkips ==
    /\ Checks("seal") /\ ~run.changed /\ bundle.seal # None
    /\ Finish(FALSE)
    /\ Carry
    /\ UNCHANGED <<file, pascal, packed>>

\* codesign, on macOS
Seal ==
    /\ Checks("seal") /\ (run.changed \/ bundle.seal = None)
    /\ bundle' = [bundle EXCEPT !.seal = Contents]
    /\ Finish(FALSE)
    /\ Carry
    /\ UNCHANGED <<file, pascal, apk, signing, cut>>

SealFails ==
    /\ Checks("seal") /\ (run.changed \/ bundle.seal = None)
    /\ "seal" \in FailingSteps
    /\ \E left \in Leftovers(bundle.seal, Contents) :
          /\ bundle' = [bundle EXCEPT !.seal = left]
          /\ cut' = (cut \/ left # None)
    /\ Abort
    /\ UNCHANGED <<file, pascal, apk, signing>>

\* Mutant: an executable that was linked again counts as signed.
SealIsThere == bundle.seal # None

\* sign-inputs.json has the state of the executable and of Info.plist after
\* signing.
SignIsUpToDate == bundle.signed /\ bundle.seal # None

SignSkips ==
    /\ Checks("sign") /\ SignIsUpToDate
    /\ Finish(FALSE)
    /\ Carry
    /\ UNCHANGED <<file, pascal, packed>>

\* codesign for the simulator
SignBegins ==
    /\ Checks("sign") /\ ~SignIsUpToDate
    /\ bundle' = [bundle EXCEPT !.signed = FALSE]
    /\ Begin(FALSE)
    /\ Carry
    /\ UNCHANGED <<file, pascal, apk, signing, cut>>

SignEnds ==
    /\ Works("sign")
    /\ bundle' = [bundle EXCEPT !.signed = TRUE, !.seal = Contents]
    /\ Finish(FALSE)
    /\ Carry
    /\ UNCHANGED <<file, pascal, apk, signing, cut>>

SignFails ==
    /\ Fails("sign")
    /\ \E left \in Leftovers(bundle.seal, Contents) :
          bundle' = [bundle EXCEPT !.seal = left]
    /\ UNCHANGED <<file, pascal, apk, signing, cut>>

---------------------------------------------------------------------------
(* The Switch's NRO: package.stamp has the contents of the linked game.     *)

NroSignature == [exe |-> exe, metadata |-> env.metadata]
NroIsUpToDate == bundle.nroStamp = NroSignature /\ bundle.nro # None

NroSkips ==
    /\ Checks("nro") /\ NroIsUpToDate
    /\ Finish(FALSE)
    /\ Carry
    /\ UNCHANGED <<file, pascal, packed>>

NroBegins ==
    /\ Checks("nro") /\ ~NroIsUpToDate
    /\ bundle' = [bundle EXCEPT !.nroStamp = Empty]
    /\ Begin(FALSE)
    /\ Carry
    /\ UNCHANGED <<file, pascal, apk, signing, cut>>

NroEnds ==
    /\ Works("nro")
    /\ bundle' = [bundle EXCEPT !.nroStamp = NroSignature, !.nro = NroSignature]
    /\ Finish(FALSE)
    /\ Carry
    /\ UNCHANGED <<file, pascal, apk, signing, cut>>

NroFails ==
    /\ Fails("nro")
    /\ \E nro \in {None, bundle.nro, NroSignature} : bundle' = [bundle EXCEPT !.nro = nro]
    /\ UNCHANGED <<file, pascal, apk, signing, cut>>

---------------------------------------------------------------------------
(* package_android: every build packs, signs and verifies the APK anew.     *)

\* aapt2, javac, d8, the libraries with verify_library, zipalign
Assemble ==
    /\ Checks("assemble")
    /\ apk' = [apk EXCEPT !.work = [exe |-> exe, metadata |-> env.metadata, key |-> 0,
                                    verified |-> FALSE]]
    /\ Finish(TRUE)
    /\ Carry
    /\ UNCHANGED <<file, pascal, bundle, signing, cut>>

AssembleFails ==
    /\ Checks("assemble") /\ "assemble" \in FailingSteps /\ Abort
    /\ UNCHANGED <<file, pascal, packed>>

\* A key whose password is missing is never replaced.
KeyIsUnusable ==
    /\ Checks("key") /\ signing.key # 0 /\ signing.password = "none"
    /\ Stops
    /\ Carry
    /\ UNCHANGED <<file, pascal, packed>>

KeyIsThere ==
    /\ Checks("key") /\ signing.key # 0 /\ signing.password # "none"
    /\ Finish(FALSE)
    /\ Carry
    /\ UNCHANGED <<file, pascal, packed>>

MakePassword ==
    /\ Checks("key") /\ signing.key = 0 /\ signing.password = "none"
    /\ signing' = [signing EXCEPT !.password = "whole"]
    /\ Carry
    /\ UNCHANGED <<file, pascal, bundle, apk, cut, run, outcome, changes>>

\* Killed between the creation of the file and the end of its writing
PasswordIsCut ==
    /\ Checks("key") /\ signing.key = 0 /\ signing.password = "none"
    /\ "key" \in FailingSteps /\ Abort
    /\ signing' = [signing EXCEPT !.password = "empty"]
    /\ UNCHANGED <<file, pascal, bundle, apk, cut>>

MakeKey ==
    /\ Checks("key") /\ signing.key = 0 /\ signing.password = "whole"
    /\ signing' = [signing EXCEPT !.key = IF signing.lost THEN 2 ELSE 1]
    /\ Finish(FALSE)
    /\ Carry
    /\ UNCHANGED <<file, pascal, bundle, apk, cut>>

\* keytool fails, as it does whenever the password is empty.
MakeKeyFails ==
    /\ Checks("key") /\ signing.key = 0 /\ signing.password # "none"
    /\ \/ signing.password = "empty" /\ Stops /\ Carry
       \/ "key" \in FailingSteps /\ Abort
    /\ UNCHANGED <<file, pascal, packed>>

\* Mutant: apksigner writes the artifact itself.
SignInPlace ==
    /\ Checks("signed")
    /\ apk' = [apk EXCEPT !.work.key = signing.key, !.published = apk.work]
    /\ Begin(FALSE)
    /\ Carry
    /\ UNCHANGED <<file, pascal, bundle, signing, cut>>

SignApk ==
    /\ Checks("signed")
    /\ apk' = [apk EXCEPT !.work.key = signing.key]
    /\ Begin(FALSE)
    /\ Carry
    /\ UNCHANGED <<file, pascal, bundle, signing, cut>>

\* Signature, alignment, application ID, profile and entries are verified.
VerifyApk ==
    /\ Works("signed")
    /\ apk' = [apk EXCEPT !.work.verified = TRUE]
    /\ Finish(TRUE)
    /\ Carry
    /\ UNCHANGED <<file, pascal, bundle, signing, cut>>

VerifyFails ==
    /\ Fails("signed")
    /\ UNCHANGED <<file, pascal, packed>>

\* The symbols of a release go to the directory of their build ID.
ArchiveSymbols ==
    /\ Checks("archive")
    /\ apk' = [apk EXCEPT !.archive = @ \union {exe}]
    /\ Finish(TRUE)
    /\ Carry
    /\ UNCHANGED <<file, pascal, bundle, signing, cut>>

ArchiveFails ==
    /\ Checks("archive") /\ "archive" \in FailingSteps /\ Abort
    /\ UNCHANGED <<file, pascal, packed>>

Publish ==
    /\ Checks("publish")
    /\ apk' = [apk EXCEPT !.published = apk.work]
    /\ Finish(TRUE)
    /\ Carry
    /\ UNCHANGED <<file, pascal, bundle, signing, cut>>

---------------------------------------------------------------------------
Next ==
    \/ ChangeEnvironment \/ EditUnit \/ RemoveUnit \/ LoseGenerated \/ LoseSigning
    \/ StartBuild
    \/ CopySkips \/ CopyBegins \/ CopyEnds \/ CopyFails
    \/ PackageSkips \/ PackageBegins \/ PackageEnds \/ PackageFails
    \/ GenerateBuildInfo \/ GameSkips \/ GameBegins \/ GameEnds \/ GameFails
    \/ SymbolsSkip \/ SymbolsEnd \/ SymbolsFail \/ WriteInfo
    \/ SealSkips \/ Seal \/ SealFails
    \/ SignSkips \/ SignBegins \/ SignEnds \/ SignFails
    \/ NroSkips \/ NroBegins \/ NroEnds \/ NroFails
    \/ Assemble \/ AssembleFails
    \/ KeyIsUnusable \/ KeyIsThere \/ MakePassword \/ PasswordIsCut \/ MakeKey
    \/ MakeKeyFails
    \/ SignApk \/ VerifyApk \/ VerifyFails \/ ArchiveSymbols \/ ArchiveFails \/ Publish

Spec == Init /\ [][Next]_vars

---------------------------------------------------------------------------
(* Properties *)

Has(stage) == \E i \in 1 .. Len(Recipe) : Recipe[i] = stage

\* The game that the present inputs give
CurrentGame ==
    [units |-> [u \in Present |-> NewUnit(u)],
     package |-> [source |-> env.package, options |-> env.options], library |-> env.library]

\* A build that succeeds delivers the game of the present inputs: every unit of
\* the executable was compiled from its present source with the present
\* options, and none that is gone is in it, although FPC kept all units that
\* looked unchanged to it; the package, the library, the NRO, the APK and
\* Info.plist are as current.
GameIsCurrent ==
    outcome = "ok" =>
        /\ exe.package = CurrentGame.package /\ exe.library = CurrentGame.library
        /\ DOMAIN exe.units = Present
        /\ \A u \in Present : /\ exe.units[u].content = file[u].content
                              /\ exe.units[u].options = env.options
        /\ Has("copy") => bundle.library = [version |-> env.library]
        /\ Has("info") => bundle.info = [version |-> env.metadata]
        /\ Has("nro") => bundle.nro = NroSignature
        /\ Has("publish") => apk.published.exe = exe /\ apk.published.metadata = env.metadata

\* A build that succeeds leaves the app sealed: debug symbols and signature are
\* those of the executable, the library and Info.plist that are in it.
\* "Update debug symbols and bundle metadata before ad-hoc signing."
\* Excluded by ~cut: on macOS, after a dsymutil or codesign that failed or was
\* killed and left symbols or a seal, whole, partial or old, later builds take
\* them as they are, until one makes the executable's symbols anew.
AppIsSealed ==
    outcome = "ok" /\ ~cut =>
        /\ Has("symbols") => /\ bundle.symbols = [of |-> exe]
                             /\ bundle.librarySymbols = [of |-> bundle.library]
        /\ Has("seal") \/ Has("sign") => bundle.seal = Contents

\* The APK that is there, whatever failed since, was verified, its symbols are
\* archived, and as long as the key itself was not lost it is signed with the
\* first one: "Keep the old APK until all checks and archival have succeeded";
\* "never silently replace a key whose password is missing."
PublishedApkIsGood ==
    apk.published # None =>
        /\ apk.published.verified
        /\ apk.published.exe \in apk.archive
        /\ ~signing.lost => apk.published.key = 1

\* When nothing but a library changed since a successful build, no unit is
\* compiled that FPC would not compile itself: "Linked libraries require
\* another link, but do not invalidate Pascal units."
LibrariesOnlyRelink ==
    [][run.at = "check" /\ run'.at = "work" /\ Stage = "game"
        /\ changes \subseteq {"library"} /\ ~run.rebuild => ~run'.all]_vars

===========================================================================
