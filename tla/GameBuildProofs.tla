--------------------------- MODULE GameBuildProofs ---------------------------
(***************************************************************************)
(* Proofs about GameBuild for any sources and targets, any number of edits  *)
(* and failures, at any point of a build.                                   *)
(*                                                                         *)
(* The invariant has three kinds of parts.  What stamps and inventories    *)
(* say of what they record is so: CopyInv, PackageInv, NroInv, UnitsInv,   *)
(* ExeInv.  What a stage of this build has left is there until its end:    *)
(* StageInv.  What is not told to FPC needs no telling: WorkInv and        *)
(* ChangesInv.  Steps are first sorted by what they do to the course of    *)
(* the build, then each part is shown for the stages that may disturb it.  *)
(***************************************************************************)
EXTENDS GameBuild, TLAPS

Building == run.at # "idle"

\* The records have their fields.
Shaped ==
    /\ run = [stage |-> run.stage, at |-> run.at, rebuild |-> run.rebuild,
              all |-> run.all, changed |-> run.changed]
    /\ env = [options |-> env.options, library |-> env.library, package |-> env.package,
              metadata |-> env.metadata, revision |-> env.revision]
    /\ package = [stamp |-> package.stamp, seen |-> package.seen, ppu |-> package.ppu]
    /\ bundle = [library |-> bundle.library, copied |-> bundle.copied,
                 symbols |-> bundle.symbols, librarySymbols |-> bundle.librarySymbols,
                 info |-> bundle.info, seal |-> bundle.seal, signed |-> bundle.signed,
                 nro |-> bundle.nro, nroStamp |-> bundle.nroStamp]
    /\ apk = [work |-> apk.work, published |-> apk.published, archive |-> apk.archive]
    /\ signing = [password |-> signing.password, key |-> signing.key, lost |-> signing.lost]
    /\ apk.work # None =>
          apk.work = [exe |-> apk.work.exe, metadata |-> apk.work.metadata,
                      key |-> apk.work.key, verified |-> apk.work.verified]

Truths ==
    /\ run.rebuild \in BOOLEAN /\ run.all \in BOOLEAN /\ run.changed \in BOOLEAN
    /\ package.seen \in BOOLEAN /\ bundle.copied \in BOOLEAN /\ bundle.signed \in BOOLEAN
    /\ signing.lost \in BOOLEAN /\ cut \in BOOLEAN

Rank == [copy |-> 1, package |-> 2, game |-> 3, symbols |-> 4, librarySymbols |-> 5,
         info |-> 6, seal |-> 7, sign |-> 8, nro |-> 9, assemble |-> 10, key |-> 11,
         signed |-> 12, archive |-> 13, publish |-> 14]

\* The stages that this build has done
Past(s) == \E i \in 1 .. run.stage - 1 : Recipe[i] = s

\* A build is at a stage of its target's recipe.
CourseInv ==
    /\ target \in DOMAIN Recipes
    /\ run.at \in {"idle", "check", "work"}
    /\ ~Building => run = Idle
    /\ Building => run.stage \in 1 .. Len(Recipe) /\ outcome = "running"

-----------------------------------------------------------------------------
(* The recipes and the course of a build *)

LEMMA Distinct ==
    /\ None # Missing /\ None # Empty /\ Missing # Empty
    /\ \A x : [options |-> x] # Empty /\ [options |-> x] # Missing
    /\ \A x : [version |-> x] # None
    /\ \A x, y : [exe |-> x, metadata |-> y] \notin {None, Missing, Empty}
    /\ \A x : [of |-> x] # None
    /\ \A x, y, z : [exe |-> x, library |-> y, info |-> z] # None
    /\ \A x, y, z : [units |-> x, package |-> y, library |-> z] # None
    /\ \A x, y, z, w : [exe |-> x, metadata |-> y, key |-> z, verified |-> w] # None
    /\ \A x, y : [source |-> x, options |-> y] # None
<1>1. /\ DOMAIN None = {"is"} /\ DOMAIN Missing = {"is"} /\ DOMAIN Empty = {"is"}
      /\ None.is = "none" /\ Missing.is = "missing" /\ Empty.is = "empty"
  BY DEF None, Missing, Empty
<1> QED BY <1>1

LEMMA RecipeOf ==
    ASSUME target \in DOMAIN Recipes
    PROVE  \/ target = "linux" /\ Recipe = <<"copy", "package", "game">>
           \/ target = "macos" /\ Recipe = <<"copy", "package", "game", "symbols",
                                            "librarySymbols", "info", "seal">>
           \/ target = "ios" /\ Recipe = <<"package", "game", "info", "sign">>
           \/ target = "switch" /\ Recipe = <<"package", "game", "nro">>
           \/ target = "android" /\ Recipe = <<"package", "game", "assemble", "key", "signed",
                                              "archive", "publish">>
BY DEF Recipes, Recipe

LEMMA RecipeAt ==
    ASSUME target \in DOMAIN Recipes
    PROVE  \/ /\ target = "linux" /\ Len(Recipe) = 3
              /\ Recipe[1] = "copy" /\ Recipe[2] = "package" /\ Recipe[3] = "game"
           \/ /\ target = "macos" /\ Len(Recipe) = 7
              /\ Recipe[1] = "copy" /\ Recipe[2] = "package" /\ Recipe[3] = "game"
              /\ Recipe[4] = "symbols" /\ Recipe[5] = "librarySymbols"
              /\ Recipe[6] = "info" /\ Recipe[7] = "seal"
           \/ /\ target = "ios" /\ Len(Recipe) = 4
              /\ Recipe[1] = "package" /\ Recipe[2] = "game" /\ Recipe[3] = "info"
              /\ Recipe[4] = "sign"
           \/ /\ target = "switch" /\ Len(Recipe) = 3
              /\ Recipe[1] = "package" /\ Recipe[2] = "game" /\ Recipe[3] = "nro"
           \/ /\ target = "android" /\ Len(Recipe) = 7
              /\ Recipe[1] = "package" /\ Recipe[2] = "game" /\ Recipe[3] = "assemble"
              /\ Recipe[4] = "key" /\ Recipe[5] = "signed" /\ Recipe[6] = "archive"
              /\ Recipe[7] = "publish"
<1>1. CASE target = "linux"
  BY <1>1, RecipeOf
<1>2. CASE target = "macos"
  BY <1>2, RecipeOf
<1>3. CASE target = "ios"
  BY <1>3, RecipeOf
<1>4. CASE target = "switch"
  BY <1>4, RecipeOf
<1>5. CASE target = "android"
  BY <1>5, RecipeOf
<1> QED BY <1>1, <1>2, <1>3, <1>4, <1>5, RecipeOf

LEMMA RecipeLengths ==
    ASSUME target \in DOMAIN Recipes
    PROVE  /\ target = "linux" => Len(Recipe) = 3
           /\ target = "macos" => Len(Recipe) = 7
           /\ target = "ios" => Len(Recipe) = 4
           /\ target = "switch" => Len(Recipe) = 3
           /\ target = "android" => Len(Recipe) = 7
           /\ target \in {"linux", "macos", "ios", "switch", "android"}
BY RecipeAt

LEMMA RecipeLength ==
    ASSUME target \in DOMAIN Recipes
    PROVE  /\ Len(Recipe) \in Nat /\ 3 <= Len(Recipe)
           /\ \A i \in 1 .. Len(Recipe) : i \in {1, 2, 3, 4, 5, 6, 7}
<1>1. CASE Len(Recipe) = 3
  BY <1>1
<1>2. CASE Len(Recipe) = 4
  BY <1>2
<1>3. CASE Len(Recipe) = 7
  BY <1>3
<1> QED BY <1>1, <1>2, <1>3, RecipeLengths

LEMMA RecipeStages ==
    ASSUME target \in DOMAIN Recipes, NEW i \in 1 .. Len(Recipe)
    PROVE  Recipe[i] \in Stages
BY RecipeAt DEF Stages, SymbolStages

LEMMA Ranks ==
    /\ Rank["copy"] = 1 /\ Rank["package"] = 2 /\ Rank["game"] = 3 /\ Rank["symbols"] = 4
    /\ Rank["librarySymbols"] = 5 /\ Rank["info"] = 6 /\ Rank["seal"] = 7
    /\ Rank["sign"] = 8 /\ Rank["nro"] = 9 /\ Rank["assemble"] = 10 /\ Rank["key"] = 11
    /\ Rank["signed"] = 12 /\ Rank["archive"] = 13 /\ Rank["publish"] = 14
BY DEF Rank

LEMMA RankIsNat == ASSUME NEW s \in Stages  PROVE Rank[s] \in Nat
BY DEF Rank, Stages, SymbolStages

\* Every recipe goes through its stages in one order.
LEMMA RecipeOrder ==
    ASSUME target \in DOMAIN Recipes, NEW i \in 1 .. Len(Recipe), NEW j \in 1 .. Len(Recipe),
           i < j
    PROVE  Rank[Recipe[i]] < Rank[Recipe[j]]
<1>1. CASE target = "linux"
  <2>1. Len(Recipe) = 3
    BY <1>1, RecipeLengths
  <2>2. i \in {1, 2, 3} /\ j \in {1, 2, 3}
    BY <2>1
  <2> QED BY <1>1, <2>2, RecipeAt, Ranks
<1>2. CASE target = "macos"
  <2>1. Len(Recipe) = 7
    BY <1>2, RecipeLengths
  <2>2. i \in {1, 2, 3, 4, 5, 6, 7} /\ j \in {1, 2, 3, 4, 5, 6, 7}
    BY <2>1
  <2> QED BY <1>2, <2>2, RecipeAt, Ranks
<1>3. CASE target = "ios"
  <2>1. Len(Recipe) = 4
    BY <1>3, RecipeLengths
  <2>2. i \in {1, 2, 3, 4} /\ j \in {1, 2, 3, 4}
    BY <2>1
  <2> QED BY <1>3, <2>2, RecipeAt, Ranks
<1>4. CASE target = "switch"
  <2>1. Len(Recipe) = 3
    BY <1>4, RecipeLengths
  <2>2. i \in {1, 2, 3} /\ j \in {1, 2, 3}
    BY <2>1
  <2> QED BY <1>4, <2>2, RecipeAt, Ranks
<1>5. CASE target = "android"
  <2>1. Len(Recipe) = 7
    BY <1>5, RecipeLengths
  <2>2. i \in {1, 2, 3, 4, 5, 6, 7} /\ j \in {1, 2, 3, 4, 5, 6, 7}
    BY <2>1
  <2> QED BY <1>5, <2>2, RecipeAt, Ranks
<1> QED BY <1>1, <1>2, <1>3, <1>4, <1>5, RecipeAt

LEMMA RecipeHas ==
    ASSUME target \in DOMAIN Recipes
    PROVE  /\ Has("package") /\ Has("game")
           /\ Has("copy") <=> target \in {"linux", "macos"}
           /\ Has("symbols") <=> target = "macos"
           /\ Has("librarySymbols") <=> target = "macos"
           /\ Has("seal") <=> target = "macos"
           /\ Has("sign") <=> target = "ios"
           /\ target = "android" => Has("assemble") /\ Has("key") /\ Has("signed") /\ Has("archive")
<1>1. Has("package") /\ Has("game") /\ (target \in {"linux", "macos"} => Has("copy"))
  <2>1. 1 \in 1 .. Len(Recipe) /\ 2 \in 1 .. Len(Recipe) /\ 3 \in 1 .. Len(Recipe)
    BY RecipeLength
  <2> QED BY <2>1, RecipeAt DEF Has
<1>2. ASSUME target = "macos"  PROVE Has("symbols") /\ Has("librarySymbols") /\ Has("seal")
  <2>1. Len(Recipe) = 7
    BY <1>2, RecipeLengths
  <2>2. 4 \in 1 .. Len(Recipe) /\ 5 \in 1 .. Len(Recipe) /\ 7 \in 1 .. Len(Recipe)
    BY <2>1
  <2> QED BY <1>2, <2>2, RecipeAt DEF Has
<1>3. ASSUME target = "ios"  PROVE Has("sign")
  <2>1. Len(Recipe) = 4
    BY <1>3, RecipeLengths
  <2>2. 4 \in 1 .. Len(Recipe)
    BY <2>1
  <2> QED BY <1>3, <2>2, RecipeAt DEF Has
<1>4. ASSUME NEW i \in 1 .. Len(Recipe)
      PROVE  /\ Recipe[i] = "copy" => target \in {"linux", "macos"}
             /\ Recipe[i] \in {"symbols", "librarySymbols", "seal"} => target = "macos"
             /\ Recipe[i] = "sign" => target = "ios"
  <2>1. i \in {1, 2, 3, 4, 5, 6, 7} /\ Len(Recipe) \in Nat
    BY RecipeLength
  <2>2. CASE target \in {"linux", "macos"}
    BY <2>1, <2>2, RecipeAt
  <2>3. CASE target = "ios"
    BY <2>1, <2>3, RecipeAt
  <2>4. CASE target \in {"switch", "android"}
    BY <2>1, <2>4, RecipeAt
  <2> QED BY <2>2, <2>3, <2>4, RecipeLengths
<1>5. ASSUME target = "android"
      PROVE  Has("assemble") /\ Has("key") /\ Has("signed") /\ Has("archive")
  <2>1. Len(Recipe) = 7
    BY <1>5, RecipeLengths
  <2>2. /\ 3 \in 1 .. Len(Recipe) /\ 4 \in 1 .. Len(Recipe) /\ 5 \in 1 .. Len(Recipe)
        /\ 6 \in 1 .. Len(Recipe)
    BY <2>1
  <2> QED BY <1>5, <2>2, RecipeAt DEF Has
<1> QED BY <1>1, <1>2, <1>3, <1>4, <1>5 DEF Has

\* What follows a stage, and what precedes it
LEMMA RecipeNext ==
    ASSUME CourseInv, Building
    PROVE  /\ Stage \in Stages
           /\ run.stage < Len(Recipe) => Recipe[run.stage + 1] \in Stages
           /\ target = "macos" => /\ Stage = "game" => run.stage < Len(Recipe) /\ Recipe[run.stage + 1] = "symbols"
                                  /\ Stage = "symbols" => run.stage < Len(Recipe) /\ Recipe[run.stage + 1] = "librarySymbols"
                                  /\ Stage = "librarySymbols" => run.stage < Len(Recipe) /\ Recipe[run.stage + 1] = "info"
                                  /\ Stage = "info" => run.stage < Len(Recipe) /\ Recipe[run.stage + 1] = "seal"
                                  /\ Stage # "sign"
           /\ target # "macos" => Stage \notin {"symbols", "librarySymbols", "seal"}
           /\ Stage \in {"assemble", "key", "signed", "archive", "publish"} => target = "android"
<1>1. Len(Recipe) \in Nat /\ run.stage \in 1 .. Len(Recipe) /\ Stage = Recipe[run.stage]
  BY RecipeLength DEF CourseInv, Stage
<1>2. target \in DOMAIN Recipes
  BY DEF CourseInv
<1>3. Stage \in Stages /\ (run.stage < Len(Recipe) => Recipe[run.stage + 1] \in Stages)
  BY <1>1, <1>2, RecipeStages
<1>4. CASE target = "macos"
  <2>1. Len(Recipe) = 7
    BY <1>2, <1>4, RecipeLengths
  <2>2. run.stage \in {1, 2, 3, 4, 5, 6, 7}
    BY <1>1, <2>1
  <2> QED BY <1>1, <1>2, <1>3, <1>4, <2>1, <2>2, RecipeAt
<1>5. target # "macos" => Stage \notin {"symbols", "librarySymbols", "seal"}
  BY <1>1, <1>2, RecipeHas DEF Has
<1>6. ASSUME target # "android"
      PROVE  Stage \notin {"assemble", "key", "signed", "archive", "publish"}
  <2>1. run.stage \in {1, 2, 3, 4, 5, 6, 7}
    BY <1>1, <1>2, RecipeLength
  <2> QED BY <1>1, <1>2, <1>6, <2>1, RecipeAt
<1> QED BY <1>3, <1>4, <1>5, <1>6

LEMMA PastStages ==
    ASSUME CourseInv, Building, NEW s, Past(s)
    PROVE  Has(s) /\ s \in Stages /\ Rank[s] < Rank[Stage]
<1>1. PICK i \in 1 .. run.stage - 1 : Recipe[i] = s
  BY DEF Past
<1>2. Len(Recipe) \in Nat /\ run.stage \in 1 .. Len(Recipe) /\ Stage = Recipe[run.stage]
  BY RecipeLength DEF CourseInv, Stage
<1>3. i \in 1 .. Len(Recipe) /\ i < run.stage
  BY <1>2
<1> QED BY <1>1, <1>2, <1>3, RecipeOrder, RecipeStages DEF CourseInv, Has

LEMMA PastIfBefore ==
    ASSUME CourseInv, Building, NEW s, Has(s), Rank[s] < Rank[Stage]
    PROVE  Past(s)
<1>1. PICK i \in 1 .. Len(Recipe) : Recipe[i] = s
  BY DEF Has
<1>2. Len(Recipe) \in Nat /\ run.stage \in 1 .. Len(Recipe) /\ Stage = Recipe[run.stage]
  BY RecipeLength DEF CourseInv, Stage
<1>3. i < run.stage
  <2>1. Rank[s] \in Nat /\ Rank[Stage] \in Nat
    <3>1. s \in Stages /\ Stage \in Stages
      BY <1>1, <1>2, RecipeStages DEF CourseInv
    <3> QED BY <3>1, RankIsNat
  <2>2. i # run.stage
    BY <1>1, <1>2, <2>1
  <2>3. ~(run.stage < i)
    BY <1>1, <1>2, <2>1, RecipeOrder DEF CourseInv
  <2> QED BY <1>2, <2>2, <2>3
<1> QED BY <1>1, <1>2, <1>3 DEF Past

-----------------------------------------------------------------------------
(* Steps by what they do to the course of a build *)

Edits == ~Building /\ run' = run /\ outcome' = "changed" /\ changes \subseteq changes'
Starts == /\ ~Building /\ outcome' = "running" /\ changes' = changes
          /\ \E rebuild \in BOOLEAN :
                run' = [stage |-> 1, at |-> "check", rebuild |-> rebuild, all |-> FALSE,
                        changed |-> FALSE]
Stays == run.at = "check" /\ UNCHANGED <<run, outcome, changes>>
Begins == \E all \in BOOLEAN :
              run.at = "check" /\ Begin(all)
Ends == \E changed \in BOOLEAN : Building /\ Finish(changed)
Breaks == Building /\ Stops

CopySteps == CopySkips \/ CopyBegins \/ CopyEnds \/ CopyFails
PackageSteps == PackageSkips \/ PackageBegins \/ PackageEnds \/ PackageFails
GameSteps == GenerateBuildInfo \/ GameSkips \/ GameBegins \/ GameEnds \/ GameFails
SymbolsSteps == SymbolsSkip \/ SymbolsEnd \/ SymbolsFail
SealSteps == SealSkips \/ Seal \/ SealFails
SignSteps == SignSkips \/ SignBegins \/ SignEnds \/ SignFails
NroSteps == NroSkips \/ NroBegins \/ NroEnds \/ NroFails
AssembleSteps == Assemble \/ AssembleFails
KeySteps == KeyIsUnusable \/ KeyIsThere \/ MakePassword \/ PasswordIsCut \/ MakeKey \/ MakeKeyFails
SignedSteps == SignApk \/ VerifyApk \/ VerifyFails
ArchiveSteps == ArchiveSymbols \/ ArchiveFails
ApkSteps == AssembleSteps \/ KeySteps \/ SignedSteps \/ ArchiveSteps \/ Publish
EditSteps == ChangeEnvironment \/ EditUnit \/ RemoveUnit \/ LoseGenerated \/ LoseSigning

LEMMA Groups ==
    Next <=> \/ EditSteps \/ StartBuild \/ CopySteps \/ PackageSteps \/ GameSteps
             \/ SymbolsSteps \/ WriteInfo \/ SealSteps \/ SignSteps \/ NroSteps \/ ApkSteps
BY DEF Next, EditSteps, CopySteps, PackageSteps, GameSteps, SymbolsSteps, SealSteps,
   SignSteps, NroSteps, ApkSteps, AssembleSteps, KeySteps, SignedSteps, ArchiveSteps

LEMMA Working ==
    /\ \A s : Checks(s) => run.at = "check" /\ Building /\ Stage = s
    /\ \A s : Works(s) => run.at = "work" /\ Building /\ Stage = s
    /\ \A s : Fails(s) => Works(s) /\ Building /\ Stage = s /\ Abort
BY DEF Checks, Works, Fails, Building

LEMMA AbortBreaks == ASSUME Building, Abort  PROVE Breaks /\ UNCHANGED <<target, env>>
BY DEF Abort, Breaks

LEMMA EditCourse == ASSUME EditSteps  PROVE Edits /\ target' = target /\ cut' = cut
BY DEF EditSteps, ChangeEnvironment, EditUnit, RemoveUnit, LoseGenerated, LoseSigning, Changed,
   Edits, Building, packed

LEMMA StartCourse ==
    ASSUME StartBuild
    PROVE  /\ Starts /\ UNCHANGED <<target, env, file, package, stamp, inputs, seen, units, exe,
                                    bundle, apk, signing, cut>>
BY DEF StartBuild, Starts, Building, Carry, Idle, pascal, packed

LEMMA CopyCourse ==
    ASSUME Shaped, Truths, CopySteps
    PROVE  /\ Building /\ Stage = "copy"
           /\ UNCHANGED <<target, env, file, package, stamp, inputs, units, exe, apk, signing, cut>>
           /\ bundle'.symbols = bundle.symbols
           /\ bundle'.librarySymbols = bundle.librarySymbols /\ bundle'.info = bundle.info
           /\ bundle'.seal = bundle.seal /\ bundle'.signed = bundle.signed
           /\ bundle'.nro = bundle.nro /\ bundle'.nroStamp = bundle.nroStamp
           /\ Begins \/ Ends \/ Breaks
<1>1. CASE CopySkips \/ CopyEnds
  BY <1>1, Working DEF CopySkips, CopyEnds, Carry, Ends, Shaped, pascal, packed
<1>2. CASE CopyBegins
  BY <1>2, Working DEF CopyBegins, Carry, Begins, Shaped, pascal, packed
<1>3. CASE CopyFails
  BY <1>3, Working, AbortBreaks DEF CopyFails, Shaped, pascal, packed
<1> QED BY <1>1, <1>2, <1>3 DEF CopySteps

LEMMA PackageCourse ==
    ASSUME Shaped, Truths, PackageSteps
    PROVE  /\ Building /\ Stage = "package"
           /\ UNCHANGED <<target, env, file, stamp, inputs, units, exe, bundle, apk, signing,
                         cut>>
           /\ Begins \/ Ends \/ Breaks
<1>1. CASE PackageSkips \/ PackageEnds
  BY <1>1, Working DEF PackageSkips, PackageEnds, Carry, Ends, Shaped, pascal, packed
<1>2. CASE PackageBegins
  BY <1>2, Working DEF PackageBegins, Carry, Begins, Shaped, pascal, packed
<1>3. CASE PackageFails
  BY <1>3, Working, AbortBreaks DEF PackageFails, Shaped, pascal, packed
<1> QED BY <1>1, <1>2, <1>3 DEF PackageSteps

LEMMA GameCourse ==
    ASSUME Shaped, Truths, GameSteps
    PROVE  /\ Building /\ Stage = "game"
           /\ UNCHANGED <<target, env, package, apk, signing, cut>>
           /\ bundle'.library = bundle.library /\ bundle'.copied = bundle.copied
           /\ bundle'.symbols = bundle.symbols
           /\ bundle'.librarySymbols = bundle.librarySymbols /\ bundle'.info = bundle.info
           /\ bundle'.seal = bundle.seal /\ bundle'.nro = bundle.nro
           /\ bundle'.nroStamp = bundle.nroStamp
           /\ Begins \/ Ends \/ Breaks \/ Stays
<1>1. CASE GameSkips \/ GameEnds
  BY <1>1, Working DEF GameSkips, GameEnds, Carry, Ends, Shaped, pascal, packed
<1>2. CASE GameBegins
  <2>1. (run.rebuild \/ ~SameCommand \/ (~SameInputs /\ units_need_rebuild)) \in BOOLEAN
    BY DEF Truths
  <2>2. Building /\ Stage = "game" /\ run.at = "check"
    BY <1>2, Working DEF GameBegins
  <2>3. UNCHANGED <<target, env, package, apk, signing, cut, bundle>>
    BY <1>2 DEF GameBegins, Carry, packed
  <2>4. Begins
    <3>1. Begin(run.rebuild \/ ~SameCommand \/ (~SameInputs /\ units_need_rebuild))
      BY <1>2 DEF GameBegins
    <3> HIDE DEF Begin
    <3> QED BY <2>1, <2>2, <3>1 DEF Begins
  <2> QED BY <2>2, <2>3, <2>4
<1>3. CASE GenerateBuildInfo
  BY <1>3, Working DEF GenerateBuildInfo, Carry, Stays, packed
<1>4. CASE GameFails
  BY <1>4, Working, AbortBreaks DEF GameFails, Shaped, pascal, packed
<1> QED BY <1>1, <1>2, <1>3, <1>4 DEF GameSteps

\* What making the symbols of one file does to the bundle
LEMMA SymbolsBundle ==
    ASSUME Shaped, Stage \in SymbolStages, NEW new, bundle' = [bundle EXCEPT ![Stage] = new]
    PROVE  /\ bundle' = [library |-> bundle.library, copied |-> bundle.copied,
                         symbols |-> IF Stage = "symbols" THEN new ELSE bundle.symbols,
                         librarySymbols |-> IF Stage = "symbols" THEN bundle.librarySymbols
                                            ELSE new,
                         info |-> bundle.info, seal |-> bundle.seal, signed |-> bundle.signed,
                         nro |-> bundle.nro, nroStamp |-> bundle.nroStamp]
           /\ Stage = "symbols" => bundle'.symbols = new
           /\ Stage = "symbols" => bundle'.librarySymbols = bundle.librarySymbols
           /\ Stage = "librarySymbols" => bundle'.librarySymbols = new
           /\ Stage = "librarySymbols" => bundle'.symbols = bundle.symbols
<1>1. CASE Stage = "symbols"
  <2>1. bundle' = [bundle EXCEPT !.symbols = new]
    BY <1>1
  <2> QED BY <1>1, <2>1 DEF Shaped
<1>2. CASE Stage = "librarySymbols"
  <2>1. bundle' = [bundle EXCEPT !.librarySymbols = new]
    BY <1>2
  <2> QED BY <1>2, <2>1 DEF Shaped
<1> QED BY <1>1, <1>2 DEF SymbolStages

LEMMA SymbolsCourse ==
    ASSUME Shaped, Truths, SymbolsSteps
    PROVE  /\ Building /\ Stage \in {"symbols", "librarySymbols"}
           /\ UNCHANGED <<target, env, file, package, stamp, inputs, seen, units, exe, apk, signing>>
           /\ bundle'.library = bundle.library /\ bundle'.copied = bundle.copied
           /\ bundle'.info = bundle.info /\ bundle'.seal = bundle.seal
           /\ bundle'.signed = bundle.signed /\ bundle'.nro = bundle.nro
           /\ bundle'.nroStamp = bundle.nroStamp
           /\ Begins \/ Ends \/ Breaks
<1>1. run.at = "check" /\ Building /\ Stage \in SymbolStages
  BY DEF SymbolsSteps, SymbolsSkip, SymbolsEnd, SymbolsFail, Building
<1>2. CASE SymbolsSkip
  BY <1>1, <1>2 DEF SymbolsSkip, SymbolStages, Carry, Ends, pascal, packed
<1>3. CASE SymbolsEnd
  <2>1. bundle' = [bundle EXCEPT ![Stage] = NewSymbols]
    BY <1>3 DEF SymbolsEnd
  <2>2. Ends /\ UNCHANGED <<target, env, file, pascal, apk, signing>>
    BY <1>1, <1>3 DEF SymbolsEnd, Ends, Carry
  <2> QED BY <1>1, <2>1, <2>2, SymbolsBundle DEF SymbolStages, pascal
<1>4. CASE SymbolsFail
  <2>1. PICK left : bundle' = [bundle EXCEPT ![Stage] = left]
    BY <1>4 DEF SymbolsFail
  <2>2. Breaks /\ UNCHANGED <<target, env, file, pascal, apk, signing>>
    BY <1>1, <1>4, AbortBreaks DEF SymbolsFail
  <2> QED BY <1>1, <2>1, <2>2, SymbolsBundle DEF SymbolStages, pascal
<1> QED BY <1>2, <1>3, <1>4 DEF SymbolsSteps

LEMMA InfoCourse ==
    ASSUME Shaped, Truths, WriteInfo
    PROVE  /\ Building /\ Stage = "info"
           /\ UNCHANGED <<target, env, file, package, stamp, inputs, seen, units, exe, apk, signing,
                         cut>>
           /\ bundle'.library = bundle.library /\ bundle'.copied = bundle.copied
           /\ bundle'.symbols = bundle.symbols
           /\ bundle'.librarySymbols = bundle.librarySymbols /\ bundle'.seal = bundle.seal
           /\ bundle'.nro = bundle.nro /\ bundle'.nroStamp = bundle.nroStamp
           /\ Begins \/ Ends \/ Breaks
<1>1. (bundle.info # [version |-> env.metadata]) \in BOOLEAN
  OBVIOUS
<1>2. Ends
  BY <1>1, Working DEF WriteInfo, Ends
<1> QED BY <1>2, Working DEF WriteInfo, Carry, pascal, Shaped

LEMMA SealCourse ==
    ASSUME Shaped, Truths, SealSteps
    PROVE  /\ Building /\ Stage = "seal"
           /\ UNCHANGED <<target, env, file, package, stamp, inputs, seen, units, exe, apk, signing>>
           /\ bundle'.library = bundle.library /\ bundle'.copied = bundle.copied
           /\ bundle'.symbols = bundle.symbols
           /\ bundle'.librarySymbols = bundle.librarySymbols /\ bundle'.info = bundle.info
           /\ bundle'.signed = bundle.signed /\ bundle'.nro = bundle.nro
           /\ bundle'.nroStamp = bundle.nroStamp
           /\ Begins \/ Ends \/ Breaks
<1>1. CASE SealSkips \/ Seal
  BY <1>1, Working DEF SealSkips, Seal, Carry, Ends, Shaped, pascal, packed
<1>2. CASE SealFails
  <2>1. PICK left : bundle' = [bundle EXCEPT !.seal = left]
    BY <1>2 DEF SealFails
  <2>2. Building /\ Stage = "seal"
    BY <1>2, Working DEF SealFails
  <2>3. Breaks /\ UNCHANGED <<target, env, file, pascal, apk, signing>>
    BY <1>2, <2>2, AbortBreaks DEF SealFails
  <2> QED BY <2>1, <2>2, <2>3 DEF Shaped, pascal
<1> QED BY <1>1, <1>2 DEF SealSteps

LEMMA SignCourse ==
    ASSUME Shaped, Truths, SignSteps
    PROVE  /\ Building /\ Stage = "sign"
           /\ UNCHANGED <<target, env, file, package, stamp, inputs, seen, units, exe, apk, signing,
                         cut>>
           /\ bundle'.library = bundle.library /\ bundle'.copied = bundle.copied
           /\ bundle'.symbols = bundle.symbols
           /\ bundle'.librarySymbols = bundle.librarySymbols /\ bundle'.info = bundle.info
           /\ bundle'.nro = bundle.nro /\ bundle'.nroStamp = bundle.nroStamp
           /\ Begins \/ Ends \/ Breaks
<1>1. CASE SignSkips \/ SignEnds
  BY <1>1, Working DEF SignSkips, SignEnds, Carry, Ends, Shaped, pascal, packed
<1>2. CASE SignBegins
  BY <1>2, Working DEF SignBegins, Carry, Begins, Shaped, pascal, packed
<1>3. CASE SignFails
  BY <1>3, Working, AbortBreaks DEF SignFails, Shaped, pascal, packed
<1> QED BY <1>1, <1>2, <1>3 DEF SignSteps

LEMMA NroCourse ==
    ASSUME Shaped, Truths, NroSteps
    PROVE  /\ Building /\ Stage = "nro"
           /\ UNCHANGED <<target, env, file, package, stamp, inputs, seen, units, exe, apk, signing,
                         cut>>
           /\ bundle'.library = bundle.library /\ bundle'.copied = bundle.copied
           /\ bundle'.symbols = bundle.symbols
           /\ bundle'.librarySymbols = bundle.librarySymbols /\ bundle'.info = bundle.info
           /\ bundle'.seal = bundle.seal /\ bundle'.signed = bundle.signed
           /\ Begins \/ Ends \/ Breaks
<1>1. CASE NroSkips \/ NroEnds
  BY <1>1, Working DEF NroSkips, NroEnds, Carry, Ends, Shaped, pascal, packed
<1>2. CASE NroBegins
  BY <1>2, Working DEF NroBegins, Carry, Begins, Shaped, pascal, packed
<1>3. CASE NroFails
  BY <1>3, Working, AbortBreaks DEF NroFails, Shaped, pascal, packed
<1> QED BY <1>1, <1>2, <1>3 DEF NroSteps

LEMMA ApkCourse ==
    ASSUME Shaped, Truths, ApkSteps
    PROVE  /\ Building /\ Stage \in {"assemble", "key", "signed", "archive", "publish"}
           /\ UNCHANGED <<target, env, file, package, stamp, inputs, seen, units, exe, bundle, cut>>
           /\ Begins \/ Ends \/ Breaks \/ Stays
<1>1. CASE Assemble \/ KeyIsThere \/ MakeKey \/ VerifyApk \/ ArchiveSymbols \/ Publish
  BY <1>1, Working DEF Assemble, KeyIsThere, MakeKey, VerifyApk, ArchiveSymbols, Publish,
     Carry, Ends, pascal, packed
<1>2. CASE SignApk
  BY <1>2, Working DEF SignApk, Carry, Begins, pascal
<1>3. CASE MakePassword
  BY <1>3, Working DEF MakePassword, Carry, Stays, pascal
<1>4. CASE KeyIsUnusable \/ MakeKeyFails
  BY <1>4, Working, AbortBreaks DEF KeyIsUnusable, MakeKeyFails, Carry, Breaks, pascal, packed
<1>5. CASE AssembleFails \/ PasswordIsCut \/ VerifyFails \/ ArchiveFails
  BY <1>5, Working, AbortBreaks DEF AssembleFails, PasswordIsCut, VerifyFails, ArchiveFails,
     pascal, packed
<1> QED BY <1>1, <1>2, <1>3, <1>4, <1>5 DEF ApkSteps, AssembleSteps, KeySteps, SignedSteps,
   ArchiveSteps

LEMMA Course ==
    ASSUME Shaped, Truths, Next
    PROVE  /\ target' = target
           /\ Edits \/ Starts \/ Begins \/ Ends \/ Breaks \/ Stays
           /\ ~Edits => env' = env
BY Groups, EditCourse, StartCourse, CopyCourse, PackageCourse, GameCourse, SymbolsCourse,
   InfoCourse, SealCourse, SignCourse, NroCourse, ApkCourse

\* What the end of a stage does
LEMMA FinishSets ==
    ASSUME Shaped, Truths, CourseInv, Building, NEW changed \in BOOLEAN, Finish(changed)
    PROVE  \/ /\ run.stage < Len(Recipe)
              /\ run'.stage = run.stage + 1 /\ run'.at = "check" /\ ~run'.all
              /\ run'.rebuild = run.rebuild /\ run'.changed = (run.changed \/ changed)
              /\ outcome' = outcome /\ changes' = changes
           \/ run.stage = Len(Recipe) /\ run' = Idle /\ outcome' = "ok" /\ changes' = {}
<1>1. Len(Recipe) \in Nat /\ run.stage \in 1 .. Len(Recipe)
  BY RecipeLength DEF CourseInv
<1>2. CASE run.stage < Len(Recipe)
  <2>1. /\ run' = [run EXCEPT !.stage = @ + 1, !.at = "check", !.all = FALSE,
                              !.changed = @ \/ changed]
        /\ outcome' = outcome /\ changes' = changes
    BY <1>2 DEF Finish
  <2>2. /\ run'.stage = run.stage + 1 /\ run'.at = "check" /\ ~run'.all
        /\ run'.rebuild = run.rebuild
    BY <2>1 DEF Shaped
  <2>3. run'.changed = (run.changed \/ changed)
    BY <2>1 DEF Shaped
  <2> QED BY <1>2, <2>1, <2>2, <2>3
<1>3. CASE ~(run.stage < Len(Recipe))
  BY <1>1, <1>3 DEF Finish
<1> QED BY <1>2, <1>3

LEMMA RunStep ==
    ASSUME Shaped, Truths, CourseInv, Next
    PROVE  /\ run' = [stage |-> run'.stage, at |-> run'.at, rebuild |-> run'.rebuild,
                      all |-> run'.all, changed |-> run'.changed]
           /\ run'.rebuild \in BOOLEAN /\ run'.all \in BOOLEAN /\ run'.changed \in BOOLEAN
           /\ run'.at \in {"idle", "check", "work"}
           /\ ~Building' => run' = Idle
           /\ Building' => run'.stage \in 1 .. Len(Recipe)' /\ outcome' = "running"
<1>1. Len(Recipe) \in Nat /\ 3 <= Len(Recipe) /\ Recipe' = Recipe
  BY RecipeLength, Course DEF CourseInv, Recipe
<1>2. CASE Edits \/ Stays
  BY <1>1, <1>2 DEF Edits, Stays, Shaped, Truths, CourseInv, Building
<1>3. CASE Starts
  BY <1>1, <1>3 DEF Starts, Building
<1>4. CASE Begins
  BY <1>1, <1>4 DEF Begins, Begin, Shaped, Truths, CourseInv, Building
<1>5. CASE Breaks
  BY <1>5 DEF Breaks, Stops, Idle, Building
<1>6. CASE Ends
  <2>1. PICK changed \in BOOLEAN : Building /\ Finish(changed)
    BY <1>6 DEF Ends
  <2>2. CASE run.stage < Len(Recipe)
    <3>1. run' = [run EXCEPT !.stage = @ + 1, !.at = "check", !.all = FALSE,
                             !.changed = @ \/ changed]
      BY <2>1, <2>2 DEF Finish
    <3>2. run' = [stage |-> run.stage + 1, at |-> "check", rebuild |-> run.rebuild,
                  all |-> FALSE, changed |-> run.changed \/ changed]
      BY <3>1 DEF Shaped
    <3>3. run.stage + 1 \in 1 .. Len(Recipe) /\ outcome' = "running"
      BY <1>1, <2>1, <2>2 DEF CourseInv, Finish
    <3> QED BY <1>1, <3>2, <3>3 DEF Truths, Building
  <2>3. CASE ~(run.stage < Len(Recipe))
    <3>1. run' = Idle
      BY <2>1, <2>3 DEF Finish
    <3> QED BY <3>1 DEF Idle, Building
  <2> QED BY <2>2, <2>3
<1> QED BY <1>2, <1>3, <1>4, <1>5, <1>6, Course

\* A stage is done.
Done(s) == (Building /\ Past(s)) \/ (outcome = "ok" /\ Has(s))

LEMMA DoneStep ==
    ASSUME Shaped, Truths, CourseInv, Next, NEW s, Done(s)'
    PROVE  Building /\ (Past(s) \/ (Ends /\ s = Stage))
<1>1. Len(Recipe) \in Nat /\ Recipe' = Recipe
  BY RecipeLength, Course DEF CourseInv, Recipe
<1>2. CASE Ends
  <2>1. PICK changed \in BOOLEAN : Building /\ Finish(changed)
    BY <1>2 DEF Ends
  <2>2. run.stage \in 1 .. Len(Recipe) /\ Stage = Recipe[run.stage]
    BY <1>1, <2>1 DEF CourseInv, Stage
  <2>3. CASE run.stage < Len(Recipe) /\ run'.stage = run.stage + 1 /\ outcome' = outcome
    <3>1. PICK i \in 1 .. run.stage : Recipe[i] = s
      BY <1>1, <2>1, <2>2, <2>3 DEF Done, Past, CourseInv
    <3> QED BY <1>2, <2>1, <2>2, <3>1 DEF Past
  <2>4. CASE run.stage = Len(Recipe) /\ run' = Idle
    <3>1. PICK i \in 1 .. run.stage : Recipe[i] = s
      BY <1>1, <2>2, <2>4 DEF Done, Has, Building, Idle
    <3> QED BY <1>2, <2>1, <2>2, <3>1 DEF Past
  <2> QED BY <2>1, <2>3, <2>4, FinishSets
<1>3. CASE Stays \/ Begins
  <2>1. Building /\ outcome' # "ok" /\ run'.stage = run.stage
    BY <1>3 DEF Stays, Begins, Begin, Building, CourseInv, Shaped
  <2> QED BY <1>1, <2>1 DEF Done, Past
<1>4. CASE Edits \/ Breaks
  BY <1>4 DEF Edits, Breaks, Stops, Done, Building, Idle
<1>5. CASE Starts
  <2>1. run'.stage = 1 /\ outcome' # "ok"
    BY <1>5 DEF Starts
  <2> QED BY <2>1 DEF Done, Past
<1> QED BY <1>2, <1>3, <1>4, <1>5, Course

LEMMA WorksStep ==
    ASSUME Shaped, Truths, CourseInv, Next, NEW s, Works(s)'
    PROVE  Begins /\ Stage = s
<1>1. Recipe' = Recipe
  BY Course DEF Recipe
<1>2. CASE Begins
  <2>1. run'.stage = run.stage
    BY <1>2 DEF Begins, Begin, Shaped
  <2> QED BY <1>1, <1>2, <2>1 DEF Works, Stage
<1>3. CASE Edits \/ Starts \/ Breaks \/ Ends
  <2>1. run'.at # "work"
    <3>1. CASE Edits \/ Starts \/ Breaks
      BY <3>1 DEF Edits, Starts, Breaks, Stops, Idle, Building
    <3>2. CASE Ends
      BY <3>2, FinishSets DEF Ends, Idle
    <3> QED BY <1>3, <3>1, <3>2
  <2> QED BY <2>1 DEF Works
<1>4. CASE Stays
  BY <1>4 DEF Stays, Works
<1> QED BY <1>2, <1>3, <1>4, Course

\* The records keep their fields.
LEMMA BundleEdits ==
    ASSUME Shaped, Truths, EditSteps
    PROVE  \/ bundle' = bundle
           \/ /\ bundle' = [bundle EXCEPT !.copied = FALSE]
              /\ ChangeEnvironment
           \/ /\ bundle' \in {[bundle EXCEPT !.seal = None], [bundle EXCEPT !.nro = None],
                              [bundle EXCEPT !.symbols = None],
                              [bundle EXCEPT !.librarySymbols = None],
                              [bundle EXCEPT !.library = None]}
              /\ LoseGenerated
<1>1. CASE ChangeEnvironment
  <2>1. PICK what \in DOMAIN env : bundle' = [bundle EXCEPT !.copied = @ /\ what # "library"]
    BY <1>1 DEF ChangeEnvironment
  <2>2. CASE what = "library"
    <3>1. bundle' = [bundle EXCEPT !.copied = FALSE]
      BY <2>1, <2>2 DEF Truths
    <3> QED BY <1>1, <3>1
  <2>3. CASE what # "library"
    BY <2>1, <2>3 DEF Shaped, Truths
  <2> QED BY <2>2, <2>3
<1>2. CASE EditUnit \/ RemoveUnit \/ LoseSigning
  BY <1>2 DEF EditUnit, RemoveUnit, LoseSigning, packed
<1>3. CASE LoseGenerated
  BY <1>3 DEF LoseGenerated
<1> QED BY <1>1, <1>2, <1>3 DEF EditSteps

LEMMA BundleStep ==
    ASSUME Shaped, Truths, Next
    PROVE  /\ bundle' = [library |-> bundle'.library, copied |-> bundle'.copied,
                      symbols |-> bundle'.symbols, librarySymbols |-> bundle'.librarySymbols,
                      info |-> bundle'.info, seal |-> bundle'.seal, signed |-> bundle'.signed,
                      nro |-> bundle'.nro, nroStamp |-> bundle'.nroStamp]
           /\ bundle'.copied \in BOOLEAN /\ bundle'.signed \in BOOLEAN
<1>1. CASE bundle' = bundle
  BY <1>1 DEF Shaped, Truths
<1>2. CASE EditSteps
  BY <1>1, <1>2, BundleEdits DEF Shaped, Truths
<1>3. CASE CopySteps
  BY <1>1, <1>3 DEF CopySteps, CopySkips, CopyBegins, CopyEnds, CopyFails, packed, Shaped, Truths
<1>4. CASE GameSteps
  BY <1>1, <1>4 DEF GameSteps, GenerateBuildInfo, GameSkips, GameBegins, GameEnds, GameFails,
     packed, Shaped, Truths
<1>5. CASE SymbolsSteps
  <2>1. CASE SymbolsSkip
    BY <1>1, <2>1 DEF SymbolsSkip, packed
  <2>2. CASE ~SymbolsSkip
    <3>1. Stage \in SymbolStages /\ \E new : bundle' = [bundle EXCEPT ![Stage] = new]
      BY <1>5, <2>2 DEF SymbolsSteps, SymbolsEnd, SymbolsFail
    <3>2. PICK new : bundle' = [bundle EXCEPT ![Stage] = new]
      BY <3>1
    <3> DEFINE symbols == IF Stage = "symbols" THEN new ELSE bundle.symbols
               librarySymbols == IF Stage = "symbols" THEN bundle.librarySymbols ELSE new
    <3>3. bundle' = [library |-> bundle.library, copied |-> bundle.copied, symbols |-> symbols,
                     librarySymbols |-> librarySymbols, info |-> bundle.info,
                     seal |-> bundle.seal, signed |-> bundle.signed, nro |-> bundle.nro,
                     nroStamp |-> bundle.nroStamp]
      BY <3>1, <3>2, SymbolsBundle
    <3> HIDE DEF symbols, librarySymbols
    <3> QED BY <3>3 DEF Truths
  <2> QED BY <2>1, <2>2
<1>6. CASE WriteInfo
  BY <1>6 DEF WriteInfo, Shaped, Truths
<1>7. CASE SealSteps
  BY <1>1, <1>7 DEF SealSteps, SealSkips, Seal, SealFails, packed, Shaped, Truths
<1>8. CASE SignSteps
  BY <1>1, <1>8 DEF SignSteps, SignSkips, SignBegins, SignEnds, SignFails, packed, Shaped, Truths
<1>9. CASE NroSteps
  BY <1>1, <1>9 DEF NroSteps, NroSkips, NroBegins, NroEnds, NroFails, packed, Shaped, Truths
<1> QED BY <1>1, <1>2, <1>3, <1>4, <1>5, <1>6, <1>7, <1>8, <1>9, Groups, StartCourse,
   PackageCourse, ApkCourse

LEMMA CutStep ==
    ASSUME Shaped, Truths, Next
    PROVE  /\ cut' \in BOOLEAN
           /\ ~SymbolsSteps /\ ~SealSteps => cut' = cut
<1>1. CASE SymbolsSteps
  BY <1>1 DEF SymbolsSteps, SymbolsSkip, SymbolsEnd, SymbolsFail, packed, Truths
<1>2. CASE SealSteps
  BY <1>2 DEF SealSteps, SealSkips, Seal, SealFails, packed, Truths
<1>3. CASE ~SymbolsSteps /\ ~SealSteps
  BY <1>3, Groups, EditCourse, StartCourse, CopyCourse, PackageCourse, GameCourse, InfoCourse,
     SignCourse, NroCourse, ApkCourse DEF Truths
<1> QED BY <1>1, <1>2, <1>3

LEMMA RestStep ==
    ASSUME Shaped, Truths, Next
    PROVE  /\ env' = [options |-> env'.options, library |-> env'.library,
                      package |-> env'.package, metadata |-> env'.metadata,
                      revision |-> env'.revision]
           /\ package' = [stamp |-> package'.stamp, seen |-> package'.seen, ppu |-> package'.ppu]
           /\ package'.seen \in BOOLEAN
<1>1. CASE UNCHANGED <<env, package>>
  BY <1>1 DEF Shaped, Truths
<1>2. CASE ChangeEnvironment
  <2>1. PICK what \in DOMAIN env : /\ env' = [env EXCEPT ![what] = 1 - @]
                                  /\ package' = [package EXCEPT !.seen = @ /\ what # "package"]
    BY <1>2 DEF ChangeEnvironment
  <2>2. env' = [options |-> env'.options, library |-> env'.library,
                package |-> env'.package, metadata |-> env'.metadata,
                revision |-> env'.revision]
    BY <2>1 DEF Shaped
  <2> QED BY <2>1, <2>2 DEF Shaped, Truths
<1>3. CASE LoseGenerated
  BY <1>1, <1>3 DEF LoseGenerated, Shaped, Truths
<1>4. CASE PackageSteps
  <2>1. env' = env
    BY <1>4, PackageCourse
  <2>2. CASE PackageSkips
    BY <1>1, <2>1, <2>2 DEF PackageSkips, pascal
  <2>3. CASE PackageBegins
    BY <2>1, <2>3 DEF PackageBegins, Shaped, Truths
  <2>4. CASE PackageEnds
    BY <2>1, <2>4 DEF PackageEnds, Shaped, Truths
  <2>5. CASE PackageFails
    BY <2>1, <2>5 DEF PackageFails, Shaped, Truths
  <2> QED BY <1>4, <2>2, <2>3, <2>4, <2>5 DEF PackageSteps
<1>5. CASE EditUnit \/ RemoveUnit \/ LoseSigning
  BY <1>1, <1>5 DEF EditUnit, RemoveUnit, LoseSigning, pascal
<1> QED BY <1>1, <1>2, <1>3, <1>4, <1>5, Groups, StartCourse, CopyCourse, GameCourse,
   SymbolsCourse, InfoCourse, SealCourse, SignCourse, NroCourse, ApkCourse DEF EditSteps

LEMMA ApkStep ==
    ASSUME Shaped, Truths, Next
    PROVE  /\ apk' = [work |-> apk'.work, published |-> apk'.published, archive |-> apk'.archive]
           /\ signing' = [password |-> signing'.password, key |-> signing'.key,
                          lost |-> signing'.lost]
           /\ signing'.lost \in BOOLEAN
           /\ apk'.work # None =>
                 apk'.work = [exe |-> apk'.work.exe, metadata |-> apk'.work.metadata,
                              key |-> apk'.work.key, verified |-> apk'.work.verified]
<1>1. CASE UNCHANGED <<apk, signing>>
  BY <1>1 DEF Shaped, Truths
<1>2. CASE LoseSigning
  BY <1>2 DEF LoseSigning, Shaped, Truths
<1>3. CASE AssembleSteps
  BY <1>1, <1>3 DEF AssembleSteps, Assemble, AssembleFails, packed, Shaped, Truths
<1>4. CASE KeySteps
  BY <1>1, <1>4 DEF KeySteps, KeyIsUnusable, KeyIsThere, MakePassword, PasswordIsCut, MakeKey,
     MakeKeyFails, packed, Shaped, Truths
<1>5. CASE SignApk
  <2>1. apk' = [apk EXCEPT !.work = [apk.work EXCEPT !.key = signing.key]] /\ signing' = signing
    BY <1>5 DEF SignApk
  <2>2. apk' = [work |-> [apk.work EXCEPT !.key = signing.key],
                published |-> apk.published, archive |-> apk.archive]
    BY <2>1 DEF Shaped
  <2>3. apk.work = None => [apk.work EXCEPT !.key = signing.key] = None
    BY DEF None
  <2> QED BY <2>1, <2>2, <2>3 DEF Shaped, Truths
<1>6. CASE VerifyApk
  <2>1. apk' = [apk EXCEPT !.work = [apk.work EXCEPT !.verified = TRUE]] /\ signing' = signing
    BY <1>6 DEF VerifyApk
  <2>2. apk' = [work |-> [apk.work EXCEPT !.verified = TRUE],
                published |-> apk.published, archive |-> apk.archive]
    BY <2>1 DEF Shaped
  <2>3. apk.work = None => [apk.work EXCEPT !.verified = TRUE] = None
    BY DEF None
  <2> QED BY <2>1, <2>2, <2>3 DEF Shaped, Truths
<1>7. CASE VerifyFails \/ ArchiveSteps \/ Publish
  BY <1>1, <1>7 DEF VerifyFails, ArchiveSteps, ArchiveSymbols, ArchiveFails, Publish, packed,
     Shaped, Truths
<1>8. CASE ChangeEnvironment \/ EditUnit \/ RemoveUnit \/ LoseGenerated
  BY <1>1, <1>8 DEF ChangeEnvironment, EditUnit, RemoveUnit, LoseGenerated, packed
<1> QED BY <1>1, <1>2, <1>3, <1>4, <1>5, <1>6, <1>7, <1>8, Groups, StartCourse, CopyCourse,
   PackageCourse, GameCourse, SymbolsCourse, InfoCourse, SealCourse, SignCourse, NroCourse
   DEF EditSteps, ApkSteps, SignedSteps

LEMMA Basics ==
    ASSUME Shaped, Truths, CourseInv, Next
    PROVE  Shaped' /\ Truths' /\ CourseInv'
<1>1. Shaped'
  BY RunStep, BundleStep, RestStep, ApkStep DEF Shaped
<1>2. Truths'
  BY RunStep, BundleStep, CutStep, RestStep, ApkStep DEF Truths
<1>3. CourseInv'
  BY RunStep, Course DEF CourseInv
<1> QED BY <1>1, <1>2, <1>3

-----------------------------------------------------------------------------
(* The invariant *)

\* Debug symbols and seals apart, what a stage leaves behind
CopyGood == bundle.copied /\ bundle.library # None
PackageGood == /\ package.stamp = [options |-> env.options]
               /\ package.seen /\ package.ppu # None
GameGood == InfoIsCurrent /\ SameCommand /\ SameInputs /\ exe # None
InfoGood == bundle.info = [version |-> env.metadata]
NroGood == bundle.nroStamp = NroSignature /\ bundle.nro # None
WorkGood == apk.work # None /\ apk.work.exe = exe /\ apk.work.metadata = env.metadata
SignedGood == apk.work.verified /\ (~signing.lost => apk.work.key = 1)
PublishedGood == apk.published.exe = exe /\ apk.published.metadata = env.metadata

Good(s) ==
    /\ s = "copy" => CopyGood
    /\ s = "package" => PackageGood
    /\ s = "game" => GameGood
    /\ s = "info" => InfoGood
    /\ s = "nro" => NroGood
    /\ s = "assemble" => WorkGood
    /\ s = "key" => signing.key # 0
    /\ s = "signed" => SignedGood
    /\ s = "archive" => apk.work.exe \in apk.archive
    /\ s = "publish" => PublishedGood

\* It is there until the build ends, and until something is changed after it.
StageInv == \A s \in Stages : Done(s) => Good(s)

\* What the stamps say is so.
CopyInv ==
    /\ CopyGood => bundle.library = [version |-> env.library]
    /\ Works("copy") => ~bundle.copied
    /\ ~Has("copy") => bundle.library = None
PackageInv ==
    /\ package.seen /\ package.ppu # None =>
          package.ppu = [source |-> env.package, options |-> package.stamp.options]
    /\ Works("package") => package.ppu = None /\ Package \notin seen
NroInv ==
    /\ bundle.nroStamp \notin {Missing, Empty} /\ bundle.nro # None =>
          bundle.nro = bundle.nroStamp
    /\ Works("nro") => bundle.nroStamp = Empty

Recorded == stamp \notin {Missing, Empty}

\* The PPUs are those of the last inventory until one is lost or a compilation
\* fails; a file that has not been edited since is as it was compiled.
UnitsInv ==
    Generated \in seen =>
        /\ DOMAIN units = DOMAIN inputs
        /\ \A u \in DOMAIN units :
              /\ units[u].second = inputs[u]
              /\ u \in seen => /\ u \in Present
                               /\ file[u].content = units[u].content
                               /\ file[u].second = units[u].second
              /\ Recorded => stamp = [options |-> units[u].options]

\* A game whose command is recorded is that of the inventory.
ExeInv ==
    Recorded /\ exe # None =>
        /\ DOMAIN exe.units = DOMAIN inputs
        /\ \A u \in DOMAIN inputs :
              /\ stamp = [options |-> exe.units[u].options]
              /\ u \in seen => u \in Present /\ exe.units[u].content = file[u].content
        /\ Package \in seen => exe.package = package.ppu
        /\ Library \in seen => exe.library = env.library \/ (target = "linux" /\ ~bundle.copied)

\* What FPC is not told to compile is compiled as it would be now.
WorkInv ==
    Works("game") =>
        /\ stamp = Empty
        /\ InfoIsCurrent
        /\ ~run.all => /\ DOMAIN inputs = Present
                       /\ Generated \in seen
                       /\ \A u \in Present \ seen : inputs[u] # file[u].second
                       /\ \A u \in DOMAIN units : units[u].options = env.options

\* The key is the first one until it is lost, and the APK is signed with it.
SigningInv ==
    /\ signing.key # 0 /\ ~signing.lost => signing.key = 1
    /\ Works("signed") => apk.work.key = signing.key

\* Since a successful build nothing but a library was changed, and the build
\* that runs was not told to rebuild.
ChangesInv ==
    changes \subseteq {"library"} /\ ~run.rebuild =>
        /\ PackageGood
        /\ ~Works("game") => /\ InfoIsCurrent /\ SameCommand
                             /\ inputs # Missing /\ DOMAIN inputs = Present
                             /\ Inputs \ {Library} \subseteq seen

\* The sources are the units and the generated one.
FilesInv == Present \subseteq AllUnits

Basis == Shaped /\ Truths /\ CourseInv
IInv == /\ Basis /\ FilesInv
        /\ StageInv /\ CopyInv /\ PackageInv /\ NroInv
        /\ UnitsInv /\ ExeInv /\ WorkInv
        /\ SigningInv /\ PublishedApkIsGood
        /\ ChangesInv

-----------------------------------------------------------------------------
(* Stages that are done stay so until the end of the build. *)

LEMMA NoEnd ==
    ASSUME Shaped, Truths, CourseInv, Ends
    PROVE  ~Begins /\ ~Breaks /\ ~Stays
<1>1. run'.at # "work" /\ run' # run /\ outcome' # "failed"
  <2>1. PICK changed \in BOOLEAN : Building /\ Finish(changed)
    BY DEF Ends
  <2>2. Len(Recipe) \in Nat /\ run.stage \in 1 .. Len(Recipe)
    BY <2>1, RecipeLength DEF CourseInv
  <2>3. CASE /\ run'.stage = run.stage + 1 /\ run'.at = "check" /\ outcome' = outcome
    BY <2>1, <2>2, <2>3 DEF CourseInv
  <2>4. CASE run' = Idle /\ outcome' = "ok"
    BY <2>1, <2>4 DEF Idle, Building
  <2> QED BY <2>1, <2>3, <2>4, FinishSets
<1>2. ~Begins
  BY <1>1 DEF Begins, Begin, Shaped
<1> QED BY <1>1, <1>2 DEF Breaks, Stops, Stays

LEMMA FailsBreaks == \A s : Fails(s) => Breaks
BY Working, AbortBreaks

\* The steps that end a stage
LEMMA EndSteps ==
    ASSUME Basis, Next, Ends
    PROVE  /\ CopySteps => CopySkips \/ CopyEnds
           /\ PackageSteps => PackageSkips \/ PackageEnds
           /\ GameSteps => GameSkips \/ GameEnds
           /\ SymbolsSteps => SymbolsSkip \/ SymbolsEnd
           /\ SealSteps => SealSkips \/ Seal
           /\ SignSteps => SignSkips \/ SignEnds
           /\ NroSteps => NroSkips \/ NroEnds
           /\ AssembleSteps => Assemble
           /\ KeySteps => KeyIsThere \/ MakeKey
           /\ SignedSteps => VerifyApk
           /\ ArchiveSteps => ArchiveSymbols
<1>1. ~Begins /\ ~Breaks /\ ~Stays
  BY NoEnd DEF Basis
<1>2. ~CopyBegins /\ ~CopyFails
  BY <1>1, Working, FailsBreaks DEF CopyBegins, CopyFails, Begins
<1>3. ~PackageBegins /\ ~PackageFails
  BY <1>1, Working, FailsBreaks DEF PackageBegins, PackageFails, Begins
<1>4. ~GenerateBuildInfo /\ ~GameBegins /\ ~GameFails
  <2>1. (run.rebuild \/ ~SameCommand \/ (~SameInputs /\ units_need_rebuild)) \in BOOLEAN
    BY DEF Basis, Truths
  <2>2. ~GameBegins
    BY <1>1, <2>1, Working DEF GameBegins, Begins
  <2> QED BY <1>1, <2>2, Working, FailsBreaks DEF GenerateBuildInfo, GameFails, Stays
<1>5. ~SymbolsFail /\ ~SealFails
  <2>1. SymbolsFail => Building
    BY DEF SymbolsFail, Building
  <2> QED BY <1>1, <2>1, Working, AbortBreaks DEF SymbolsFail, SealFails
<1>6. ~SignBegins /\ ~SignFails /\ ~NroBegins /\ ~NroFails
  BY <1>1, Working, FailsBreaks DEF SignBegins, SignFails, NroBegins, NroFails, Begins
<1>7. ~AssembleFails /\ ~PasswordIsCut /\ ~MakeKeyFails /\ ~VerifyFails /\ ~ArchiveFails
  BY <1>1, Working, AbortBreaks, FailsBreaks DEF AssembleFails, PasswordIsCut, MakeKeyFails,
     VerifyFails, ArchiveFails, Breaks
<1>8. ~KeyIsUnusable /\ ~MakePassword /\ ~SignApk
  BY <1>1, Working DEF KeyIsUnusable, MakePassword, SignApk, Breaks, Stays, Begins
<1> QED BY <1>2, <1>3, <1>4, <1>5, <1>6, <1>7, <1>8 DEF CopySteps, PackageSteps, GameSteps,
   SymbolsSteps, SealSteps, SignSteps, NroSteps, AssembleSteps, KeySteps, SignedSteps, ArchiveSteps

LEMMA GoodCopy ==
    ASSUME Basis, StageInv, CopySteps, Next, NEW s \in Stages, Done(s)'
    PROVE  Good(s)'
<1>1. Building /\ Stage = "copy"
  BY CopyCourse DEF Basis
<1>2. ~Past(s)
  BY <1>1, PastStages, Ranks DEF Basis, Stages, SymbolStages
<1>3. s = "copy" /\ Ends
  BY <1>1, <1>2, DoneStep DEF Basis
<1>4. CASE CopySkips
  BY <1>3, <1>4 DEF CopySkips, CopyIsUpToDate, packed, Good, CopyGood
<1>5. CASE CopyEnds
  <2>1. bundle' = [bundle EXCEPT !.copied = TRUE, !.library = [version |-> env.library]]
    BY <1>5 DEF CopyEnds
  <2>2. bundle'.copied /\ bundle'.library = [version |-> env.library]
    BY <2>1 DEF Basis, Shaped
  <2> QED BY <1>3, <2>2, Distinct DEF Good, CopyGood
<1> QED BY <1>3, <1>4, <1>5, EndSteps

LEMMA GoodPackage ==
    ASSUME Basis, StageInv, PackageSteps, Next, NEW s \in Stages, Done(s)'
    PROVE  Good(s)'
<1>1. Building /\ Stage = "package" /\ bundle' = bundle /\ env' = env
  BY PackageCourse DEF Basis
<1>2. CASE Past(s)
  <2>1. s = "copy" /\ Good(s)
    BY <1>1, <1>2, PastStages, Ranks DEF Basis, StageInv, Done, Stages, SymbolStages
  <2> QED BY <1>1, <2>1 DEF Good, CopyGood
<1>3. CASE s = "package" /\ Ends
  <2>1. CASE PackageSkips
    BY <1>1, <1>3, <2>1 DEF PackageSkips, PackageIsUpToDate, pascal, Good, PackageGood
  <2>2. CASE PackageEnds
    BY <1>1, <1>3, <2>2, Distinct DEF PackageEnds, NewPackage, Good, PackageGood
  <2> QED BY <1>3, <2>1, <2>2, EndSteps
<1> QED BY <1>1, <1>2, <1>3, DoneStep DEF Basis

LEMMA GameEndsGood ==
    ASSUME WorkInv, GameEnds
    PROVE  GameGood'
<1>1. /\ file' = file /\ stamp' = [options |-> env.options] /\ seen' = Inputs
      /\ inputs' = [u \in Present |-> file[u].second] /\ exe' = Linked(Compiled)
      /\ env' = env
  BY DEF GameEnds, Carry
<1>2. InfoIsCurrent
  BY DEF GameEnds, WorkInv
<1>3. DOMAIN inputs' = Present /\ inputs' # Missing
  <2>1. DOMAIN Missing = {"is"} /\ BuildInfo # "is"
    BY DEF Missing, BuildInfo
  <2>2. BuildInfo \in Present
    BY <1>2 DEF InfoIsCurrent
  <2> QED BY <1>1, <2>1, <2>2
<1>4. exe' # None
  BY <1>1, Distinct DEF Linked
<1>5. InfoIsCurrent' /\ SameCommand' /\ SameInputs'
  BY <1>1, <1>2, <1>3 DEF InfoIsCurrent, SameCommand, SameInputs, Inputs, Present
<1> QED BY <1>4, <1>5 DEF GameGood

LEMMA GoodGame ==
    ASSUME Basis, StageInv, WorkInv, GameSteps, Next, NEW s \in Stages, Done(s)'
    PROVE  Good(s)'
<1>1. /\ Building /\ Stage = "game" /\ UNCHANGED <<env, package>>
      /\ bundle'.copied = bundle.copied /\ bundle'.library = bundle.library
  BY GameCourse DEF Basis
<1>2. CASE Past(s)
  <2>1. s \in {"copy", "package"} /\ Good(s)
    BY <1>1, <1>2, PastStages, Ranks DEF Basis, StageInv, Done, Stages, SymbolStages
  <2> QED BY <1>1, <2>1 DEF Good, CopyGood, PackageGood
<1>3. CASE s = "game" /\ Ends
  <2>1. CASE GameSkips
    <3>1. GameGood /\ UNCHANGED <<env, file, stamp, inputs, seen, exe>>
      BY <1>1, <2>1 DEF GameSkips, GameIsUpToDate, pascal, GameGood
    <3>2. GameGood'
      BY <3>1 DEF GameGood, InfoIsCurrent, SameCommand, SameInputs, Inputs, Present
    <3> QED BY <1>3, <3>2 DEF Good
  <2>2. CASE GameEnds
    BY <1>3, <2>2, GameEndsGood DEF Good
  <2> QED BY <1>3, <2>1, <2>2, EndSteps
<1> QED BY <1>1, <1>2, <1>3, DoneStep DEF Basis

\* Packing changes nothing of what was compiled.
LEMMA GoodBundle ==
    ASSUME Basis, StageInv, Next, NEW s \in Stages, Done(s)',
           SymbolsSteps \/ WriteInfo \/ SealSteps \/ SignSteps \/ NroSteps
    PROVE  Good(s)'
<1>1. UNCHANGED <<target, env, file, package, stamp, inputs, seen, units, exe, apk, signing>>
  BY SymbolsCourse, InfoCourse, SealCourse, SignCourse, NroCourse DEF Basis
<1>2. bundle'.copied = bundle.copied /\ bundle'.library = bundle.library
  BY SymbolsCourse, InfoCourse, SealCourse, SignCourse, NroCourse DEF Basis
<1>3. Building /\ Stage \in {"symbols", "librarySymbols", "info", "seal", "sign", "nro"}
  BY SymbolsCourse, InfoCourse, SealCourse, SignCourse, NroCourse DEF Basis
<1>4. GameGood' = GameGood
  BY <1>1 DEF GameGood, InfoIsCurrent, SameCommand, SameInputs, Inputs, Present
<1>5. CASE s \notin {"info", "nro"}
  <2>1. Past(s) => Good(s)
    BY <1>3 DEF StageInv, Done
  <2>2. ~Past(s) => Good(s)
    <3>1. ~Past(s) => s = Stage
      BY DoneStep DEF Basis
    <3> QED BY <1>3, <1>5, <3>1 DEF Good
  <2> QED BY <1>1, <1>2, <1>4, <1>5, <2>1, <2>2 DEF Good, CopyGood, PackageGood, WorkGood,
     SignedGood, PublishedGood
<1>6. CASE s = "info"
  <2>1. CASE WriteInfo
    <3>1. bundle' = [bundle EXCEPT !.info = [version |-> env.metadata],
                                   !.signed = @ /\ bundle.info = [version |-> env.metadata]]
      BY <2>1 DEF WriteInfo
    <3>2. bundle'.info = [version |-> env.metadata]
      BY <3>1 DEF Basis, Shaped
    <3> QED BY <1>1, <1>6, <3>2 DEF Good, InfoGood
  <2>2. CASE ~WriteInfo
    <3>1. bundle'.info = bundle.info
      BY <2>2, SymbolsCourse, SealCourse, SignCourse, NroCourse DEF Basis
    <3>2. Stage # "info"
      BY <2>2, SymbolsCourse, SealCourse, SignCourse, NroCourse DEF Basis
    <3>3. Good(s)
      BY <1>3, <1>6, <3>2, DoneStep DEF Basis, StageInv, Done
    <3> QED BY <1>1, <1>6, <3>1, <3>3 DEF Good, InfoGood
  <2> QED BY <2>1, <2>2
<1>7. CASE s = "nro"
  <2>1. CASE NroSteps
    <3>1. ~Past(s) /\ Stage = "nro"
      BY <1>7, <2>1, NroCourse, PastStages, Ranks DEF Basis
    <3>2. Ends
      BY <3>1, DoneStep DEF Basis
    <3>3. CASE NroSkips
      BY <1>1, <1>7, <3>3 DEF NroSkips, NroIsUpToDate, packed, Good, NroGood, NroSignature
    <3>4. CASE NroEnds
      <4>1. bundle' = [bundle EXCEPT !.nroStamp = NroSignature, !.nro = NroSignature]
        BY <3>4 DEF NroEnds
      <4>2. bundle'.nroStamp = NroSignature /\ bundle'.nro = NroSignature
        BY <4>1 DEF Basis, Shaped
      <4> QED BY <1>1, <1>7, <4>2, Distinct DEF Good, NroGood, NroSignature
    <3> QED BY <2>1, <3>2, <3>3, <3>4, EndSteps
  <2>2. CASE ~NroSteps
    <3>1. bundle'.nro = bundle.nro /\ bundle'.nroStamp = bundle.nroStamp
      BY <2>2, SymbolsCourse, InfoCourse, SealCourse, SignCourse DEF Basis
    <3>2. Stage # "nro"
      BY <2>2, SymbolsCourse, InfoCourse, SealCourse, SignCourse DEF Basis
    <3>3. Good(s)
      BY <1>3, <1>7, <3>2, DoneStep DEF Basis, StageInv, Done
    <3> QED BY <1>1, <1>7, <3>1, <3>3 DEF Good, NroGood, NroSignature
  <2> QED BY <2>1, <2>2
<1> QED BY <1>5, <1>6, <1>7

LEMMA GoodApk ==
    ASSUME Basis, StageInv, SigningInv, ApkSteps, Next, NEW s \in Stages, Done(s)'
    PROVE  Good(s)'
<1>1. /\ UNCHANGED <<env, file, package, stamp, inputs, seen, units, exe, bundle>>
      /\ Building /\ target = "android"
  BY ApkCourse, RecipeNext DEF Basis
<1>2. GameGood' = GameGood
  BY <1>1 DEF GameGood, InfoIsCurrent, SameCommand, SameInputs, Inputs, Present
<1>3. Past(s) => Good(s) /\ Rank[s] < Rank[Stage]
  BY <1>1, PastStages DEF Basis, StageInv, Done
<1>4. Past(s) \/ (s = Stage /\ Ends)
  BY DoneStep DEF Basis
<1>5. /\ Has("assemble") /\ Has("key") /\ Has("signed") /\ Has("archive")
  BY <1>1, RecipeHas DEF Basis, CourseInv
<1>6. CASE AssembleSteps
  <2>1. Stage = "assemble"
    BY <1>6, Working DEF AssembleSteps, Assemble, AssembleFails
  <2>2. CASE Past(s)
    <3>1. s \in {"copy", "package", "game", "info", "nro"}
            \/ s \in {"symbols", "librarySymbols", "seal", "sign"}
      BY <1>3, <2>1, <2>2, Ranks DEF Stages, SymbolStages
    <3> QED BY <1>1, <1>2, <1>3, <2>2, <3>1 DEF Good, CopyGood, PackageGood, InfoGood, NroGood,
       NroSignature
  <2>3. CASE s = Stage /\ Ends
    <3>1. Assemble
      BY <1>6, <2>3, EndSteps
    <3>2. apk' = [apk EXCEPT !.work = [exe |-> exe, metadata |-> env.metadata, key |-> 0,
                                       verified |-> FALSE]]
      BY <3>1 DEF Assemble
    <3>3. apk'.work = [exe |-> exe, metadata |-> env.metadata, key |-> 0, verified |-> FALSE]
      BY <3>2 DEF Basis, Shaped
    <3> QED BY <1>1, <2>1, <2>3, <3>3, Distinct DEF Good, WorkGood
  <2> QED BY <1>4, <2>2, <2>3
<1>7. CASE KeySteps
  <2>1. Stage = "key" /\ apk' = apk /\ signing'.lost = signing.lost
    BY <1>7, Working DEF KeySteps, KeyIsUnusable, KeyIsThere, MakePassword, PasswordIsCut,
       MakeKey, MakeKeyFails, packed, Basis, Shaped
  <2>2. CASE Past(s)
    <3>1. s # "key"
      BY <1>3, <2>1, <2>2, Ranks
    <3> QED BY <1>1, <1>2, <1>3, <2>1, <2>2, <3>1 DEF Good, CopyGood, PackageGood, InfoGood,
       NroGood, NroSignature, WorkGood, SignedGood, PublishedGood
  <2>3. CASE s = Stage /\ Ends
    <3>1. CASE KeyIsThere
      BY <2>1, <2>3, <3>1 DEF KeyIsThere, packed, Good
    <3>2. CASE MakeKey
      <4>1. signing'.key \in {1, 2}
        BY <3>2 DEF MakeKey, Basis, Shaped
      <4> QED BY <2>1, <2>3, <4>1 DEF Good
    <3> QED BY <1>7, <2>3, <3>1, <3>2, EndSteps
  <2> QED BY <1>4, <2>2, <2>3
<1>8. CASE SignedSteps
  <2>1. Stage = "signed" /\ signing' = signing
    BY <1>8, Working DEF SignedSteps, SignApk, VerifyApk, VerifyFails, packed
  <2>2. WorkGood /\ signing.key # 0
    <3>1. Past("assemble") /\ Past("key")
      BY <1>1, <1>5, <2>1, PastIfBefore, Ranks DEF Basis
    <3>2. Good("assemble") /\ Good("key")
      BY <1>1, <3>1 DEF StageInv, Done, Stages, SymbolStages
    <3> QED BY <3>2 DEF Good
  <2>3. /\ apk'.work # None /\ apk'.work.exe = apk.work.exe
        /\ apk'.work.metadata = apk.work.metadata
        /\ VerifyApk => apk'.work.key = apk.work.key /\ apk'.work.verified
    <3>1. CASE SignApk
      <4>1. apk' = [apk EXCEPT !.work = [apk.work EXCEPT !.key = signing.key]]
        BY <3>1 DEF SignApk
      <4>2. apk'.work = [apk.work EXCEPT !.key = signing.key]
        BY <4>1 DEF Basis, Shaped
      <4>3. ~VerifyApk
        BY <3>1 DEF SignApk, VerifyApk, Checks, Works
      <4>4. apk'.work = [exe |-> apk.work.exe, metadata |-> apk.work.metadata,
                         key |-> signing.key, verified |-> apk.work.verified]
        BY <2>2, <4>2 DEF WorkGood, Basis, Shaped
      <4> QED BY <4>3, <4>4, Distinct
    <3>2. CASE VerifyApk
      <4>1. apk' = [apk EXCEPT !.work = [apk.work EXCEPT !.verified = TRUE]]
        BY <3>2 DEF VerifyApk
      <4>2. apk'.work = [apk.work EXCEPT !.verified = TRUE]
        BY <4>1 DEF Basis, Shaped
      <4>3. apk'.work = [exe |-> apk.work.exe, metadata |-> apk.work.metadata,
                         key |-> apk.work.key, verified |-> TRUE]
        BY <2>2, <4>2 DEF WorkGood, Basis, Shaped
      <4> QED BY <4>3, Distinct
    <3>3. CASE VerifyFails
      <4>1. Breaks /\ apk' = apk
        BY <3>3, FailsBreaks DEF VerifyFails, packed
      <4>2. VerifyApk => Ends
        BY Working DEF VerifyApk, Ends
      <4> QED BY <2>2, <4>1, <4>2, NoEnd DEF Basis, WorkGood
    <3> QED BY <1>8, <3>1, <3>2, <3>3 DEF SignedSteps
  <2>4. CASE Past(s)
    <3>1. s \notin {"signed", "archive", "publish"}
      BY <1>3, <2>1, <2>4, Ranks
    <3> QED BY <1>1, <1>2, <1>3, <2>1, <2>3, <2>4, <3>1 DEF Good, CopyGood, PackageGood, InfoGood,
       NroGood, NroSignature, WorkGood
  <2>5. CASE s = Stage /\ Ends
    <3>1. VerifyApk
      BY <1>8, <2>5, EndSteps
    <3>2. apk.work.key = signing.key
      BY <3>1 DEF VerifyApk, SigningInv
    <3>3. ~signing.lost => signing.key = 1
      BY <2>2 DEF SigningInv
    <3> QED BY <2>1, <2>3, <2>5, <3>1, <3>2, <3>3 DEF Good, SignedGood
  <2> QED BY <1>4, <2>4, <2>5
<1>9. CASE ArchiveSteps
  <2>1. Stage = "archive" /\ signing' = signing
    BY <1>9, Working DEF ArchiveSteps, ArchiveSymbols, ArchiveFails, packed
  <2>2. WorkGood
    <3>1. Past("assemble")
      BY <1>1, <1>5, <2>1, PastIfBefore, Ranks DEF Basis
    <3>2. Good("assemble")
      BY <1>1, <3>1 DEF StageInv, Done, Stages, SymbolStages
    <3> QED BY <3>2 DEF Good
  <2>3. /\ apk'.work = apk.work /\ apk'.published = apk.published
        /\ ArchiveSymbols => apk'.archive = apk.archive \union {exe}
    <3>1. CASE ArchiveSymbols
      BY <3>1 DEF ArchiveSymbols, Basis, Shaped
    <3>2. CASE ArchiveFails
      BY <3>2 DEF ArchiveFails, packed, ArchiveSymbols, Basis, Shaped
    <3> QED BY <1>9, <3>1, <3>2 DEF ArchiveSteps
  <2>4. CASE Past(s)
    <3>1. s \notin {"archive", "publish"}
      BY <1>3, <2>1, <2>4, Ranks
    <3> QED BY <1>1, <1>2, <1>3, <2>1, <2>3, <2>4, <3>1 DEF Good, CopyGood, PackageGood, InfoGood,
       NroGood, NroSignature, WorkGood, SignedGood
  <2>5. CASE s = Stage /\ Ends
    <3>1. ArchiveSymbols
      BY <1>9, <2>5, EndSteps
    <3> QED BY <2>1, <2>2, <2>3, <2>5, <3>1 DEF Good, WorkGood
  <2> QED BY <1>4, <2>4, <2>5
<1>10. CASE Publish
  <2>1. Stage = "publish" /\ signing' = signing
    BY <1>10, Working DEF Publish
  <2>2. /\ apk'.work = apk.work /\ apk'.published = apk.work /\ apk'.archive = apk.archive
    BY <1>10 DEF Publish, Basis, Shaped
  <2>3. WorkGood
    <3>1. Past("assemble")
      BY <1>1, <1>5, <2>1, PastIfBefore, Ranks DEF Basis
    <3>2. Good("assemble")
      BY <1>1, <3>1 DEF StageInv, Done, Stages, SymbolStages
    <3> QED BY <3>2 DEF Good
  <2>4. CASE Past(s)
    <3>1. s # "publish"
      BY <1>3, <2>1, <2>4, Ranks
    <3> QED BY <1>1, <1>2, <1>3, <2>1, <2>2, <2>4, <3>1 DEF Good, CopyGood, PackageGood, InfoGood,
       NroGood, NroSignature, WorkGood, SignedGood
  <2>5. CASE s = Stage
    BY <1>1, <2>1, <2>2, <2>3, <2>5 DEF Good, WorkGood, PublishedGood
  <2> QED BY <1>4, <2>4, <2>5
<1> QED BY <1>6, <1>7, <1>8, <1>9, <1>10 DEF ApkSteps

LEMMA StageStep ==
    ASSUME Basis, StageInv, WorkInv, SigningInv, Next
    PROVE  StageInv'
<1> SUFFICES ASSUME NEW s \in Stages, Done(s)'  PROVE Good(s)'
  BY DEF StageInv
<1>1. Building
  BY DoneStep DEF Basis
<1>2. ~EditSteps /\ ~StartBuild
  BY <1>1, EditCourse, StartCourse DEF Edits, Starts
<1> QED BY <1>2, Groups, GoodCopy, GoodPackage, GoodGame, GoodBundle, GoodApk

-----------------------------------------------------------------------------
(* Stamps and inventories *)

LEMMA ApkStages ==
    /\ AssembleSteps => Stage = "assemble"
    /\ KeySteps => Stage = "key"
    /\ ArchiveSteps => Stage = "archive"
    /\ Publish => Stage = "publish"
<1>1. AssembleSteps => Stage = "assemble"
  BY Working DEF AssembleSteps, Assemble, AssembleFails
<1>2. KeySteps => Stage = "key"
  BY Working DEF KeySteps, KeyIsUnusable, KeyIsThere, MakePassword, PasswordIsCut, MakeKey,
     MakeKeyFails
<1>3. ArchiveSteps => Stage = "archive"
  BY Working DEF ArchiveSteps, ArchiveSymbols, ArchiveFails
<1>4. Publish => Stage = "publish"
  BY Working DEF Publish
<1> QED BY <1>1, <1>2, <1>3, <1>4

\* The steps that begin the work of a stage
LEMMA WorkBegins ==
    ASSUME Basis, Next
    PROVE  /\ Works("copy")' => CopyBegins
           /\ Works("package")' => PackageBegins
           /\ Works("game")' => GameBegins
           /\ Works("sign")' => SignBegins
           /\ Works("nro")' => NroBegins
           /\ Works("signed")' => SignApk
<1> SUFFICES ASSUME NEW s, Works(s)'
             PROVE  /\ s = "copy" => CopyBegins
                    /\ s = "package" => PackageBegins
                    /\ s = "game" => GameBegins
                    /\ s = "sign" => SignBegins
                    /\ s = "nro" => NroBegins
                    /\ s = "signed" => SignApk
  OBVIOUS
<1>1. Begins /\ Stage = s /\ ~Ends
  BY WorksStep, NoEnd DEF Basis
<1>2. ~Breaks /\ ~Stays /\ Building
  <2>1. run.at = "check" /\ run'.at = "work"
    BY <1>1 DEF Begins, Begin, Basis, Shaped
  <2>2. Breaks => run'.at = "idle"
    BY DEF Breaks, Stops, Idle
  <2> QED BY <2>1, <2>2 DEF Stays, Building
<1>3. ~EditSteps /\ ~StartBuild
  BY <1>2, EditCourse, StartCourse DEF Edits, Starts
<1>4. CASE CopySteps
  <2>1. ~CopySkips /\ ~CopyEnds /\ ~CopyFails
    BY <1>1, <1>2, Working, FailsBreaks DEF CopySkips, CopyEnds, CopyFails, Ends
  <2> QED BY <1>1, <1>4, <2>1, CopyCourse DEF CopySteps, Basis
<1>5. CASE PackageSteps
  <2>1. ~PackageSkips /\ ~PackageEnds /\ ~PackageFails
    BY <1>1, <1>2, Working, FailsBreaks DEF PackageSkips, PackageEnds, PackageFails, Ends
  <2> QED BY <1>1, <1>5, <2>1, PackageCourse DEF PackageSteps, Basis
<1>6. CASE GameSteps
  <2>1. ~GameSkips /\ ~GameEnds /\ ~GameFails /\ ~GenerateBuildInfo
    BY <1>1, <1>2, Working, FailsBreaks DEF GameSkips, GameEnds, GameFails, GenerateBuildInfo,
       Ends, Stays
  <2> QED BY <1>1, <1>6, <2>1, GameCourse DEF GameSteps, Basis
<1>7. CASE SymbolsSteps \/ WriteInfo \/ SealSteps
  <2>1. Stage \in {"symbols", "librarySymbols", "info", "seal"}
    BY <1>7, SymbolsCourse, InfoCourse, SealCourse DEF Basis
  <2> QED BY <1>1, <2>1
<1>8. CASE SignSteps
  <2>1. ~SignSkips /\ ~SignEnds /\ ~SignFails
    BY <1>1, <1>2, Working, FailsBreaks DEF SignSkips, SignEnds, SignFails, Ends
  <2> QED BY <1>1, <1>8, <2>1, SignCourse DEF SignSteps, Basis
<1>9. CASE NroSteps
  <2>1. ~NroSkips /\ ~NroEnds /\ ~NroFails
    BY <1>1, <1>2, Working, FailsBreaks DEF NroSkips, NroEnds, NroFails, Ends
  <2> QED BY <1>1, <1>9, <2>1, NroCourse DEF NroSteps, Basis
<1>10. CASE ApkSteps
  <2>1. Stage \in {"assemble", "key", "signed", "archive", "publish"}
    BY <1>10, ApkCourse DEF Basis
  <2>2. s = "signed" => SignedSteps
    BY <1>1, <1>10, ApkStages DEF ApkSteps
  <2>3. ~VerifyApk /\ ~VerifyFails
    BY <1>1, <1>2, Working, FailsBreaks DEF VerifyApk, VerifyFails, Ends
  <2> QED BY <1>1, <2>1, <2>2, <2>3 DEF SignedSteps
<1> QED BY <1>3, <1>4, <1>5, <1>6, <1>7, <1>8, <1>9, <1>10, Groups

LEMMA StageIsHad == ASSUME CourseInv, Building  PROVE Has(Stage)
BY DEF CourseInv, Has, Stage

LEMMA CopyStep ==
    ASSUME Basis, CopyInv, Next
    PROVE  CopyInv'
<1>1. target' = target /\ (Has("copy")' <=> Has("copy"))
  BY Course DEF Basis, Has, Recipe
<1>2. Works("copy")' => ~bundle'.copied
  <2>1. CopyBegins => bundle' = [bundle EXCEPT !.copied = FALSE]
    BY DEF CopyBegins
  <2>2. CopyBegins => ~bundle'.copied
    BY <2>1 DEF Basis, Shaped
  <2> QED BY <2>2, WorkBegins
<1>3. CASE env' = env /\ bundle'.copied = bundle.copied /\ bundle'.library = bundle.library
  BY <1>1, <1>2, <1>3 DEF CopyInv, CopyGood
<1>4. CASE EditSteps
  <2>1. CASE ChangeEnvironment
    <3>1. PICK what \in DOMAIN env : /\ env' = [env EXCEPT ![what] = 1 - @]
                                    /\ bundle' = [bundle EXCEPT !.copied = @ /\ what # "library"]
      BY <2>1 DEF ChangeEnvironment
    <3>2. bundle'.library = bundle.library /\ (bundle'.copied => bundle.copied /\ what # "library")
      BY <3>1 DEF Basis, Shaped
    <3>3. what # "library" => env'.library = env.library
      BY <3>1 DEF Basis, Shaped
    <3> QED BY <1>1, <1>2, <3>2, <3>3 DEF CopyInv, CopyGood
  <2>2. CASE LoseGenerated
    <3>1. env' = env /\ bundle'.copied = bundle.copied /\ bundle'.library \in {bundle.library, None}
      BY <2>2 DEF LoseGenerated, Basis, Shaped
    <3> QED BY <1>1, <1>2, <3>1 DEF CopyInv, CopyGood
  <2>3. CASE EditUnit \/ RemoveUnit \/ LoseSigning
    BY <1>3, <2>3 DEF EditUnit, RemoveUnit, LoseSigning, packed
  <2> QED BY <1>4, <2>1, <2>2, <2>3 DEF EditSteps
<1>5. CASE CopySteps
  <2>1. Has("copy") /\ env' = env
    BY <1>5, CopyCourse, StageIsHad DEF Basis
  <2>2. CASE CopySkips
    BY <1>3, <2>1, <2>2 DEF CopySkips, packed
  <2>3. CASE CopyBegins
    <3>1. bundle' = [bundle EXCEPT !.copied = FALSE]
      BY <2>3 DEF CopyBegins
    <3>2. ~bundle'.copied
      BY <3>1 DEF Basis, Shaped
    <3> QED BY <1>1, <2>1, <3>2 DEF CopyInv, CopyGood
  <2>4. CASE CopyEnds
    <3>1. bundle' = [bundle EXCEPT !.copied = TRUE, !.library = [version |-> env.library]]
      BY <2>4 DEF CopyEnds
    <3>2. bundle'.library = [version |-> env.library]
      BY <3>1 DEF Basis, Shaped
    <3> QED BY <1>1, <1>2, <2>1, <3>2 DEF CopyInv, CopyGood
  <2>5. CASE CopyFails
    <3>1. ~bundle.copied
      BY <2>5, Working DEF CopyFails, CopyInv
    <3>2. PICK library : bundle' = [bundle EXCEPT !.library = library]
      BY <2>5 DEF CopyFails
    <3>3. ~bundle'.copied
      BY <3>1, <3>2 DEF Basis, Shaped
    <3> QED BY <1>1, <2>1, <3>3 DEF CopyInv, CopyGood
  <2> QED BY <1>5, <2>2, <2>3, <2>4, <2>5 DEF CopySteps
<1> QED BY <1>3, <1>4, <1>5, Groups, StartCourse, PackageCourse, GameCourse, SymbolsCourse,
   InfoCourse, SealCourse, SignCourse, NroCourse, ApkCourse DEF Basis

LEMMA PackageStep ==
    ASSUME Basis, PackageInv, Next
    PROVE  PackageInv'
<1>1. Works("package")' => package'.ppu = None /\ Package \notin seen'
  <2>1. PackageBegins => /\ package' = [package EXCEPT !.stamp = Empty, !.ppu = None]
                         /\ seen' = seen \ {Package}
    BY DEF PackageBegins
  <2>2. PackageBegins => package'.ppu = None
    BY <2>1 DEF Basis, Shaped
  <2> QED BY <2>1, <2>2, WorkBegins
<1>2. CASE UNCHANGED <<env, package>>
  BY <1>1, <1>2 DEF PackageInv
<1>3. CASE EditSteps
  <2>1. CASE ChangeEnvironment
    <3>1. PICK what \in DOMAIN env : /\ env' = [env EXCEPT ![what] = 1 - @]
                                    /\ package' = [package EXCEPT !.seen = @ /\ what # "package"]
      BY <2>1 DEF ChangeEnvironment
    <3>2. /\ package'.ppu = package.ppu /\ package'.stamp = package.stamp
          /\ package'.seen => package.seen /\ what # "package"
      BY <3>1 DEF Basis, Shaped
    <3>3. what # "package" => env'.package = env.package
      BY <3>1 DEF Basis, Shaped
    <3> QED BY <1>1, <3>2, <3>3 DEF PackageInv
  <2>2. CASE LoseGenerated
    <3>1. env' = env /\ (package' = package \/ package'.ppu = None)
      BY <2>2 DEF LoseGenerated, Basis, Shaped
    <3> QED BY <1>1, <3>1 DEF PackageInv
  <2>3. CASE EditUnit \/ RemoveUnit \/ LoseSigning
    BY <1>2, <2>3 DEF EditUnit, RemoveUnit, LoseSigning, pascal
  <2> QED BY <1>3, <2>1, <2>2, <2>3 DEF EditSteps
<1>4. CASE PackageSteps
  <2>1. env' = env
    BY <1>4, PackageCourse DEF Basis
  <2>2. CASE PackageSkips
    BY <1>2, <2>1, <2>2 DEF PackageSkips, pascal
  <2>3. CASE PackageBegins
    <3>1. package' = [package EXCEPT !.stamp = Empty, !.ppu = None]
      BY <2>3 DEF PackageBegins
    <3>2. package'.ppu = None
      BY <3>1 DEF Basis, Shaped
    <3> QED BY <1>1, <3>2 DEF PackageInv
  <2>4. CASE PackageEnds
    <3>1. package.ppu = None
      BY <2>4 DEF PackageEnds, PackageInv
    <3>2. package' = [stamp |-> [options |-> env.options], seen |-> TRUE,
                      ppu |-> [source |-> env.package, options |-> env.options]]
      BY <2>4, <3>1 DEF PackageEnds, NewPackage
    <3> QED BY <1>1, <2>1, <3>2 DEF PackageInv
  <2>5. CASE PackageFails
    <3>1. PICK ppu : package' = [package EXCEPT !.ppu = ppu, !.seen = FALSE]
      BY <2>5 DEF PackageFails
    <3>2. ~package'.seen
      BY <3>1 DEF Basis, Shaped
    <3> QED BY <1>1, <3>2 DEF PackageInv
  <2> QED BY <1>4, <2>2, <2>3, <2>4, <2>5 DEF PackageSteps
<1> QED BY <1>2, <1>3, <1>4, Groups, StartCourse, CopyCourse, GameCourse, SymbolsCourse,
   InfoCourse, SealCourse, SignCourse, NroCourse, ApkCourse DEF Basis

LEMMA NroStep ==
    ASSUME Basis, NroInv, Next
    PROVE  NroInv'
<1>1. Works("nro")' => bundle'.nroStamp = Empty
  <2>1. NroBegins => bundle' = [bundle EXCEPT !.nroStamp = Empty]
    BY DEF NroBegins
  <2>2. NroBegins => bundle'.nroStamp = Empty
    BY <2>1 DEF Basis, Shaped
  <2> QED BY <2>2, WorkBegins
<1>2. CASE bundle'.nro \in {bundle.nro, None} /\ bundle'.nroStamp = bundle.nroStamp
  BY <1>1, <1>2 DEF NroInv
<1>3. CASE EditSteps
  <2>1. bundle'.nro \in {bundle.nro, None} /\ bundle'.nroStamp = bundle.nroStamp
    BY <1>3, BundleEdits DEF Basis, Shaped
  <2> QED BY <1>2, <2>1
<1>4. CASE NroSteps
  <2>1. CASE NroSkips
    BY <1>2, <2>1 DEF NroSkips, packed
  <2>2. CASE NroBegins
    <3>1. bundle' = [bundle EXCEPT !.nroStamp = Empty]
      BY <2>2 DEF NroBegins
    <3>2. bundle'.nroStamp = Empty
      BY <3>1 DEF Basis, Shaped
    <3> QED BY <3>2 DEF NroInv
  <2>3. CASE NroEnds
    <3>1. bundle' = [bundle EXCEPT !.nroStamp = NroSignature, !.nro = NroSignature]
      BY <2>3 DEF NroEnds
    <3>2. bundle'.nro = bundle'.nroStamp
      BY <3>1 DEF Basis, Shaped
    <3> QED BY <1>1, <3>2 DEF NroInv
  <2>4. CASE NroFails
    <3>1. bundle.nroStamp = Empty
      BY <2>4, Working DEF NroFails, NroInv
    <3>2. PICK nro : bundle' = [bundle EXCEPT !.nro = nro]
      BY <2>4 DEF NroFails
    <3>3. bundle'.nroStamp = Empty
      BY <3>1, <3>2 DEF Basis, Shaped
    <3> QED BY <3>3 DEF NroInv
  <2> QED BY <1>4, <2>1, <2>2, <2>3, <2>4 DEF NroSteps
<1> QED BY <1>2, <1>3, <1>4, Groups, StartCourse, CopyCourse, PackageCourse, GameCourse,
   SymbolsCourse, InfoCourse, SealCourse, SignCourse, ApkCourse DEF Basis

LEMMA SigningStep ==
    ASSUME Basis, SigningInv, StageInv, Next
    PROVE  SigningInv'
<1>1. signing'.key # 0 /\ ~signing'.lost => signing'.key = 1
  <2>1. CASE signing' = signing
    BY <2>1 DEF SigningInv
  <2>2. CASE KeySteps
    <3>1. CASE MakeKey
      BY <3>1 DEF MakeKey, SigningInv, Basis, Shaped
    <3>2. CASE KeyIsUnusable \/ KeyIsThere \/ MakeKeyFails
      BY <2>1, <3>2 DEF KeyIsUnusable, KeyIsThere, MakeKeyFails, packed
    <3>3. CASE MakePassword \/ PasswordIsCut
      BY <3>3 DEF MakePassword, PasswordIsCut, SigningInv, Basis, Shaped
    <3> QED BY <2>2, <3>1, <3>2, <3>3 DEF KeySteps
  <2>3. CASE LoseSigning
    BY <2>3 DEF LoseSigning, SigningInv, Basis, Shaped
  <2>4. CASE AssembleSteps \/ SignedSteps \/ ArchiveSteps \/ Publish
    BY <2>1, <2>4 DEF AssembleSteps, Assemble, AssembleFails, SignedSteps, SignApk, VerifyApk,
       VerifyFails, ArchiveSteps, ArchiveSymbols, ArchiveFails, Publish, packed
  <2>5. CASE ChangeEnvironment \/ EditUnit \/ RemoveUnit \/ LoseGenerated
    BY <2>1, <2>5 DEF ChangeEnvironment, EditUnit, RemoveUnit, LoseGenerated, packed
  <2> QED BY <2>1, <2>2, <2>3, <2>4, <2>5, Groups, StartCourse, CopyCourse, PackageCourse,
     GameCourse, SymbolsCourse, InfoCourse, SealCourse, SignCourse, NroCourse
     DEF Basis, EditSteps, ApkSteps
<1>2. Works("signed")' => apk'.work.key = signing'.key
  <2>1. ASSUME SignApk  PROVE apk'.work.key = signing'.key
    <3>1. apk' = [apk EXCEPT !.work = [apk.work EXCEPT !.key = signing.key]] /\ signing' = signing
      BY <2>1 DEF SignApk
    <3>2. apk'.work = [apk.work EXCEPT !.key = signing.key]
      BY <3>1 DEF Basis, Shaped
    <3>3. Building /\ Stage = "signed"
      BY <2>1, Working DEF SignApk
    <3>4. target = "android" /\ Has("assemble")
      BY <3>3, RecipeNext, RecipeHas DEF Basis, CourseInv
    <3>5. Past("assemble")
      BY <3>3, <3>4, PastIfBefore, Ranks DEF Basis
    <3>6. Good("assemble")
      BY <3>3, <3>5 DEF StageInv, Done, Stages, SymbolStages
    <3>7. apk.work # None
      BY <3>6 DEF Good, WorkGood
    <3> QED BY <3>1, <3>2, <3>7 DEF Basis, Shaped
  <2> QED BY <2>1, WorkBegins
<1> QED BY <1>1, <1>2 DEF SigningInv

-----------------------------------------------------------------------------
(* The units and the executable *)

\* Steps that touch no PPU, and take from seen every file they touch
LEMMA UnitsFrame ==
    ASSUME UnitsInv, UNCHANGED <<units, inputs>>, stamp' \in {stamp, Empty}, seen' \subseteq seen,
           \A u \in seen' \cap Present : u \in Present' /\ file'[u] = file[u]
    PROVE  UnitsInv'
<1>1. Recorded' => Recorded /\ stamp' = stamp
  BY DEF Recorded
<1>2. CASE Generated \in seen'
  <2>1. ASSUME NEW u \in DOMAIN units'
        PROVE  /\ units'[u].second = inputs'[u]
               /\ u \in seen' => /\ u \in Present'
                                 /\ file'[u].content = units'[u].content
                                 /\ file'[u].second = units'[u].second
               /\ Recorded' => stamp' = [options |-> units'[u].options]
    BY <1>1, <1>2, <2>1 DEF UnitsInv
  <2> QED BY <1>2, <2>1 DEF UnitsInv
<1> QED BY <1>2 DEF UnitsInv

LEMMA ExeFrame ==
    ASSUME ExeInv, inputs' = inputs, stamp' \in {stamp, Empty}, seen' \subseteq seen,
           \A u \in seen' \cap Present : u \in Present' /\ file'[u] = file[u],
           exe' \in {exe, None}, target' = target,
           Package \in seen' => package'.ppu = package.ppu,
           Library \in seen' => \/ env'.library = env.library /\ bundle'.copied = bundle.copied
                                \/ env'.library = env.library /\ target # "linux"
                                \/ target = "linux" /\ ~bundle'.copied
    PROVE  ExeInv'
<1>1. Recorded' => Recorded /\ stamp' = stamp
  BY DEF Recorded
<1>2. CASE Recorded' /\ exe' # None
  <2>1. Recorded /\ exe # None /\ exe' = exe
    BY <1>1, <1>2
  <2>2. DOMAIN exe'.units = DOMAIN inputs'
    BY <2>1 DEF ExeInv
  <2>3. ASSUME NEW u \in DOMAIN inputs'
        PROVE  /\ stamp' = [options |-> exe'.units[u].options]
               /\ u \in seen' => u \in Present' /\ exe'.units[u].content = file'[u].content
    BY <1>1, <1>2, <2>1, <2>3 DEF ExeInv
  <2>4. Package \in seen' => exe'.package = package'.ppu
    BY <2>1 DEF ExeInv
  <2>5. Library \in seen' => exe'.library = env'.library \/ (target' = "linux" /\ ~bundle'.copied)
    BY <2>1 DEF ExeInv
  <2> QED BY <2>2, <2>3, <2>4, <2>5 DEF ExeInv
<1> QED BY <1>2 DEF ExeInv

\* What changes between two builds is taken from seen.
LEMMA EditsFrame ==
    ASSUME Basis, EditSteps
    PROVE  /\ UNCHANGED <<target, inputs, stamp>> /\ seen' \subseteq seen
           /\ \A u \in seen' \cap Present : u \in Present' /\ file'[u] = file[u]
           /\ exe' \in {exe, None}
           /\ Generated \in seen' => units' = units
           /\ Package \in seen' => package'.ppu = package.ppu
           /\ Library \in seen' => \/ env'.library = env.library /\ bundle'.copied = bundle.copied
                                   \/ env'.library = env.library /\ target # "linux"
                                   \/ target = "linux" /\ ~bundle'.copied
<1>1. CASE ChangeEnvironment
  <2>1. PICK what \in DOMAIN env :
           /\ env' = [env EXCEPT ![what] = 1 - @]
           /\ package' = [package EXCEPT !.seen = @ /\ what # "package"]
           /\ seen' = IF what = "library" /\ target # "linux" THEN seen \ {Library} ELSE seen
           /\ bundle' = [bundle EXCEPT !.copied = @ /\ what # "library"]
    BY <1>1 DEF ChangeEnvironment
  <2>2. package'.ppu = package.ppu
    BY <2>1 DEF Basis, Shaped
  <2>3. what # "library" => env'.library = env.library /\ bundle'.copied = bundle.copied
    BY <2>1 DEF Basis, Shaped, Truths
  <2>4. what = "library" => ~bundle'.copied
    BY <2>1 DEF Basis, Shaped
  <2>5. UNCHANGED <<target, inputs, stamp, file, units, exe>> /\ seen' \subseteq seen
    BY <1>1, <2>1, EditCourse DEF ChangeEnvironment, EditSteps
  <2> QED BY <2>1, <2>2, <2>3, <2>4, <2>5 DEF Present
<1>2. CASE EditUnit
  <2>1. PICK u \in Units :
           \E new : /\ file' = [v \in Present \union {u} |-> IF v = u THEN new ELSE file[v]]
                    /\ seen' = seen \ {u}
    BY <1>2 DEF EditUnit
  <2>2. UNCHANGED <<target, env, package, stamp, inputs, units, exe, bundle>>
    BY <1>2, EditCourse DEF EditUnit, EditSteps, packed
  <2> QED BY <2>1, <2>2 DEF Present
<1>3. CASE RemoveUnit
  <2>1. PICK u \in Units : file' = [v \in Present \ {u} |-> file[v]] /\ seen' = seen \ {u}
    BY <1>3 DEF RemoveUnit
  <2>2. UNCHANGED <<target, env, package, stamp, inputs, units, exe, bundle>>
    BY <1>3, EditCourse DEF RemoveUnit, EditSteps, packed
  <2> QED BY <2>1, <2>2 DEF Present
<1>4. CASE LoseGenerated
  <2>1. UNCHANGED <<target, env, file, stamp, inputs>>
    BY <1>4, EditCourse DEF LoseGenerated, EditSteps
  <2>2. bundle'.copied = bundle.copied
    BY <1>4 DEF LoseGenerated, Basis, Shaped
  <2>3. /\ seen' \subseteq seen /\ exe' \in {exe, None}
        /\ Generated \in seen' => units' = units
        /\ Package \in seen' => package'.ppu = package.ppu
    BY <1>4 DEF LoseGenerated
  <2> QED BY <2>1, <2>2, <2>3 DEF Present
<1>5. CASE LoseSigning
  BY <1>5, EditCourse DEF LoseSigning, EditSteps, pascal, Present
<1> QED BY <1>1, <1>2, <1>3, <1>4, <1>5 DEF EditSteps

LEMMA GenerateFrame ==
    ASSUME GenerateBuildInfo
    PROVE  /\ UNCHANGED <<target, env, package, stamp, inputs, units, exe, bundle>>
           /\ seen' \subseteq seen
           /\ \A u \in seen' \cap Present : u \in Present' /\ file'[u] = file[u]
<1>1. PICK new : file' = [v \in Present \union {BuildInfo} |-> IF v = BuildInfo THEN new ELSE file[v]]
  BY DEF GenerateBuildInfo
<1>2. seen' = seen \ {BuildInfo}
  BY DEF GenerateBuildInfo
<1> QED BY <1>1, <1>2 DEF GenerateBuildInfo, Carry, packed, Present

\* What FPC has compiled is what it would compile from the present sources.
LEMMA CompiledIsNew ==
    ASSUME UnitsInv, WorkInv, Works("game")
    PROVE  /\ DOMAIN Compiled = Present
           /\ \A u \in Present : /\ Compiled[u].content = file[u].content
                                 /\ Compiled[u].second = file[u].second
                                 /\ Compiled[u].options = env.options
<1>1. CASE run.all
  <2>1. Compiled = [u \in Present |-> NewUnit(u)]
    BY <1>1 DEF Compiled, Kept
  <2> QED BY <2>1 DEF NewUnit
<1>2. CASE ~run.all
  <2>1. /\ DOMAIN inputs = Present /\ Generated \in seen
        /\ \A u \in Present \ seen : inputs[u] # file[u].second
        /\ \A u \in DOMAIN units : units[u].options = env.options
    BY <1>2 DEF WorkInv
  <2>2. DOMAIN units = Present
    BY <2>1 DEF UnitsInv
  <2>3. Compiled = [u \in Present |-> IF Kept(u) THEN units[u] ELSE NewUnit(u)]
    BY <1>2, <2>2 DEF Compiled
  <2>4. ASSUME NEW u \in Present
        PROVE  /\ Compiled[u].content = file[u].content
               /\ Compiled[u].second = file[u].second
               /\ Compiled[u].options = env.options
    <3>1. CASE ~Kept(u)
      BY <2>3, <3>1 DEF NewUnit
    <3>2. CASE Kept(u)
      <4>1. units[u].second = file[u].second /\ units[u].second = inputs[u]
        BY <2>1, <2>2, <3>2 DEF Kept, UnitsInv
      <4>2. u \in seen
        BY <2>1, <4>1
      <4>3. units[u].content = file[u].content
        BY <2>1, <2>2, <4>2 DEF UnitsInv
      <4> QED BY <2>1, <2>2, <2>3, <3>2, <4>1, <4>3
    <3> QED BY <3>1, <3>2
  <2> QED BY <2>3, <2>4
<1> QED BY <1>1, <1>2

LEMMA UnitsStep ==
    ASSUME Basis, UnitsInv, WorkInv, Next
    PROVE  UnitsInv'
<1>1. CASE /\ UNCHANGED <<file, units, inputs>> /\ stamp' \in {stamp, Empty} /\ seen' \subseteq seen
  BY <1>1, UnitsFrame DEF Present
<1>2. CASE EditSteps
  <2>1. CASE Generated \in seen'
    BY <1>2, <2>1, EditsFrame, UnitsFrame
  <2>2. CASE Generated \notin seen'
    BY <2>2 DEF UnitsInv
  <2> QED BY <2>1, <2>2
<1>3. CASE CopySteps \/ PackageSteps
  <2>1. UNCHANGED <<file, units, inputs, stamp>>
    BY <1>3, CopyCourse, PackageCourse DEF Basis
  <2>2. seen' \subseteq seen
    BY <1>3 DEF CopySteps, CopySkips, CopyBegins, CopyEnds, CopyFails, PackageSteps,
       PackageSkips, PackageBegins, PackageEnds, PackageFails, pascal
  <2> QED BY <1>1, <2>1, <2>2
<1>4. CASE GameSteps
  <2>1. CASE GenerateBuildInfo
    BY <2>1, GenerateFrame, UnitsFrame
  <2>2. CASE GameSkips
    BY <1>1, <2>2 DEF GameSkips, pascal
  <2>3. CASE GameBegins
    BY <1>1, <2>3 DEF GameBegins
  <2>4. CASE GameFails
    BY <2>4 DEF GameFails, UnitsInv
  <2>5. CASE GameEnds
    <3>1. /\ units' = Compiled /\ stamp' = [options |-> env.options] /\ file' = file
          /\ inputs' = [u \in Present |-> file[u].second] /\ Works("game")
      BY <2>5 DEF GameEnds
    <3>2. DOMAIN units' = Present /\ DOMAIN inputs' = Present /\ Present' = Present
      BY <3>1, CompiledIsNew DEF Present
    <3>3. ASSUME NEW u \in Present
          PROVE  /\ units'[u].second = inputs'[u]
                 /\ file'[u].content = units'[u].content
                 /\ file'[u].second = units'[u].second
                 /\ stamp' = [options |-> units'[u].options]
      BY <3>1, <3>3, CompiledIsNew
    <3> QED BY <3>2, <3>3 DEF UnitsInv
  <2> QED BY <1>4, <2>1, <2>2, <2>3, <2>4, <2>5 DEF GameSteps
<1> QED BY <1>1, <1>2, <1>3, <1>4, Groups, StartCourse, SymbolsCourse, InfoCourse, SealCourse,
   SignCourse, NroCourse, ApkCourse DEF Basis

LEMMA ExeStep ==
    ASSUME Basis, UnitsInv, WorkInv, PackageInv, ExeInv, Next
    PROVE  ExeInv'
<1>1. CASE /\ UNCHANGED <<target, env, file, inputs, stamp, exe, package>> /\ seen' \subseteq seen
           /\ bundle'.copied = bundle.copied
  BY <1>1, ExeFrame DEF Present
<1>2. CASE EditSteps
  BY <1>2, EditsFrame, ExeFrame
<1>3. CASE CopySteps
  <2>1. UNCHANGED <<target, env, file, inputs, stamp, exe, package>>
    BY <1>3, CopyCourse DEF Basis
  <2>2. /\ seen' \subseteq seen
        /\ \/ bundle'.copied = bundle.copied
           \/ target = "linux" /\ ~bundle'.copied
           \/ target # "linux"
           \/ Library \notin seen'
    <3>1. CASE CopySkips
      BY <3>1 DEF CopySkips, pascal, packed
    <3>2. CASE CopyBegins
      <4>1. bundle' = [bundle EXCEPT !.copied = FALSE] /\ seen' = seen
        BY <3>2 DEF CopyBegins, pascal
      <4>2. ~bundle'.copied
        BY <4>1 DEF Basis, Shaped
      <4> QED BY <4>1, <4>2
    <3>3. CASE CopyEnds \/ CopyFails
      BY <3>3 DEF CopyEnds, CopyFails
    <3> QED BY <1>3, <3>1, <3>2, <3>3 DEF CopySteps
  <2> QED BY <2>1, <2>2, ExeFrame DEF Present
<1>4. CASE PackageSteps
  <2>1. UNCHANGED <<target, env, file, inputs, stamp, exe, bundle>>
    BY <1>4, PackageCourse DEF Basis
  <2>2. seen' \subseteq seen /\ (Package \in seen' => package'.ppu = package.ppu)
    <3>1. CASE PackageSkips
      BY <3>1 DEF PackageSkips, pascal
    <3>2. CASE PackageBegins
      BY <3>2 DEF PackageBegins
    <3>3. CASE PackageEnds \/ PackageFails
      BY <3>3, Working DEF PackageEnds, PackageFails, PackageInv
    <3> QED BY <1>4, <3>1, <3>2, <3>3 DEF PackageSteps
  <2> QED BY <2>1, <2>2, ExeFrame DEF Present
<1>5. CASE GameSteps
  <2>1. CASE GenerateBuildInfo
    BY <2>1, GenerateFrame, ExeFrame
  <2>2. CASE GameSkips
    BY <1>1, <2>2 DEF GameSkips, Carry, pascal, packed
  <2>3. CASE GameBegins
    BY <2>3, ExeFrame DEF GameBegins, Carry, packed, Present
  <2>4. CASE GameFails
    <3>1. stamp = Empty
      BY <2>4, Working DEF GameFails, WorkInv
    <3> QED BY <2>4, <3>1 DEF GameFails, ExeInv, Recorded
  <2>5. CASE GameEnds
    <3>1. /\ exe' = Linked(Compiled) /\ stamp' = [options |-> env.options]
          /\ inputs' = [u \in Present |-> file[u].second] /\ Works("game")
          /\ UNCHANGED <<target, env, file, package>>
      BY <2>5 DEF GameEnds, Carry
    <3>2. /\ exe'.units = Compiled /\ exe'.package = package'.ppu /\ exe'.library = env'.library
      BY <3>1 DEF Linked
    <3>3. DOMAIN inputs' = Present /\ Present' = Present
      BY <3>1 DEF Present
    <3>4. DOMAIN exe'.units = DOMAIN inputs'
      BY <3>1, <3>2, <3>3, CompiledIsNew
    <3>5. ASSUME NEW u \in DOMAIN inputs'
          PROVE  /\ stamp' = [options |-> exe'.units[u].options]
                 /\ u \in seen' => u \in Present' /\ exe'.units[u].content = file'[u].content
      BY <3>1, <3>2, <3>3, <3>5, CompiledIsNew
    <3> QED BY <3>2, <3>4, <3>5 DEF ExeInv
  <2> QED BY <1>5, <2>1, <2>2, <2>3, <2>4, <2>5 DEF GameSteps
<1> QED BY <1>1, <1>2, <1>3, <1>4, <1>5, Groups, StartCourse, SymbolsCourse, InfoCourse,
   SealCourse, SignCourse, NroCourse, ApkCourse DEF Basis

LEMMA WorkStep ==
    ASSUME Basis, UnitsInv, WorkInv, Next
    PROVE  WorkInv'
<1> SUFFICES ASSUME Works("game")'
             PROVE  /\ stamp' = Empty
                    /\ InfoIsCurrent'
                    /\ ~run'.all => /\ DOMAIN inputs' = Present'
                                    /\ Generated \in seen'
                                    /\ \A u \in Present' \ seen' : inputs'[u] # file'[u].second
                                    /\ \A u \in DOMAIN units' : units'[u].options = env'.options
  BY DEF WorkInv
<1>1. GameBegins
  BY WorkBegins
<1>2. /\ stamp' = Empty /\ InfoIsCurrent
      /\ UNCHANGED <<env, file, inputs, seen, units>>
  BY <1>1 DEF GameBegins, Carry
<1>3. run'.all = (run.rebuild \/ ~SameCommand \/ (~SameInputs /\ units_need_rebuild))
  <2> DEFINE all == run.rebuild \/ ~SameCommand \/ (~SameInputs /\ units_need_rebuild)
  <2>1. run' = [run EXCEPT !.at = "work", !.all = all]
    BY <1>1 DEF GameBegins, Begin
  <2> HIDE DEF all
  <2>2. run'.all = all
    BY <2>1 DEF Basis, Shaped
  <2> QED BY <2>2 DEF all
<1>4. ASSUME ~run'.all
      PROVE  /\ DOMAIN inputs = Present
             /\ Generated \in seen
             /\ \A u \in Present \ seen : inputs[u] # file[u].second
             /\ \A u \in DOMAIN units : units[u].options = env.options
  <2>1. SameCommand /\ (SameInputs \/ ~units_need_rebuild)
    BY <1>3, <1>4
  <2>2. /\ DOMAIN inputs = Present
        /\ Generated \in seen
        /\ \A u \in Present \ seen : inputs[u] # file[u].second
    <3>1. CASE SameInputs
      BY <3>1 DEF SameInputs, Inputs
    <3>2. CASE ~units_need_rebuild
      BY <3>2 DEF units_need_rebuild
    <3> QED BY <2>1, <3>1, <3>2
  <2>3. ASSUME NEW u \in DOMAIN units  PROVE units[u].options = env.options
    <3>1. stamp = [options |-> env.options]
      BY <2>1 DEF SameCommand
    <3>2. Recorded
      BY <3>1, Distinct DEF Recorded
    <3>3. stamp = [options |-> units[u].options]
      BY <2>2, <2>3, <3>2 DEF UnitsInv
    <3>4. stamp.options = env.options /\ stamp.options = units[u].options
      BY <3>1, <3>3
    <3> QED BY <3>4
  <2> QED BY <2>2, <2>3
<1> QED BY <1>2, <1>4 DEF InfoIsCurrent, Present

-----------------------------------------------------------------------------
(* What was changed since the last build *)

GameKnown == /\ InfoIsCurrent /\ SameCommand
             /\ inputs # Missing /\ DOMAIN inputs = Present
             /\ Inputs \ {Library} \subseteq seen

LEMMA KnownFrame ==
    ASSUME GameKnown, UNCHANGED <<env, file, stamp, inputs>>, seen \ {Library} \subseteq seen'
    PROVE  GameKnown'
BY DEF GameKnown, InfoIsCurrent, SameCommand, Inputs, Present

LEMMA KnownNext == GameGood' => GameKnown'
BY DEF GameGood, GameKnown, SameInputs

LEMMA ChangesEdited ==
    ASSUME Basis, ChangesInv, EditSteps
    PROVE  ChangesInv'
<1>1. ~Building /\ run' = run /\ ~run.rebuild /\ changes \subseteq changes' /\ run.at = "idle"
  BY EditCourse DEF Edits, Basis, CourseInv, Idle, Building
<1> SUFFICES ASSUME changes' \subseteq {"library"}
             PROVE  PackageGood' /\ GameKnown'
  BY DEF ChangesInv, GameKnown
<1>2. PackageGood /\ GameKnown
  BY <1>1 DEF ChangesInv, GameKnown, Works
<1>3. ~EditUnit /\ ~RemoveUnit /\ ~LoseGenerated /\ ~LoseSigning
  BY DEF EditUnit, RemoveUnit, LoseGenerated, LoseSigning, Changed
<1>4. PICK what \in DOMAIN env :
         /\ changes' = changes \union {what}
         /\ env' = [env EXCEPT ![what] = 1 - @]
         /\ package' = [package EXCEPT !.seen = @ /\ what # "package"]
         /\ seen' = IF what = "library" /\ target # "linux" THEN seen \ {Library} ELSE seen
         /\ UNCHANGED <<file, stamp, inputs>>
  BY <1>3 DEF EditSteps, ChangeEnvironment, Changed
<1>5. what = "library"
  BY <1>4
<1>6. env'.options = env.options /\ env'.revision = env.revision
  BY <1>4, <1>5 DEF Basis, Shaped
<1>7. /\ package'.stamp = package.stamp /\ package'.ppu = package.ppu
      /\ package'.seen = package.seen
  BY <1>4, <1>5 DEF Basis, Shaped, Truths
<1>8. PackageGood'
  BY <1>2, <1>6, <1>7 DEF PackageGood
<1>9. GameKnown'
  BY <1>2, <1>4, <1>6 DEF GameKnown, InfoIsCurrent, SameCommand, Inputs, Present
<1> QED BY <1>8, <1>9

\* What a step of a build does to the inventory of an unchanged game
LEMMA ChangesBuilding ==
    ASSUME Basis, ChangesInv, PackageInv, WorkInv, Next, Building,
           changes \subseteq {"library"}, ~run.rebuild, ~Breaks
    PROVE  /\ PackageGood'
           /\ ~Works("game")' => GameKnown'
<1>1. PackageGood /\ (~Works("game") => GameKnown)
  BY DEF ChangesInv, GameKnown
<1>2. ~EditSteps /\ ~StartBuild
  BY EditCourse, StartCourse DEF Edits, Starts
<1>3. CASE CopySteps
  <2>1. UNCHANGED <<env, file, stamp, inputs, package>> /\ ~Works("game")
    BY <1>3, CopyCourse, Working DEF Basis
  <2>2. seen \ {Library} \subseteq seen'
    BY <1>3 DEF CopySteps, CopySkips, CopyBegins, CopyEnds, CopyFails, pascal
  <2> QED BY <1>1, <2>1, <2>2, KnownFrame DEF PackageGood
<1>4. CASE PackageSteps
  <2>1. ~PackageBegins
    BY <1>1 DEF PackageBegins, PackageIsUpToDate, PackageGood
  <2>2. ~PackageEnds
    BY <1>1 DEF PackageEnds, PackageInv, PackageGood
  <2>3. ~PackageFails
    BY FailsBreaks DEF PackageFails
  <2>4. PackageSkips /\ ~Works("game")
    BY <1>4, <2>1, <2>2, <2>3, PackageCourse, Working DEF PackageSteps, Basis
  <2>5. UNCHANGED <<env, file, stamp, inputs, seen, package>>
    BY <2>4 DEF PackageSkips, Carry, pascal
  <2> QED BY <1>1, <2>4, <2>5, KnownFrame DEF PackageGood
<1>5. CASE GameSteps
  <2>1. PackageGood'
    BY <1>1, <1>5, GameCourse DEF PackageGood, Basis
  <2>2. ~Works("game")' => GameKnown'
    <3>1. ~GenerateBuildInfo
      BY <1>1, Working DEF GenerateBuildInfo, GameKnown, Checks, Works
    <3>2. ~GameFails
      BY FailsBreaks DEF GameFails
    <3>3. CASE GameSkips
      <4>1. UNCHANGED <<env, file, stamp, inputs, seen>> /\ ~Works("game")
        BY <3>3 DEF GameSkips, Carry, pascal, Checks, Works
      <4> QED BY <1>1, <4>1, KnownFrame
    <3>4. CASE GameBegins
      <4>1. run'.at = "work" /\ run'.stage = run.stage
        BY <3>4 DEF GameBegins, Begin, Basis, Shaped
      <4>2. Works("game")'
        BY <3>4, <4>1, Course DEF GameBegins, Checks, Works, Stage, Recipe, Basis
      <4> QED BY <4>2
    <3>5. CASE GameEnds
      BY <3>5, GameEndsGood, KnownNext
    <3> QED BY <1>5, <3>1, <3>2, <3>3, <3>4, <3>5 DEF GameSteps
  <2> QED BY <2>1, <2>2
<1>6. CASE SymbolsSteps \/ WriteInfo \/ SealSteps \/ SignSteps \/ NroSteps \/ ApkSteps
  <2>1. UNCHANGED <<env, file, stamp, inputs, seen, package>>
    BY <1>6, SymbolsCourse, InfoCourse, SealCourse, SignCourse, NroCourse, ApkCourse DEF Basis
  <2>2. Stage # "game"
    BY <1>6, SymbolsCourse, InfoCourse, SealCourse, SignCourse, NroCourse, ApkCourse DEF Basis
  <2> QED BY <1>1, <2>1, <2>2, KnownFrame, Working DEF PackageGood
<1> QED BY <1>2, <1>3, <1>4, <1>5, <1>6, Groups

LEMMA ChangesStep ==
    ASSUME Basis, ChangesInv, PackageInv, WorkInv, StageInv, StageInv', Next
    PROVE  ChangesInv'
<1> SUFFICES ASSUME changes' \subseteq {"library"}, ~run'.rebuild
             PROVE  PackageGood' /\ (~Works("game")' => GameKnown')
  BY DEF ChangesInv, GameKnown
<1>1. CASE EditSteps
  BY <1>1, ChangesEdited DEF ChangesInv, GameKnown
<1>2. CASE StartBuild
  <2>1. /\ ~Building /\ changes' = changes /\ run'.at = "check"
        /\ UNCHANGED <<env, file, stamp, inputs, seen, package>>
    BY <1>2, StartCourse DEF Starts
  <2>2. ~run.rebuild /\ ~Works("game")
    BY <2>1 DEF Basis, CourseInv, Idle, Building, Works
  <2>3. PackageGood /\ GameKnown
    BY <2>1, <2>2 DEF ChangesInv, GameKnown
  <2> QED BY <2>1, <2>3, KnownFrame DEF PackageGood
<1>3. CASE ~EditSteps /\ ~StartBuild
  <2>1. Building /\ (Begins \/ Ends \/ Breaks \/ Stays)
    BY <1>3, Groups, CopyCourse, PackageCourse, GameCourse, SymbolsCourse, InfoCourse,
       SealCourse, SignCourse, NroCourse, ApkCourse DEF Basis
  <2>2. ~Breaks
    BY DEF Breaks, Stops
  <2>3. CASE Ends /\ outcome' = "ok"
    <3>1. Has("package")' /\ Has("game")'
      BY RecipeHas, Course DEF Basis, CourseInv, Has, Recipe
    <3>2. Good("package")' /\ Good("game")'
      BY <2>3, <3>1 DEF StageInv, Done, Stages, SymbolStages
    <3>3. PackageGood' /\ GameGood'
      BY <3>2 DEF Good
    <3> QED BY <3>3, KnownNext
  <2>4. CASE changes' = changes /\ run'.rebuild = run.rebuild
    BY <2>1, <2>2, <2>4, ChangesBuilding
  <2>5. Begins \/ Stays => changes' = changes /\ run'.rebuild = run.rebuild
    BY DEF Begins, Begin, Stays, Basis, Shaped
  <2>6. Ends => outcome' = "ok" \/ (changes' = changes /\ run'.rebuild = run.rebuild)
    BY FinishSets DEF Ends, Basis
  <2> QED BY <2>1, <2>2, <2>3, <2>4, <2>5, <2>6
<1> QED BY <1>1, <1>2, <1>3


LEMMA PublishedStep ==
    ASSUME Basis, StageInv, PublishedApkIsGood, Next
    PROVE  PublishedApkIsGood'
<1>1. CASE /\ apk'.published = apk.published /\ apk.archive \subseteq apk'.archive
           /\ signing.lost => signing'.lost
  BY <1>1 DEF PublishedApkIsGood
<1>2. CASE LoseSigning
  <2>1. apk' = apk /\ (signing.lost => signing'.lost)
    BY <1>2 DEF LoseSigning, Basis, Shaped
  <2> QED BY <1>1, <2>1
<1>3. CASE AssembleSteps \/ SignedSteps \/ ArchiveSteps
  <2>1. signing' = signing
    BY <1>3 DEF AssembleSteps, Assemble, AssembleFails, SignedSteps, SignApk, VerifyApk,
       VerifyFails, ArchiveSteps, ArchiveSymbols, ArchiveFails, packed
  <2>2. CASE apk' = apk
    BY <1>1, <2>1, <2>2
  <2>3. CASE Assemble \/ SignApk \/ VerifyApk
    <3>1. PICK work : apk' = [apk EXCEPT !.work = work]
      BY <2>3 DEF Assemble, SignApk, VerifyApk
    <3>2. apk'.published = apk.published /\ apk'.archive = apk.archive
      BY <3>1 DEF Basis, Shaped
    <3> QED BY <1>1, <2>1, <3>2
  <2>4. CASE ArchiveSymbols
    <3>1. apk'.published = apk.published /\ apk'.archive = apk.archive \union {exe}
      BY <2>4 DEF ArchiveSymbols, Basis, Shaped
    <3> QED BY <1>1, <2>1, <3>1
  <2> QED BY <1>3, <2>2, <2>3, <2>4 DEF AssembleSteps, AssembleFails, SignedSteps,
     VerifyFails, ArchiveSteps, ArchiveFails, packed
<1>4. CASE KeySteps
  <2>1. apk' = apk /\ signing'.lost = signing.lost
    BY <1>4 DEF KeySteps, KeyIsUnusable, KeyIsThere, MakePassword, PasswordIsCut, MakeKey,
       MakeKeyFails, packed, Basis, Shaped
  <2> QED BY <1>1, <2>1
<1>5. CASE Publish
  <2>1. /\ apk'.published = apk.work /\ apk'.archive = apk.archive /\ signing' = signing
    BY <1>5 DEF Publish, Basis, Shaped
  <2>2. Building /\ Stage = "publish"
    BY <1>5, Working DEF Publish
  <2>3. Has("signed") /\ Has("archive")
    BY <2>2, RecipeNext, RecipeHas DEF Basis, CourseInv
  <2>4. Past("signed") /\ Past("archive")
    BY <2>2, <2>3, PastIfBefore, Ranks DEF Basis
  <2>5. Good("signed") /\ Good("archive")
    BY <2>2, <2>4 DEF StageInv, Done, Stages, SymbolStages
  <2> QED BY <2>1, <2>5 DEF Good, SignedGood, PublishedApkIsGood
<1>6. CASE ChangeEnvironment \/ EditUnit \/ RemoveUnit \/ LoseGenerated
  BY <1>1, <1>6 DEF ChangeEnvironment, EditUnit, RemoveUnit, LoseGenerated, packed
<1> QED BY <1>1, <1>2, <1>3, <1>4, <1>5, <1>6, Groups, StartCourse, CopyCourse, PackageCourse,
   GameCourse, SymbolsCourse, InfoCourse, SealCourse, SignCourse, NroCourse
   DEF Basis, EditSteps, ApkSteps

LEMMA FilesStep ==
    ASSUME Basis, FilesInv, Next
    PROVE  FilesInv'
<1>1. CASE file' = file
  BY <1>1 DEF FilesInv, Present
<1>2. CASE EditUnit
  <2>1. PICK u \in Units : DOMAIN file' = Present \union {u}
    BY <1>2 DEF EditUnit
  <2> QED BY <2>1 DEF FilesInv, Present, AllUnits
<1>3. CASE RemoveUnit
  BY <1>3 DEF RemoveUnit, FilesInv, Present
<1>4. CASE GenerateBuildInfo
  <2>1. DOMAIN file' = Present \union {BuildInfo}
    BY <1>4 DEF GenerateBuildInfo
  <2> QED BY <2>1 DEF FilesInv, Present, AllUnits
<1>5. CASE GameSteps /\ ~GenerateBuildInfo
  BY <1>1, <1>5 DEF GameSteps, GameSkips, GameBegins, GameEnds, GameFails
<1>6. CASE EditSteps /\ ~EditUnit /\ ~RemoveUnit
  BY <1>1, <1>6 DEF EditSteps, ChangeEnvironment, LoseGenerated, LoseSigning
<1> QED BY <1>1, <1>2, <1>3, <1>4, <1>5, <1>6, Groups, StartCourse, CopyCourse, PackageCourse,
   SymbolsCourse, InfoCourse, SealCourse, SignCourse, NroCourse, ApkCourse DEF Basis

-----------------------------------------------------------------------------
(* The theorems *)

LEMMA InitHolds == Init => IInv
<1> SUFFICES ASSUME Init  PROVE IInv
  OBVIOUS
<1>1. Basis
  <2>1. Shaped /\ Truths
    BY Distinct DEF Init, Shaped, Truths, Idle
  <2>2. CourseInv
    BY TargetsAssumption DEF Init, CourseInv, Building, Idle
  <2> QED BY <2>1, <2>2 DEF Basis
<1>2. ~Building /\ outcome # "ok" /\ run.at = "idle"
  BY DEF Init, Building, Idle
<1>3. StageInv
  BY <1>2 DEF StageInv, Done
<1>4. CopyInv /\ PackageInv /\ NroInv
  BY <1>2 DEF Init, CopyInv, CopyGood, PackageInv, NroInv, Works
<1>5. UnitsInv /\ ExeInv /\ WorkInv
  BY <1>2 DEF Init, UnitsInv, ExeInv, WorkInv, Works, Recorded
<1>6. SigningInv /\ PublishedApkIsGood
  BY <1>2 DEF Init, SigningInv, PublishedApkIsGood, Works
<1>7. ChangesInv
  BY DEF Init, ChangesInv
<1>8. FilesInv
  BY DEF Init, FilesInv, Present, AllUnits
<1> QED BY <1>1, <1>3, <1>4, <1>5, <1>6, <1>7, <1>8 DEF IInv

LEMMA Stutters == IInv /\ UNCHANGED vars => IInv'
<1> SUFFICES ASSUME IInv, UNCHANGED vars  PROVE IInv'
  OBVIOUS
<1>1. UNCHANGED <<target, env, file, package, stamp, inputs, seen, units, exe, bundle, apk,
                  signing, cut, run, outcome, edits, failures, changes>>
  BY DEF vars, pascal, packed
<1>2. Recipe' = Recipe /\ Stage' = Stage /\ Building' = Building /\ Present' = Present
      /\ Inputs' = Inputs
  BY <1>1 DEF Recipe, Stage, Building, Present, Inputs
<1>3. Basis'
  BY <1>1, <1>2 DEF IInv, Basis, Shaped, Truths, CourseInv
<1>4. ASSUME NEW s  PROVE (Works(s)' <=> Works(s)) /\ (Done(s)' <=> Done(s)) /\ (Has(s)' <=> Has(s))
  BY <1>1, <1>2 DEF Works, Done, Past, Has
<1>5. GameGood' = GameGood /\ InfoIsCurrent' = InfoIsCurrent /\ SameCommand' = SameCommand
  BY <1>1, <1>2 DEF GameGood, InfoIsCurrent, SameCommand, SameInputs
<1>6. StageInv'
  <2>1. ASSUME NEW s \in Stages, Done(s)'  PROVE Good(s)'
    <3>1. Good(s)
      BY <1>4, <2>1 DEF IInv, StageInv
    <3> QED BY <1>1, <1>5, <3>1 DEF Good, CopyGood, PackageGood, InfoGood, NroGood, NroSignature,
       WorkGood, SignedGood, PublishedGood
  <2> QED BY <2>1 DEF StageInv
<1>7. CopyInv' /\ PackageInv' /\ NroInv'
  BY <1>1, <1>4 DEF IInv, CopyInv, CopyGood, PackageInv, NroInv
<1>8. UnitsInv'
  BY <1>1, <1>2 DEF IInv, UnitsInv, Recorded
<1>9. ExeInv'
  BY <1>1, <1>2 DEF IInv, ExeInv, Recorded
<1>10. WorkInv'
  BY <1>1, <1>2, <1>4, <1>5 DEF IInv, WorkInv
<1>11. SigningInv' /\ PublishedApkIsGood'
  BY <1>1, <1>4 DEF IInv, SigningInv, PublishedApkIsGood
<1>12. ChangesInv'
  BY <1>1, <1>2, <1>4, <1>5 DEF IInv, ChangesInv, PackageGood
<1>13. FilesInv'
  BY <1>2 DEF IInv, FilesInv
<1> QED BY <1>3, <1>6, <1>7, <1>8, <1>9, <1>10, <1>11, <1>12, <1>13 DEF IInv

LEMMA StepHolds == IInv /\ Next => IInv'
<1> SUFFICES ASSUME IInv, Next  PROVE IInv'
  OBVIOUS
<1>1. Basis'
  BY Basics DEF IInv, Basis
<1>2. StageInv'
  BY StageStep DEF IInv
<1>3. CopyInv' /\ PackageInv' /\ NroInv'
  BY CopyStep, PackageStep, NroStep DEF IInv
<1>4. UnitsInv' /\ ExeInv' /\ WorkInv'
  BY UnitsStep, ExeStep, WorkStep DEF IInv
<1>5. SigningInv' /\ PublishedApkIsGood'
  BY SigningStep, PublishedStep DEF IInv
<1>6. ChangesInv'
  BY <1>2, ChangesStep DEF IInv
<1>7. FilesInv'
  BY FilesStep DEF IInv
<1> QED BY <1>1, <1>2, <1>3, <1>4, <1>5, <1>6, <1>7 DEF IInv

LEMMA Currently == IInv => GameIsCurrent
<1> SUFFICES ASSUME IInv, outcome = "ok"
             PROVE  /\ exe.package = CurrentGame.package /\ exe.library = CurrentGame.library
                    /\ DOMAIN exe.units = Present
                    /\ \A u \in Present : /\ exe.units[u].content = file[u].content
                                          /\ exe.units[u].options = env.options
                    /\ Has("copy") => bundle.library = [version |-> env.library]
                    /\ Has("info") => bundle.info = [version |-> env.metadata]
                    /\ Has("nro") => bundle.nro = NroSignature
                    /\ Has("publish") => /\ apk.published.exe = exe
                                         /\ apk.published.metadata = env.metadata
  BY DEF GameIsCurrent
<1>1. \A s \in Stages : Has(s) => Good(s)
  BY DEF IInv, StageInv, Done
<1>2. target \in DOMAIN Recipes /\ Has("package") /\ Has("game")
  BY RecipeHas DEF IInv, Basis, CourseInv
<1>3. PackageGood /\ GameGood
  BY <1>1, <1>2 DEF Good, Stages, SymbolStages
<1>4. Recorded /\ exe # None /\ DOMAIN inputs = Present /\ seen = Inputs
      /\ stamp = [options |-> env.options]
  BY <1>3, Distinct DEF GameGood, SameCommand, SameInputs, Recorded
<1>5. DOMAIN exe.units = Present /\ Package \in seen /\ Library \in seen /\ Present \subseteq seen
  BY <1>4 DEF IInv, ExeInv, Inputs
<1>6. ASSUME NEW u \in Present
      PROVE  exe.units[u].content = file[u].content /\ exe.units[u].options = env.options
  <2>1. stamp = [options |-> exe.units[u].options] /\ exe.units[u].content = file[u].content
    BY <1>4, <1>5 DEF IInv, ExeInv
  <2>2. [options |-> exe.units[u].options].options = [options |-> env.options].options
    BY <1>4, <2>1
  <2> QED BY <2>1, <2>2
<1>7. exe.package = CurrentGame.package
  <2>1. exe.package = package.ppu
    BY <1>4, <1>5 DEF IInv, ExeInv
  <2>2. package.ppu = [source |-> env.package, options |-> package.stamp.options]
    BY <1>3 DEF IInv, PackageInv, PackageGood
  <2>3. package.stamp.options = env.options
    BY <1>3 DEF PackageGood
  <2> QED BY <2>1, <2>2, <2>3 DEF CurrentGame
<1>8. exe.library = CurrentGame.library
  <2>1. exe.library = env.library \/ (target = "linux" /\ ~bundle.copied)
    BY <1>4, <1>5 DEF IInv, ExeInv
  <2>2. target = "linux" => bundle.copied
    <3>1. target = "linux" => Has("copy")
      BY <1>2, RecipeHas
    <3>2. Has("copy") => bundle.copied
      BY <1>1 DEF Good, CopyGood, Stages, SymbolStages
    <3> QED BY <3>1, <3>2
  <2> QED BY <2>1, <2>2 DEF CurrentGame
<1>9. Has("copy") => bundle.library = [version |-> env.library]
  BY <1>1 DEF Good, Stages, SymbolStages, IInv, CopyInv
<1>10. /\ Has("info") => bundle.info = [version |-> env.metadata]
       /\ Has("publish") => apk.published.exe = exe /\ apk.published.metadata = env.metadata
  BY <1>1 DEF Good, Stages, SymbolStages, InfoGood, PublishedGood
<1>11. Has("nro") => bundle.nro = NroSignature
  <2>1. Has("nro") => NroGood
    BY <1>1 DEF Good, Stages, SymbolStages
  <2> QED BY <2>1, Distinct DEF NroGood, NroSignature, IInv, NroInv
<1> QED BY <1>5, <1>6, <1>7, <1>8, <1>9, <1>10, <1>11

\* When nothing but a library changed the inventory asks for no unit.
LEMMA Relinks ==
    ASSUME IInv, Next, run.at = "check", run'.at = "work", Stage = "game",
           changes \subseteq {"library"}, ~run.rebuild
    PROVE  ~run'.all
<1>1. Begins
  <2>1. Building /\ run' # run
    BY DEF Building
  <2>2. ~Edits /\ ~Starts /\ ~Stays /\ ~Breaks
    BY <2>1 DEF Edits, Starts, Stays, Breaks, Stops, Idle
  <2>3. ~Ends
    BY FinishSets DEF IInv, Basis, Ends, Idle
  <2> QED BY <2>2, <2>3, Course DEF IInv, Basis
<1>2. Works("game")'
  <2>1. run'.stage = run.stage
    BY <1>1 DEF Begins, Begin, IInv, Basis, Shaped
  <2>2. Recipe' = Recipe
    BY Course DEF IInv, Basis, Recipe
  <2> QED BY <2>1, <2>2 DEF Works, Stage
<1>3. GameBegins
  BY <1>2, WorkBegins DEF IInv
<1>4. /\ SameCommand /\ inputs # Missing /\ DOMAIN inputs = Present
      /\ Inputs \ {Library} \subseteq seen
  <2>1. ~Works("game")
    BY DEF Works
  <2> QED BY <2>1 DEF IInv, ChangesInv
<1>5. ~units_need_rebuild
  <2>1. {Generated, Package} \subseteq seen
    BY <1>4 DEF Inputs, Generated, Package, Library
  <2>2. Present \subseteq seen
    <3>1. Library \notin Present
      BY UnitsAssumption DEF IInv, FilesInv, AllUnits, Library, BuildInfo
    <3> QED BY <1>4, <3>1 DEF Inputs
  <2> QED BY <1>4, <2>1, <2>2 DEF units_need_rebuild
<1>6. run'.all = (run.rebuild \/ ~SameCommand \/ (~SameInputs /\ units_need_rebuild))
  <2> DEFINE all == run.rebuild \/ ~SameCommand \/ (~SameInputs /\ units_need_rebuild)
  <2>1. Begin(all)
    BY <1>3 DEF GameBegins
  <2> HIDE DEF all
  <2>2. run' = [run EXCEPT !.at = "work", !.all = all]
    BY <2>1 DEF Begin
  <2>3. run'.all = all
    BY <2>2 DEF IInv, Basis, Shaped
  <2> QED BY <2>3 DEF all
<1> QED BY <1>4, <1>5, <1>6

-----------------------------------------------------------------------------
(* Debug symbols and signatures, until a failure leaves some behind          *)

\* This build is at one of the stages and knows of a change.
Knows(stages) == Building /\ Stage \in stages /\ run.changed

\* The symbols of the executable are those of the game that is there, or this
\* build is about to make them.
SymbolsInv ==
    target = "macos" /\ bundle.symbols # None =>
        \/ exe = None
        \/ Knows({"symbols"})
        \/ bundle.symbols = [of |-> exe]

\* Those of the library are of the one it was linked with, or it is known, or
\* what is missing before them tells the next build, that they are to be made.
LibrarySymbolsInv ==
    target = "macos" /\ bundle.librarySymbols # None =>
        \/ exe = None \/ bundle.symbols = None
        \/ Knows({"symbols", "librarySymbols"})
        \/ bundle.librarySymbols = [of |-> [version |-> exe.library]]

\* So is the seal of macOS.
SealInv ==
    target = "macos" /\ bundle.seal # None =>
        \/ exe = None \/ bundle.symbols = None \/ bundle.librarySymbols = None
        \/ Knows({"symbols", "librarySymbols", "info", "seal"})
        \/ bundle.seal = [exe |-> exe, library |-> [version |-> exe.library],
                          info |-> bundle.info]

\* That of iOS is as sign-inputs.json has it.
SignInv ==
    /\ target = "ios" /\ bundle.signed /\ bundle.seal # None =>
          \/ exe = None
          \/ bundle.seal = [exe |-> exe, library |-> bundle.library, info |-> bundle.info]
    /\ Works("sign") => ~bundle.signed

SealedGood(s) ==
    /\ s = "symbols" => bundle.symbols = [of |-> exe]
    /\ s = "librarySymbols" => bundle.librarySymbols = [of |-> bundle.library]
    /\ s \in {"seal", "sign"} => bundle.seal = Contents

SealedInv == \A s \in Stages : Done(s) => SealedGood(s)

\* What is so as long as no failure has left anything
Uncut == SymbolsInv /\ LibrarySymbolsInv /\ SealInv /\ SealedInv

Sealed == SignInv /\ (~cut => Uncut)

\* What a game that was built has for those who pack it
LEMMA GameIsThere ==
    ASSUME IInv, Building, Past("game")
    PROVE  /\ exe # None
           /\ target = "macos" => /\ exe.library = env.library
                                  /\ bundle.library = [version |-> env.library]
<1>1. GameGood
  <2>1. Good("game")
    BY DEF IInv, StageInv, Done, Stages, SymbolStages
  <2> QED BY <2>1 DEF Good
<1>2. Recorded /\ exe # None /\ Library \in seen
  BY <1>1, Distinct DEF GameGood, SameCommand, SameInputs, Recorded, Inputs
<1>3. ASSUME target = "macos"
      PROVE  exe.library = env.library /\ bundle.library = [version |-> env.library]
  <2>1. exe.library = env.library
    BY <1>2, <1>3 DEF IInv, ExeInv
  <2>2. Past("copy")
    <3>1. Has("copy")
      BY <1>3, RecipeHas DEF IInv, Basis, CourseInv
    <3>2. Rank["game"] < Rank[Stage] /\ Stage \in Stages
      BY PastStages, RecipeNext DEF IInv, Basis
    <3>3. Rank[Stage] \in Nat
      BY <3>2, RankIsNat
    <3>4. Rank["copy"] < Rank[Stage]
      BY <3>2, <3>3, Ranks
    <3> QED BY <3>1, <3>4, PastIfBefore DEF IInv, Basis
  <2>3. Good("copy")
    BY <2>2 DEF IInv, StageInv, Done, Stages, SymbolStages
  <2> QED BY <2>1, <2>3 DEF Good, IInv, CopyInv
<1> QED BY <1>2, <1>3

\* A build of macOS goes on from the game to the seal.
LEMMA GoesOn ==
    ASSUME Basis, Next, target = "macos", Building,
           Stage \in {"game", "symbols", "librarySymbols", "info"},
           NEW changed \in BOOLEAN, Finish(changed)
    PROVE  /\ Building' /\ run'.changed = (run.changed \/ changed)
           /\ Stage = "game" => Stage' = "symbols"
           /\ Stage = "symbols" => Stage' = "librarySymbols"
           /\ Stage = "librarySymbols" => Stage' = "info"
           /\ Stage = "info" => Stage' = "seal"
<1>1. run.stage < Len(Recipe) /\ run.stage \in Nat /\ Len(Recipe) \in Nat
  BY RecipeNext, RecipeLength DEF Basis, CourseInv
<1>2. /\ run'.stage = run.stage + 1 /\ run'.at = "check"
      /\ run'.changed = (run.changed \/ changed)
  BY <1>1, FinishSets DEF Basis
<1>3. Recipe' = Recipe
  BY Course DEF Basis, Recipe
<1>4. run'.stage # 0 /\ Building'
  BY <1>1, <1>2 DEF Building
<1>5. Stage' = Recipe[run.stage + 1]
  BY <1>2, <1>3, <1>4 DEF Stage
<1> QED BY <1>2, <1>4, <1>5, RecipeNext DEF Basis

LEMMA OnlyGameLinks ==
    ASSUME Basis, Next, ~GameEnds
    PROVE  exe' \in {exe, None}
<1>1. CASE EditSteps
  BY <1>1, EditsFrame
<1>2. CASE GameSteps
  BY <1>2 DEF GameSteps, GenerateBuildInfo, GameSkips, GameBegins, GameFails, pascal
<1> QED BY <1>1, <1>2, Groups, StartCourse, CopyCourse, PackageCourse, SymbolsCourse, InfoCourse,
   SealCourse, SignCourse, NroCourse, ApkCourse DEF Basis

LEMMA GameLinks ==
    ASSUME Basis, Next, GameEnds, target = "macos"
    PROVE  Knows({"symbols"})'
<1>1. Building /\ Stage = "game" /\ Finish(TRUE)
  BY Working DEF GameEnds
<1>2. Building' /\ Stage' = "symbols" /\ run'.changed
  BY <1>1, GoesOn
<1> QED BY <1>2 DEF Knows

\* Symbols that are made tell the stages that follow.
LEMMA SymbolsTell ==
    ASSUME Basis, Next, target = "macos", SymbolsEnd
    PROVE  /\ Building' /\ run'.changed
           /\ Stage = "symbols" => Stage' = "librarySymbols"
           /\ Stage = "librarySymbols" => Stage' = "info"
<1>1. Finish(TRUE) /\ Building /\ Stage \in {"symbols", "librarySymbols"}
  BY DEF SymbolsEnd, Building, SymbolStages
<1> QED BY <1>1, GoesOn

\* What the steps of the symbols do to them, where they leave nothing behind
LEMMA SymbolsKinds ==
    ASSUME Basis, Next, SymbolsSteps, ~cut'
    PROVE  /\ Building /\ Stage \in {"symbols", "librarySymbols"} /\ target = "macos"
           /\ UNCHANGED <<exe, env, target>>
           /\ UNCHANGED <<bundle.library, bundle.seal, bundle.info>>
           /\ Stage = "symbols" => bundle'.librarySymbols = bundle.librarySymbols
           /\ Stage = "librarySymbols" => bundle'.symbols = bundle.symbols
           /\ \/ SymbolsSkip /\ ~cut /\ bundle' = bundle /\ ~run.changed /\ bundle[Stage] # None
              \/ SymbolsEnd /\ bundle'[Stage] = NewSymbols /\ (Stage = "symbols" \/ ~cut)
              \/ SymbolsFail /\ ~cut /\ bundle'[Stage] = None
<1>1. /\ Building /\ Stage \in {"symbols", "librarySymbols"} /\ UNCHANGED <<exe, env, target>>
      /\ UNCHANGED <<bundle.library, bundle.seal, bundle.info>>
  BY SymbolsCourse DEF Basis
<1>2. target = "macos"
  BY <1>1, RecipeNext DEF Basis
<1>3. Stage \in SymbolStages
  BY <1>1 DEF SymbolStages
<1>4. CASE SymbolsSkip
  BY <1>1, <1>2, <1>4 DEF SymbolsSkip, SymbolsAreMade, packed
<1>5. CASE SymbolsEnd
  <2>1. bundle' = [bundle EXCEPT ![Stage] = NewSymbols] /\ cut' = (cut /\ Stage # "symbols")
    BY <1>5 DEF SymbolsEnd
  <2>2. /\ bundle'[Stage] = NewSymbols
        /\ Stage = "symbols" => bundle'.librarySymbols = bundle.librarySymbols
        /\ Stage = "librarySymbols" => bundle'.symbols = bundle.symbols
    BY <1>1, <1>3, <2>1, SymbolsBundle DEF Basis
  <2>3. Stage = "symbols" \/ ~cut
    BY <2>1
  <2> QED BY <1>1, <1>2, <1>5, <2>2, <2>3
<1>6. CASE SymbolsFail
  <2>1. PICK left : bundle' = [bundle EXCEPT ![Stage] = left] /\ cut' = (cut \/ left # None)
    BY <1>6 DEF SymbolsFail
  <2>2. left = None /\ ~cut
    BY <2>1
  <2>3. /\ bundle'[Stage] = left
        /\ Stage = "symbols" => bundle'.librarySymbols = bundle.librarySymbols
        /\ Stage = "librarySymbols" => bundle'.symbols = bundle.symbols
    BY <1>1, <1>3, <2>1, SymbolsBundle DEF Basis
  <2> QED BY <1>1, <1>2, <1>6, <2>2, <2>3
<1> QED BY <1>4, <1>5, <1>6 DEF SymbolsSteps

\* What the game was linked with is in the bundle when it is packed.
LEMMA AtPacking ==
    ASSUME IInv, Building, target = "macos",
           Stage \in {"symbols", "librarySymbols", "info", "seal"}
    PROVE  exe # None /\ bundle.library = [version |-> exe.library]
<1>1. Past("game")
  <2>1. Has("game")
    BY RecipeHas DEF IInv, Basis, CourseInv
  <2> QED BY <2>1, PastIfBefore, Ranks DEF IInv, Basis
<1> QED BY <1>1, GameIsThere

\* Steps that are not of the packing of macOS
LEMMA Others ==
    ASSUME Basis, Next, target = "macos", ~SymbolsSteps, ~WriteInfo, ~SealSteps
    PROVE  /\ target' = target /\ cut' = cut
           /\ bundle'.info = bundle.info
           /\ bundle'.symbols \in {bundle.symbols, None}
           /\ bundle'.librarySymbols \in {bundle.librarySymbols, None}
           /\ bundle'.seal \in {bundle.seal, None}
           /\ exe' \in {exe, None} \/ Knows({"symbols"})'
           /\ ~Knows({"symbols", "librarySymbols", "info", "seal"})
<1>1. ~SignSteps
  BY SignCourse, RecipeNext DEF Basis
<1>2. target' = target /\ cut' = cut
  BY Course, CutStep DEF Basis
<1>3. exe' \in {exe, None} \/ Knows({"symbols"})'
  BY OnlyGameLinks, GameLinks
<1>4. CASE EditSteps
  <2>1. /\ bundle'.info = bundle.info
        /\ bundle'.symbols \in {bundle.symbols, None}
        /\ bundle'.librarySymbols \in {bundle.librarySymbols, None}
        /\ bundle'.seal \in {bundle.seal, None}
    BY <1>4, BundleEdits DEF Basis, Shaped
  <2>2. ~Building
    BY <1>4, EditCourse DEF Edits
  <2> QED BY <1>2, <1>3, <2>1, <2>2 DEF Knows
<1>5. CASE StartBuild
  <2>1. ~Building /\ bundle' = bundle
    BY <1>5, StartCourse DEF Starts
  <2> QED BY <1>2, <1>3, <2>1 DEF Knows
<1>6. CASE CopySteps \/ PackageSteps \/ GameSteps \/ NroSteps \/ ApkSteps
  <2>1. /\ bundle'.info = bundle.info /\ bundle'.symbols = bundle.symbols
        /\ bundle'.librarySymbols = bundle.librarySymbols /\ bundle'.seal = bundle.seal
    BY <1>6, CopyCourse, PackageCourse, GameCourse, NroCourse, ApkCourse DEF Basis
  <2>2. Stage \notin {"symbols", "librarySymbols", "info", "seal"}
    BY <1>6, CopyCourse, PackageCourse, GameCourse, NroCourse, ApkCourse DEF Basis
  <2> QED BY <1>2, <1>3, <2>1, <2>2 DEF Knows
<1> QED BY <1>1, <1>4, <1>5, <1>6, Groups

LEMMA InfoGoesOn ==
    ASSUME Basis, Next, target = "macos", WriteInfo
    PROVE  /\ Building /\ Stage = "info" /\ Building' /\ Stage' = "seal"
           /\ bundle'.info = bundle.info => run'.changed = run.changed
           /\ bundle'.info # bundle.info => run'.changed
           /\ run.changed => run'.changed
<1> DEFINE info == [version |-> env.metadata]
<1>1. Building /\ Stage = "info"
  BY InfoCourse DEF Basis
<1>2. bundle'.info = info /\ Finish(bundle.info # info)
  <2>1. bundle' = [bundle EXCEPT !.info = info, !.signed = @ /\ bundle.info = info]
        /\ Finish(bundle.info # info)
    BY DEF WriteInfo
  <2> QED BY <2>1 DEF Basis, Shaped
<1> HIDE DEF info
<1>3. (bundle.info # info) \in BOOLEAN
  OBVIOUS
<1>4. Building' /\ Stage' = "seal" /\ run'.changed = (run.changed \/ bundle.info # info)
  BY <1>1, <1>2, <1>3, GoesOn
<1> QED BY <1>1, <1>2, <1>4 DEF Basis, Truths

LEMMA SealKinds ==
    ASSUME Basis, Next, SealSteps, ~cut'
    PROVE  /\ Building /\ Stage = "seal" /\ target = "macos" /\ ~cut
           /\ UNCHANGED <<exe, target>>
           /\ UNCHANGED <<bundle.library, bundle.symbols, bundle.librarySymbols, bundle.info>>
           /\ \/ SealSkips /\ bundle' = bundle /\ ~run.changed /\ bundle.seal # None
              \/ Seal /\ bundle'.seal = Contents
              \/ SealFails /\ bundle'.seal = None
<1>1. /\ Building /\ Stage = "seal" /\ UNCHANGED <<exe, target>>
      /\ UNCHANGED <<bundle.library, bundle.symbols, bundle.librarySymbols, bundle.info>>
  BY SealCourse DEF Basis
<1>2. target = "macos"
  BY <1>1, RecipeNext DEF Basis
<1>3. CASE SealSkips
  BY <1>1, <1>2, <1>3 DEF SealSkips, packed
<1>4. CASE Seal
  <2>1. bundle' = [bundle EXCEPT !.seal = Contents] /\ cut' = cut
    BY <1>4 DEF Seal
  <2>2. bundle'.seal = Contents
    BY <2>1 DEF Basis, Shaped
  <2> QED BY <1>1, <1>2, <1>4, <2>1, <2>2
<1>5. CASE SealFails
  <2>1. PICK left : bundle' = [bundle EXCEPT !.seal = left] /\ cut' = (cut \/ left # None)
    BY <1>5 DEF SealFails
  <2>2. bundle'.seal = left
    BY <2>1 DEF Basis, Shaped
  <2> QED BY <1>1, <1>2, <1>5, <2>1, <2>2
<1> QED BY <1>3, <1>4, <1>5 DEF SealSteps

\* The stages before this one are done, and what they made is there.
LEMMA MadeBefore ==
    ASSUME Basis, SealedInv, Building, target = "macos"
    PROVE  /\ Stage \in {"librarySymbols", "info", "seal"} => bundle.symbols = [of |-> exe]
           /\ Stage \in {"info", "seal"} => bundle.librarySymbols = [of |-> bundle.library]
<1>1. Has("symbols") /\ Has("librarySymbols")
  BY RecipeHas DEF Basis, CourseInv
<1>2. ASSUME Stage \in {"librarySymbols", "info", "seal"}  PROVE bundle.symbols = [of |-> exe]
  <2>1. Past("symbols")
    BY <1>1, <1>2, PastIfBefore, Ranks DEF Basis
  <2>2. SealedGood("symbols")
    BY <2>1 DEF SealedInv, Done, Stages, SymbolStages
  <2> QED BY <2>2 DEF SealedGood
<1>3. ASSUME Stage \in {"info", "seal"}
      PROVE  bundle.librarySymbols = [of |-> bundle.library]
  <2>1. Past("librarySymbols")
    BY <1>1, <1>3, PastIfBefore, Ranks DEF Basis
  <2>2. SealedGood("librarySymbols")
    BY <2>1 DEF SealedInv, Done, Stages, SymbolStages
  <2> QED BY <2>2 DEF SealedGood
<1> QED BY <1>2, <1>3

LEMMA SymbolsStep ==
    ASSUME IInv, Sealed, Next, ~cut'
    PROVE  SymbolsInv'
<1> SUFFICES ASSUME target' = "macos", bundle'.symbols # None
             PROVE  exe' = None \/ Knows({"symbols"})' \/ bundle'.symbols = [of |-> exe']
  BY DEF SymbolsInv
<1>1. target = "macos" /\ Basis
  BY Course DEF IInv, Basis
<1>2. CASE SymbolsSteps
  <2>1. CASE SymbolsEnd /\ Stage = "symbols"
    <3>1. bundle'.symbols = [of |-> exe] /\ exe' = exe
      <4>1. NewSymbols = [of |-> exe]
        BY <2>1 DEF NewSymbols
      <4>2. bundle' = [bundle EXCEPT ![Stage] = NewSymbols] /\ Stage \in SymbolStages
        BY <2>1 DEF SymbolsEnd
      <4>3. bundle'.symbols = NewSymbols
        BY <1>1, <2>1, <4>2, SymbolsBundle DEF Basis
      <4> QED BY <1>1, <1>2, <4>1, <4>3, SymbolsKinds
    <3> QED BY <3>1
  <2>2. CASE ~(SymbolsEnd /\ Stage = "symbols")
    <3>1. ~cut /\ exe' = exe /\ bundle'.symbols = bundle.symbols /\ ~Knows({"symbols"})
      <4>1. CASE Stage = "symbols"
        <5>1. ~cut /\ exe' = exe /\ bundle' = bundle /\ ~run.changed
          BY <1>1, <1>2, <2>2, <4>1, SymbolsKinds
        <5> QED BY <5>1 DEF Knows
      <4>2. CASE Stage # "symbols"
        <5>1. Stage = "librarySymbols"
          BY <1>1, <1>2, <4>2, SymbolsKinds
        <5>2. ~cut /\ exe' = exe /\ bundle'.symbols = bundle.symbols
          BY <1>1, <1>2, <5>1, SymbolsKinds
        <5> QED BY <5>1, <5>2 DEF Knows
      <4> QED BY <4>1, <4>2
    <3>2. exe # None
      BY <1>1, <1>2, SymbolsKinds, AtPacking
    <3> QED BY <1>1, <3>1, <3>2 DEF Sealed, Uncut, SymbolsInv
  <2> QED BY <2>1, <2>2
<1>3. CASE WriteInfo \/ SealSteps
  <2>1. /\ ~cut /\ exe' = exe /\ bundle'.symbols = bundle.symbols
        /\ Stage # "symbols"
    BY <1>1, <1>3, InfoCourse, SealCourse, SealKinds DEF Basis
  <2> QED BY <1>1, <2>1 DEF Sealed, Uncut, SymbolsInv, Knows
<1>4. CASE ~SymbolsSteps /\ ~WriteInfo /\ ~SealSteps
  <2>1. ~cut /\ ~Knows({"symbols"}) /\ bundle'.symbols = bundle.symbols
    BY <1>1, <1>4, Others DEF Knows
  <2>2. exe' \in {exe, None} \/ Knows({"symbols"})'
    BY <1>1, <1>4, Others
  <2> QED BY <1>1, <2>1, <2>2 DEF Sealed, Uncut, SymbolsInv
<1> QED BY <1>2, <1>3, <1>4

LEMMA LibrarySymbolsStep ==
    ASSUME IInv, Sealed, Next, ~cut'
    PROVE  LibrarySymbolsInv'
<1> SUFFICES ASSUME target' = "macos", bundle'.librarySymbols # None, bundle'.symbols # None,
                    exe' # None
             PROVE  \/ Knows({"symbols", "librarySymbols"})'
                    \/ bundle'.librarySymbols = [of |-> [version |-> exe'.library]]
  BY DEF LibrarySymbolsInv
<1>1. target = "macos" /\ Basis
  BY Course DEF IInv, Basis
<1>2. CASE SymbolsSteps
  <2>1. /\ Building /\ Stage \in {"symbols", "librarySymbols"} /\ exe' = exe
    BY <1>1, <1>2, SymbolsKinds
  <2>2. exe # None /\ bundle.library = [version |-> exe.library]
    BY <1>1, <2>1, AtPacking
  <2>3. CASE SymbolsEnd /\ Stage = "symbols"
    BY <1>1, <2>3, SymbolsTell DEF Knows
  <2>4. CASE SymbolsEnd /\ Stage = "librarySymbols"
    <3>1. NewSymbols = [of |-> bundle.library]
      BY <2>4 DEF NewSymbols
    <3>2. bundle' = [bundle EXCEPT ![Stage] = NewSymbols] /\ Stage \in SymbolStages
      BY <2>4 DEF SymbolsEnd
    <3>3. bundle'.librarySymbols = NewSymbols
      BY <1>1, <2>4, <3>2, SymbolsBundle DEF Basis
    <3> QED BY <2>1, <2>2, <3>1, <3>3
  <2>5. bundle'[Stage] # None
    BY <2>1
  <2>6. CASE ~cut /\ bundle' = bundle /\ ~run.changed
    BY <1>1, <2>1, <2>6 DEF Sealed, Uncut, LibrarySymbolsInv, Knows
  <2> QED BY <1>1, <1>2, <2>1, <2>3, <2>4, <2>5, <2>6, SymbolsKinds
<1>3. CASE WriteInfo \/ SealSteps
  <2>1. /\ ~cut /\ exe' = exe /\ bundle'.symbols = bundle.symbols
        /\ bundle'.librarySymbols = bundle.librarySymbols
        /\ Stage \notin {"symbols", "librarySymbols"}
    BY <1>1, <1>3, InfoCourse, SealCourse, SealKinds DEF Basis
  <2> QED BY <1>1, <2>1 DEF Sealed, Uncut, LibrarySymbolsInv, Knows
<1>4. CASE ~SymbolsSteps /\ ~WriteInfo /\ ~SealSteps
  <2>1. /\ ~cut /\ ~Knows({"symbols", "librarySymbols"})
        /\ bundle'.symbols = bundle.symbols /\ bundle'.librarySymbols = bundle.librarySymbols
    BY <1>1, <1>4, Others DEF Knows
  <2>2. CASE Knows({"symbols"})'
    BY <2>2 DEF Knows
  <2>3. CASE exe' = exe
    BY <1>1, <2>1, <2>3 DEF Sealed, Uncut, LibrarySymbolsInv
  <2> QED BY <1>1, <1>4, <2>2, <2>3, Others
<1> QED BY <1>2, <1>3, <1>4

LEMMA SealStep ==
    ASSUME IInv, Sealed, Next, ~cut'
    PROVE  SealInv'
<1> DEFINE packing == {"symbols", "librarySymbols", "info", "seal"}
<1> SUFFICES ASSUME target' = "macos", bundle'.seal # None, bundle'.symbols # None,
                    bundle'.librarySymbols # None, exe' # None
             PROVE  \/ Knows(packing)'
                    \/ bundle'.seal = [exe |-> exe', library |-> [version |-> exe'.library],
                                       info |-> bundle'.info]
  BY DEF SealInv
<1>1. target = "macos" /\ Basis
  BY Course DEF IInv, Basis
<1>2. CASE SymbolsSteps
  <2>1. /\ Building /\ Stage \in {"symbols", "librarySymbols"} /\ exe' = exe
        /\ bundle'.seal = bundle.seal /\ bundle'.info = bundle.info
    BY <1>1, <1>2, SymbolsKinds
  <2>2. CASE SymbolsEnd
    BY <1>1, <2>1, <2>2, SymbolsTell DEF Knows
  <2>3. bundle'[Stage] # None
    BY <2>1
  <2>4. CASE ~cut /\ bundle' = bundle /\ ~run.changed
    BY <1>1, <2>1, <2>4 DEF Sealed, Uncut, SealInv, Knows
  <2> QED BY <1>1, <1>2, <2>2, <2>3, <2>4, SymbolsKinds
<1>3. CASE WriteInfo
  <2>1. /\ ~cut /\ exe' = exe /\ bundle'.symbols = bundle.symbols
        /\ bundle'.librarySymbols = bundle.librarySymbols /\ bundle'.seal = bundle.seal
    BY <1>1, <1>3, InfoCourse DEF Basis
  <2>2. CASE Knows(packing)
    BY <1>1, <1>3, <2>2, InfoGoesOn DEF Knows
  <2>3. CASE ~Knows(packing)
    BY <1>1, <1>3, <2>1, <2>3, InfoGoesOn DEF Knows, Sealed, Uncut, SealInv
  <2> QED BY <2>2, <2>3
<1>4. CASE SealSteps
  <2>1. /\ Building /\ Stage = "seal" /\ ~cut /\ exe' = exe /\ bundle'.info = bundle.info
        /\ bundle'.symbols = bundle.symbols /\ bundle'.librarySymbols = bundle.librarySymbols
    BY <1>1, <1>4, SealKinds
  <2>2. bundle.library = [version |-> exe.library]
    BY <1>1, <2>1, AtPacking
  <2>3. CASE bundle' = bundle /\ ~run.changed
    BY <1>1, <2>1, <2>3 DEF Sealed, Uncut, SealInv, Knows
  <2>4. CASE bundle'.seal = Contents
    BY <2>1, <2>2, <2>4 DEF Contents
  <2> QED BY <1>1, <1>4, <2>3, <2>4, SealKinds
<1>5. CASE ~SymbolsSteps /\ ~WriteInfo /\ ~SealSteps
  <2>1. /\ ~cut /\ ~Knows(packing) /\ bundle'.seal = bundle.seal /\ bundle'.info = bundle.info
        /\ bundle'.symbols = bundle.symbols /\ bundle'.librarySymbols = bundle.librarySymbols
    BY <1>1, <1>5, Others
  <2>2. CASE Knows({"symbols"})'
    BY <2>2 DEF Knows
  <2>3. CASE exe' = exe
    BY <1>1, <2>1, <2>3 DEF Sealed, Uncut, SealInv
  <2> QED BY <1>1, <1>5, <2>2, <2>3, Others
<1> QED BY <1>2, <1>3, <1>4, <1>5

\* Only an edit, a linked game and the stage itself change the signature.
LEMMA SignFrame ==
    ASSUME IInv, SignInv, target' = target, bundle'.seal = bundle.seal,
           bundle'.signed => bundle.signed /\ bundle'.info = bundle.info,
           target = "ios" => bundle'.library = bundle.library,
           exe' \in {exe, None} \/ ~bundle'.signed, ~Works("sign")'
    PROVE  SignInv'
<1>1. CASE bundle'.signed
  BY <1>1 DEF SignInv
<1>2. CASE ~bundle'.signed
  BY <1>2 DEF SignInv
<1> QED BY <1>1, <1>2

LEMMA SignStep ==
    ASSUME IInv, SignInv, Next
    PROVE  SignInv'
<1>1. Basis /\ target' = target
  BY Course DEF IInv, Basis
<1>2. CASE Works("sign")'
  <2>1. SignBegins
    BY <1>2, WorkBegins DEF IInv
  <2>2. bundle' = [bundle EXCEPT !.signed = FALSE]
    BY <2>1 DEF SignBegins
  <2>3. ~bundle'.signed
    BY <1>1, <2>2 DEF Basis, Shaped
  <2> QED BY <2>3 DEF SignInv
<1>3. CASE ~Works("sign")' /\ EditSteps
  <2>1. exe' \in {exe, None}
    BY <1>1, <1>3, EditsFrame
  <2>2. bundle'.signed = bundle.signed /\ bundle'.info = bundle.info
        /\ bundle'.seal \in {bundle.seal, None} /\ bundle'.library \in {bundle.library, None}
    BY <1>1, <1>3, BundleEdits DEF Basis, Shaped
  <2>3. target = "ios" => bundle.library = None
    BY <1>1, RecipeHas DEF IInv, CopyInv, Basis, CourseInv
  <2>4. CASE bundle'.seal = bundle.seal
    BY <1>1, <1>3, <2>1, <2>2, <2>3, <2>4, SignFrame
  <2>5. CASE bundle'.seal = None
    BY <1>3, <2>5 DEF SignInv
  <2> QED BY <2>2, <2>4, <2>5
<1>4. CASE ~Works("sign")' /\ GameSteps
  <2>1. bundle'.seal = bundle.seal /\ bundle'.info = bundle.info /\ bundle'.library = bundle.library
    BY <1>1, <1>4, GameCourse DEF Basis
  <2>2. CASE GameEnds \/ GameFails
    <3>1. bundle' = [bundle EXCEPT !.signed = FALSE]
      BY <2>2 DEF GameEnds, GameFails
    <3>2. ~bundle'.signed
      BY <1>1, <3>1 DEF Basis, Shaped
    <3> QED BY <1>1, <1>4, <2>1, <3>2, SignFrame
  <2>3. CASE GenerateBuildInfo \/ GameSkips \/ GameBegins
    <3>1. bundle' = bundle /\ exe' = exe
      BY <2>3 DEF GenerateBuildInfo, GameSkips, GameBegins, pascal, packed
    <3> QED BY <1>1, <1>4, <3>1, SignFrame
  <2> QED BY <1>4, <2>2, <2>3 DEF GameSteps
<1>5. CASE ~Works("sign")' /\ WriteInfo
  <2>1. exe' = exe /\ bundle'.seal = bundle.seal /\ bundle'.library = bundle.library
    BY <1>1, <1>5, InfoCourse DEF Basis
  <2>2. bundle' = [bundle EXCEPT !.info = [version |-> env.metadata],
                                 !.signed = @ /\ bundle.info = [version |-> env.metadata]]
    BY <1>5 DEF WriteInfo
  <2>3. /\ bundle'.info = [version |-> env.metadata]
        /\ bundle'.signed = (bundle.signed /\ bundle.info = [version |-> env.metadata])
    BY <1>1, <2>2 DEF Basis, Shaped
  <2> QED BY <1>1, <1>5, <2>1, <2>3, SignFrame
<1>6. CASE ~Works("sign")' /\ SignSteps
  <2>1. CASE SignSkips
    <3>1. bundle' = bundle /\ exe' = exe
      BY <2>1 DEF SignSkips, pascal, packed
    <3> QED BY <1>1, <1>6, <3>1, SignFrame
  <2>2. CASE SignBegins
    <3>1. bundle' = [bundle EXCEPT !.signed = FALSE]
      BY <2>2 DEF SignBegins
    <3>2. ~bundle'.signed
      BY <1>1, <3>1 DEF Basis, Shaped
    <3> QED BY <3>2 DEF SignInv
  <2>3. CASE SignEnds
    <3>1. /\ bundle' = [bundle EXCEPT !.signed = TRUE,
                            !.seal = [exe |-> exe, library |-> bundle.library, info |-> bundle.info]]
          /\ exe' = exe
      BY <2>3 DEF SignEnds, Contents, pascal
    <3>2. /\ bundle'.seal = [exe |-> exe, library |-> bundle.library, info |-> bundle.info]
          /\ bundle'.library = bundle.library /\ bundle'.info = bundle.info
      BY <1>1, <3>1 DEF Basis, Shaped
    <3> QED BY <1>6, <3>1, <3>2 DEF SignInv
  <2>4. CASE SignFails
    <3>1. ~bundle.signed
      BY <2>4, Working DEF SignFails, SignInv
    <3>2. PICK seal : bundle' = [bundle EXCEPT !.seal = seal]
      BY <2>4 DEF SignFails
    <3>3. ~bundle'.signed
      BY <1>1, <3>1, <3>2 DEF Basis, Shaped
    <3> QED BY <1>6, <3>3 DEF SignInv
  <2> QED BY <1>6, <2>1, <2>2, <2>3, <2>4 DEF SignSteps
<1>7. CASE ~Works("sign")' /\ (SymbolsSteps \/ SealSteps)
  <2>1. target # "ios"
    BY <1>1, <1>7, SymbolsCourse, SealCourse, RecipeNext DEF Basis
  <2> QED BY <1>1, <1>7, <2>1 DEF SignInv
<1>8. CASE ~Works("sign")' /\ CopySteps
  <2>1. target # "ios"
    BY <1>1, <1>8, CopyCourse, StageIsHad, RecipeHas DEF Basis, CourseInv
  <2> QED BY <1>1, <1>8, <2>1 DEF SignInv
<1>9. CASE ~Works("sign")' /\ (StartBuild \/ PackageSteps \/ NroSteps \/ ApkSteps)
  <2>1. /\ bundle'.seal = bundle.seal /\ bundle'.signed = bundle.signed /\ exe' = exe
        /\ bundle'.info = bundle.info /\ bundle'.library = bundle.library
    BY <1>1, <1>9, StartCourse, PackageCourse, NroCourse, ApkCourse DEF Basis
  <2> QED BY <1>1, <1>9, <2>1, SignFrame
<1> QED BY <1>2, <1>3, <1>4, <1>5, <1>6, <1>7, <1>8, <1>9, Groups

LEMMA CutBefore ==
    ASSUME Basis, Next, ~cut', ~(SymbolsEnd /\ Stage = "symbols")
    PROVE  ~cut
<1>1. CASE SymbolsSteps
  BY <1>1, SymbolsKinds
<1>2. CASE SealSteps
  BY <1>2, SealKinds
<1>3. CASE ~SymbolsSteps /\ ~SealSteps
  BY <1>3, CutStep DEF Basis
<1> QED BY <1>1, <1>2, <1>3

\* What a stage leaves sealed stays so until the end of the build.
LEMMA SealedStays ==
    ASSUME IInv, Next, ~cut', SealedInv,
           NEW s \in {"symbols", "librarySymbols", "seal", "sign"}, Building, Past(s)
    PROVE  SealedGood(s)'
<1>1. Basis /\ Stage \in Stages /\ s \in Stages
  BY RecipeNext DEF IInv, Basis, Stages, SymbolStages
<1>2. Has(s) /\ Rank[s] < Rank[Stage]
  BY <1>1, PastStages DEF Basis
<1>3. SealedGood(s)
  BY <1>1 DEF SealedInv, Done
<1>4. ~EditSteps /\ ~StartBuild /\ ~CopySteps /\ ~PackageSteps /\ ~GameSteps
  <2>1. ~EditSteps /\ ~StartBuild
    BY EditCourse, StartCourse DEF Edits, Starts
  <2>2. Stage \notin {"copy", "package", "game"}
    BY <1>2, Ranks
  <2> QED BY <1>1, <2>1, <2>2, CopyCourse, PackageCourse, GameCourse DEF Basis
<1>5. exe' = exe /\ bundle'.library = bundle.library
  <2>1. CASE SymbolsSteps \/ WriteInfo \/ SealSteps
    BY <1>1, <2>1, SymbolsCourse, InfoCourse, SealCourse DEF Basis
  <2>2. CASE SignSteps \/ NroSteps \/ ApkSteps
    BY <1>1, <2>2, SignCourse, NroCourse, ApkCourse DEF Basis
  <2> QED BY <1>4, <2>1, <2>2, Groups
<1>6. CASE s = "symbols"
  <2>1. CASE SymbolsSteps
    <3>1. Stage # "symbols"
      BY <1>2, <1>6, Ranks
    <3>2. bundle'.symbols = bundle.symbols
      BY <1>1, <2>1, <3>1, SymbolsKinds
    <3> QED BY <1>3, <1>5, <1>6, <3>2 DEF SealedGood
  <2>2. CASE ~SymbolsSteps
    <3>1. bundle'.symbols = bundle.symbols
      BY <1>1, <1>4, <2>2, Groups, InfoCourse, SealCourse, SignCourse, NroCourse, ApkCourse DEF Basis
    <3> QED BY <1>3, <1>5, <1>6, <3>1 DEF SealedGood
  <2> QED BY <2>1, <2>2
<1>7. CASE s = "librarySymbols"
  <2>1. ~SymbolsSteps
    <3>1. Stage \notin {"symbols", "librarySymbols"}
      BY <1>2, <1>7, Ranks
    <3> QED BY <1>1, <3>1, SymbolsCourse DEF Basis
  <2>2. bundle'.librarySymbols = bundle.librarySymbols
    BY <1>1, <1>4, <2>1, Groups, InfoCourse, SealCourse, SignCourse, NroCourse, ApkCourse DEF Basis
  <2> QED BY <1>3, <1>5, <1>7, <2>2 DEF SealedGood
<1>8. CASE s \in {"seal", "sign"}
  <2>1. ~SymbolsSteps /\ ~WriteInfo /\ ~SealSteps
    <3>1. Stage \notin {"symbols", "librarySymbols", "info", "seal"}
      BY <1>2, <1>8, Ranks
    <3> QED BY <1>1, <3>1, SymbolsCourse, InfoCourse, SealCourse DEF Basis
  <2>2. ~SignSteps
    <3>1. s = "seal" => Stage # "sign"
      BY <1>1, <1>2, RecipeNext, RecipeHas DEF Basis, CourseInv
    <3>2. s = "sign" => Stage # "sign"
      BY <1>2, Ranks
    <3> QED BY <1>1, <1>8, <3>1, <3>2, SignCourse DEF Basis
  <2>3. bundle'.seal = bundle.seal /\ bundle'.info = bundle.info
    BY <1>1, <1>4, <2>1, <2>2, Groups, NroCourse, ApkCourse DEF Basis
  <2> QED BY <1>3, <1>5, <1>8, <2>3 DEF SealedGood, Contents
<1> QED BY <1>6, <1>7, <1>8

LEMMA SealedStep ==
    ASSUME IInv, Sealed, Next, ~cut'
    PROVE  SealedInv'
<1> SUFFICES ASSUME NEW s \in Stages, Done(s)', s \in {"symbols", "librarySymbols", "seal", "sign"}
             PROVE  SealedGood(s)'
  BY DEF SealedInv, SealedGood
<1>1. Basis /\ Building /\ (Past(s) \/ (Ends /\ s = Stage))
  BY DoneStep DEF IInv, Basis
<1>2. CASE SymbolsEnd /\ Stage = "symbols"
  <2>1. ~Past(s)
    BY <1>1, <1>2, PastStages, Ranks DEF Basis
  <2>2. NewSymbols = [of |-> exe]
    BY <1>2 DEF NewSymbols
  <2>3. bundle' = [bundle EXCEPT ![Stage] = NewSymbols] /\ Stage \in SymbolStages /\ exe' = exe
    BY <1>2 DEF SymbolsEnd, pascal
  <2>4. bundle'.symbols = [of |-> exe']
    BY <1>1, <1>2, <2>2, <2>3, SymbolsBundle DEF Basis
  <2> QED BY <1>1, <1>2, <2>1, <2>4 DEF SealedGood
<1>3. CASE ~(SymbolsEnd /\ Stage = "symbols") /\ Past(s)
  <2>1. SealedInv
    BY <1>1, <1>3, CutBefore DEF Sealed, Uncut
  <2> QED BY <1>1, <1>3, <2>1, SealedStays
<1>4. CASE ~(SymbolsEnd /\ Stage = "symbols") /\ Ends /\ s = Stage
  <2>1. ~EditSteps /\ ~StartBuild /\ ~CopySteps /\ ~PackageSteps /\ ~GameSteps /\ ~WriteInfo
        /\ ~NroSteps /\ ~ApkSteps
    BY <1>1, <1>4, EditCourse, StartCourse, CopyCourse, PackageCourse, GameCourse, InfoCourse,
       NroCourse, ApkCourse DEF Basis, Edits, Starts
  <2>2. Past("game")
    <3>1. Has("game")
      BY <1>1, RecipeHas DEF Basis, CourseInv
    <3> QED BY <1>1, <1>4, <3>1, PastIfBefore, Ranks DEF Basis
  <2>3. exe # None
    BY <1>1, <2>2, GameIsThere
  <2>4. CASE SymbolsSteps
    <3>1. /\ Stage \in {"symbols", "librarySymbols"} /\ target = "macos" /\ exe' = exe
          /\ bundle'.library = bundle.library
      BY <1>1, <2>4, SymbolsKinds
    <3>2. bundle.library = [version |-> exe.library]
      BY <1>1, <3>1, AtPacking
    <3>3. CASE SymbolsSkip
      <4>1. bundle' = bundle /\ ~run.changed /\ bundle[Stage] # None /\ ~cut
        BY <3>3 DEF SymbolsSkip, SymbolsAreMade, packed
      <4>2. CASE Stage = "symbols"
        <5>1. bundle.symbols = [of |-> exe]
          BY <2>3, <3>1, <4>1, <4>2 DEF Sealed, Uncut, SymbolsInv, Knows
        <5> QED BY <1>4, <3>1, <4>1, <4>2, <5>1 DEF SealedGood
      <4>3. CASE Stage = "librarySymbols"
        <5>1. bundle.symbols # None
          <6>1. bundle.symbols = [of |-> exe]
            BY <1>1, <3>1, <4>1, <4>3, MadeBefore DEF Sealed, Uncut
          <6> QED BY <6>1, Distinct
        <5>2. bundle.librarySymbols = [of |-> bundle.library]
          BY <2>3, <3>1, <3>2, <4>1, <4>3, <5>1 DEF Sealed, Uncut, LibrarySymbolsInv, Knows
        <5> QED BY <1>4, <3>1, <4>1, <4>3, <5>2 DEF SealedGood
      <4> QED BY <3>1, <4>2, <4>3
    <3>4. CASE SymbolsEnd
      <4>1. Stage = "librarySymbols"
        BY <1>4, <3>1, <3>4
      <4>2. NewSymbols = [of |-> bundle.library]
        BY <4>1 DEF NewSymbols
      <4>3. bundle' = [bundle EXCEPT ![Stage] = NewSymbols] /\ Stage \in SymbolStages
        BY <3>4 DEF SymbolsEnd
      <4>4. bundle'.librarySymbols = [of |-> bundle'.library]
        BY <1>1, <3>1, <4>1, <4>2, <4>3, SymbolsBundle DEF Basis
      <4> QED BY <1>4, <4>1, <4>4 DEF SealedGood
    <3> QED BY <1>1, <1>4, <2>4, <3>3, <3>4, EndSteps
  <2>5. CASE SealSteps
    <3>1. /\ Stage = "seal" /\ target = "macos" /\ exe' = exe /\ ~cut
          /\ bundle'.library = bundle.library /\ bundle'.info = bundle.info
      BY <1>1, <2>5, SealKinds
    <3>2. CASE bundle' = bundle /\ ~run.changed /\ bundle.seal # None
      <4>1. bundle.symbols # None /\ bundle.librarySymbols # None
        <5>1. bundle.symbols = [of |-> exe] /\ bundle.librarySymbols = [of |-> bundle.library]
          BY <1>1, <3>1, MadeBefore DEF Sealed, Uncut
        <5> QED BY <5>1, Distinct
      <4>2. bundle.library = [version |-> exe.library]
        BY <1>1, <3>1, AtPacking
      <4>3. bundle.seal = Contents
        BY <2>3, <3>1, <3>2, <4>1, <4>2 DEF Sealed, Uncut, SealInv, Knows, Contents
      <4> QED BY <1>4, <3>1, <3>2, <4>3 DEF SealedGood, Contents
    <3>3. CASE bundle'.seal = Contents
      BY <1>4, <3>1, <3>3 DEF SealedGood, Contents
    <3>4. ~SealFails
      BY <1>1, <1>4, NoEnd, AbortBreaks DEF SealFails, Basis
    <3> QED BY <1>1, <2>5, <3>2, <3>3, <3>4, SealKinds
  <2>6. CASE SignSteps
    <3>1. /\ Stage = "sign" /\ target = "ios" /\ exe' = exe
          /\ bundle'.library = bundle.library /\ bundle'.info = bundle.info
      <4>1. Building /\ Stage = "sign"
        BY <1>1, <2>6, SignCourse DEF Basis
      <4>2. target = "ios"
        BY <1>1, <4>1, StageIsHad, RecipeHas DEF Basis, CourseInv
      <4> QED BY <1>1, <2>6, <4>1, <4>2, SignCourse DEF Basis
    <3>2. CASE SignSkips
      <4>1. bundle' = bundle /\ bundle.signed /\ bundle.seal # None
        BY <3>2 DEF SignSkips, SignIsUpToDate, packed
      <4>2. bundle.seal = Contents
        BY <2>3, <3>1, <4>1 DEF Sealed, SignInv, Contents
      <4> QED BY <1>4, <3>1, <4>1, <4>2 DEF SealedGood, Contents
    <3>3. CASE SignEnds
      <4>1. bundle' = [bundle EXCEPT !.signed = TRUE,
                           !.seal = [exe |-> exe, library |-> bundle.library, info |-> bundle.info]]
        BY <3>3 DEF SignEnds, Contents
      <4>2. bundle'.seal = [exe |-> exe, library |-> bundle.library, info |-> bundle.info]
        BY <1>1, <4>1 DEF Basis, Shaped
      <4> QED BY <1>4, <3>1, <4>2 DEF SealedGood, Contents
    <3> QED BY <1>1, <1>4, <2>6, <3>2, <3>3, EndSteps
  <2> QED BY <2>1, <2>4, <2>5, <2>6, Groups
<1> QED BY <1>1, <1>2, <1>3, <1>4

LEMMA SealedHolds ==
    /\ Init => Sealed
    /\ IInv /\ Sealed /\ [Next]_vars => Sealed'
    /\ IInv /\ Sealed => AppIsSealed
<1>1. ASSUME Init  PROVE Sealed
  <2>1. run.at = "idle" /\ outcome # "ok" /\ ~bundle.signed /\ bundle.symbols = None
        /\ bundle.librarySymbols = None /\ bundle.seal = None
    BY <1>1 DEF Init, Idle
  <2>2. SymbolsInv /\ LibrarySymbolsInv /\ SealInv
    BY <2>1 DEF SymbolsInv, LibrarySymbolsInv, SealInv
  <2>3. SignInv /\ SealedInv
    BY <2>1 DEF SignInv, SealedInv, Works, Done, Building
  <2> QED BY <2>2, <2>3 DEF Sealed, Uncut
<1>2. ASSUME IInv, Sealed, Next  PROVE Sealed'
  <2>1. SignInv'
    BY <1>2, SignStep DEF Sealed
  <2>2. ASSUME ~cut'  PROVE Uncut'
    BY <1>2, <2>2, SymbolsStep, LibrarySymbolsStep, SealStep, SealedStep DEF Uncut
  <2> QED BY <2>1, <2>2 DEF Sealed
<1>3. ASSUME Sealed, UNCHANGED vars  PROVE Sealed'
  <2>1. UNCHANGED <<target, exe, bundle, run, outcome, cut>>
    BY <1>3 DEF vars, pascal, packed
  <2>2. Stage' = Stage /\ Building' = Building
    BY <2>1 DEF Stage, Building, Recipe
  <2>3. Uncut => SymbolsInv' /\ LibrarySymbolsInv' /\ SealInv'
    BY <2>1, <2>2 DEF Uncut, SymbolsInv, LibrarySymbolsInv, SealInv, Knows
  <2>4. SignInv'
    BY <1>3, <2>1, <2>2 DEF Sealed, SignInv, Works
  <2>5. Uncut => SealedInv'
    BY <2>1, <2>2 DEF Uncut, SealedInv, SealedGood, Contents, Done, Past, Has, Recipe
  <2> QED BY <1>3, <2>1, <2>3, <2>4, <2>5 DEF Sealed, Uncut
<1>4. ASSUME IInv, Sealed  PROVE AppIsSealed
  <2>1. ASSUME outcome = "ok", ~cut, NEW s \in Stages, Has(s)  PROVE SealedGood(s)
    BY <1>4, <2>1 DEF Sealed, Uncut, SealedInv, Done
  <2>2. Has("symbols") => Has("librarySymbols")
    BY <1>4, RecipeHas DEF IInv, Basis, CourseInv
  <2> QED BY <2>1, <2>2 DEF AppIsSealed, SealedGood, Stages, SymbolStages
<1> QED BY <1>1, <1>2, <1>3, <1>4
\* After every step, a failure in the middle of one included, pascal.py and the
\* packaging scripts leave stamps and inventories that tell the truth.
THEOREM Inductive == Spec => []IInv
BY InitHolds, Stutters, StepHolds, PTL DEF Spec

\* compile_pascal, copy_if_changed and the packaging of each target deliver the
\* game of the present inputs when a build succeeds, whatever was edited, lost
\* or cut short before it: the stamp is emptied before FPC runs, the inventory
\* is of whole file states, and what FPC keeps has the second it was compiled at.
THEOREM Currency == Spec => []GameIsCurrent
BY Inductive, Currently, PTL

\* package_android replaces the published APK only by one that it has verified,
\* archived and signed with the key that signing_key keeps.
THEOREM Publication == Spec => []PublishedApkIsGood
<1>1. IInv => PublishedApkIsGood
  BY DEF IInv
<1> QED BY <1>1, Inductive, PTL

\* compile_pascal gives FPC no -B when nothing but a library changed since the
\* last successful build: Pascal units are compiled for their own sake only.
THEOREM Relinking == Spec => LibrariesOnlyRelink
<1>1. IInv /\ [Next]_vars =>
        [run.at = "check" /\ run'.at = "work" /\ Stage = "game"
          /\ changes \subseteq {"library"} /\ ~run.rebuild => ~run'.all]_vars
  BY Relinks
<1> QED BY <1>1, Inductive, PTL DEF Spec, LibrariesOnlyRelink

\* package_macos and package_ios leave the app with the debug symbols and the
\* seal of what is in it, whatever fails before, and also when dsymutil or
\* codesign fails and leaves nothing.  Once one of them has left something on
\* macOS nothing is said until the executable's symbols have been made anew:
\* the next build takes what there is, having forgotten that it changed.
THEOREM Sealing == Spec => []AppIsSealed
<1>1. Init => Sealed
  BY SealedHolds
<1>2. IInv /\ Sealed /\ [Next]_vars => Sealed'
  BY SealedHolds
<1>3. IInv /\ Sealed => AppIsSealed
  BY SealedHolds
<1> QED BY <1>1, <1>2, <1>3, Inductive, PTL DEF Spec
=============================================================================
