---------------------------- MODULE NativeBuild ----------------------------
(***************************************************************************)
(* The incremental native build of tools/build_support.py: the pinned      *)
(* codec sources, the CMake projects (codecs, okgf), the C and C++         *)
(* adapters with their depfiles and the final link.  Every step is guarded *)
(* by a BuildStamp, a file that holds the signature of the inputs the last *)
(* success was made from.  Between two builds the sources, the tools and   *)
(* the options change, and a build may fail or be killed at any step.      *)
(*                                                                         *)
(* A file that the code identifies by its contents (content_state) is a    *)
(* version, and may go back to an earlier one.  A file that it identifies  *)
(* by size, mtime and ctime (file_state) is known to a stamp until it is   *)
(* written again, whatever is written: seen.                               *)
(***************************************************************************)
EXTENDS Naturals, Sequences, FiniteSets

CONSTANTS
    Drivers,        \* paths that -DCMAKE_C_COMPILER may name
    Recipes,        \* the sequences of stages of the platforms' recipes
    FailingSteps,   \* the steps that may fail or be killed
    MaxEdits,       \* changes of the environment
    MaxFailures     \* failures and kills

Projects == {"codec", "okgf"}
Stages == Projects \union {"adapter", "link"}
Steps == {"fetch", "extract", "configure", "build", "cleanbuild", "install",
          "compile", "link"}
Versions == 0 .. 1

ASSUME DriversAssumption == Drivers # {}
ASSUME RecipesAssumption ==
    Recipes # {} /\ \A r \in Recipes : r # <<>> /\ r \in Seq(Stages)
\* What is linked is linked last (build.py:197, switch.py:213).
ASSUME LinkAssumption ==
    \A r \in Recipes : \A i \in 1 .. Len(r) : r[i] = "link" => i = Len(r)
ASSUME StepsAssumption == FailingSteps \subseteq Steps
ASSUME BoundsAssumption == MaxEdits \in Nat /\ MaxFailures \in Nat

VARIABLES
    recipe,     \* the stages of this work directory's platform
    env,        \* the inputs: options, tools and sources
    archive,    \* the downloaded archive of the codec
    source,     \* the directory it is extracted to, with its .complete
    project,    \* the build directories of the CMake projects
    install,    \* the codec's install-inputs.json and the prefix
    adapter,    \* the adapter's object, depfile and stamp
    link,       \* the linked game and its stamp
    run,        \* the running build: its locals and where it is
    outcome,    \* how the last build ended; "changed" after an edit
    edits, failures

vars == <<recipe, env, archive, source, project, install, adapter, link,
          run, outcome, edits, failures>>

---------------------------------------------------------------------------
(* Stamps and signatures *)

\* The file of a stamp may be missing, or empty from the start of its step to
\* its success; both are never equal to a signature.
Missing == [file |-> "missing"]
Empty == [file |-> "empty"]
Recorded(stamp) == stamp \notin {Missing, Empty}

\* BuildStamp.matches
Matches(stamp, signature, outputs) == stamp = signature /\ outputs

\* content_state of the tools that a CMake cache names
None == [file |-> "none"]
ToolStates(cache) ==
    IF cache = None THEN None
    ELSE [driver |-> cache.driver, compiler |-> env.compiler[cache.driver],
          toolchain |-> env.toolchain]

\* The signature of configure-command.json
ConfigureSignature(cache) ==
    [driver |-> env.driver, cmakelists |-> env.cmakelists, tools |-> ToolStates(cache)]

\* command_signature of a command run with the chosen driver
CommandSignature == [driver |-> env.driver, compiler |-> env.compiler[env.driver]]

---------------------------------------------------------------------------
(* The initial state: a fresh checkout *)

NewProject == [stamp |-> Missing, cache |-> None, objects |-> {}, whole |-> FALSE]
Idle == [stage |-> 0, at |-> "idle", rebuild |-> FALSE, clean |-> FALSE,
         old |-> Missing]

Init ==
    /\ recipe \in Recipes
    /\ env \in [driver : Drivers, compiler : [Drivers -> {0}], toolchain : {0},
                cmakelists : {0}, adapter : {0}]
    /\ archive = "missing"
    /\ source = [files |-> "none", complete |-> FALSE]
    /\ project = [p \in Projects |-> NewProject]
    /\ install = [stamp |-> Missing, seen |-> FALSE, prefix |-> {}]
    /\ adapter = [stamp |-> Missing, object |-> None, depfile |-> FALSE, seen |-> FALSE]
    /\ link = [stamp |-> Missing, game |-> None, outputs |-> FALSE, seen |-> FALSE]
    /\ run = Idle
    /\ outcome = "none"
    /\ edits = 0
    /\ failures = 0

Stage == recipe[run.stage]
At(step) == run.at = step

\* Where a stage begins
Entry(stage) == CASE stage = "codec" -> "fetch" [] stage = "okgf" -> "decide"
                  [] stage = "adapter" -> "check" [] stage = "link" -> "checklink"

\* The stage is done: the next one, or the end of the build.
Advance ==
    IF run.stage < Len(recipe)
    THEN /\ run' = [run EXCEPT !.stage = @ + 1, !.at = Entry(recipe[run.stage + 1])]
         /\ UNCHANGED outcome
    ELSE /\ run' = Idle
         /\ outcome' = "ok"

Goto(step) == run' = [run EXCEPT !.at = step] /\ UNCHANGED outcome

\* run_step raises, or the build is killed: the locals are lost.
Abort ==
    /\ failures < MaxFailures
    /\ failures' = failures + 1
    /\ run' = Idle
    /\ outcome' = "failed"
    /\ UNCHANGED edits
    /\ UNCHANGED <<recipe, env>>

Fails(step) == At(step) /\ step \in FailingSteps /\ Abort

Carry == UNCHANGED <<recipe, env, edits, failures>>

---------------------------------------------------------------------------
(* The changes between two builds *)

Edited ==
    /\ At("idle")
    /\ edits < MaxEdits
    /\ edits' = edits + 1
    /\ outcome' = "changed"
    /\ UNCHANGED <<recipe, run, failures>>

\* Another compiler path, compiler binary, toolchain file or CMakeLists.txt
ChangeEnvironment ==
    /\ Edited
    /\ \/ \E d \in Drivers \ {env.driver} : env' = [env EXCEPT !.driver = d]
       \/ \E d \in Drivers : env' = [env EXCEPT !.compiler[d] = 1 - @]
       \/ env' = [env EXCEPT !.toolchain = 1 - @]
       \/ env' = [env EXCEPT !.cmakelists = 1 - @]
    /\ UNCHANGED <<archive, source, project, install, adapter, link>>

\* The adapter's source or one of the headers its depfile names is written.
EditAdapter ==
    /\ Edited
    /\ env' = [env EXCEPT !.adapter = 1 - @]
    /\ adapter' = [adapter EXCEPT !.seen = FALSE]
    /\ UNCHANGED <<archive, source, project, install, link>>

\* A generated file is removed.
LoseOutput ==
    /\ Edited
    /\ \/ link' = [link EXCEPT !.outputs = FALSE] /\ UNCHANGED adapter
       \/ adapter' = [adapter EXCEPT !.object = None] /\ UNCHANGED link
       \/ adapter' = [adapter EXCEPT !.depfile = FALSE] /\ UNCHANGED link
    /\ UNCHANGED <<env, archive, source, project, install>>

StartBuild ==
    /\ At("idle")
    /\ \E rebuild \in BOOLEAN :
          run' = [Idle EXCEPT !.stage = 1, !.at = Entry(recipe[1]), !.rebuild = rebuild]
    /\ Carry
    /\ UNCHANGED <<archive, source, project, install, adapter, link, outcome>>

---------------------------------------------------------------------------
(* dependency_source *)

SourceReady ==
    /\ At("fetch") /\ source.complete
    /\ Goto("decide")
    /\ Carry
    /\ UNCHANGED <<archive, source, project, install, adapter, link>>

\* The download goes to a .partial file, which then takes the archive's name.
Download ==
    /\ At("fetch") /\ ~source.complete /\ archive = "missing"
    /\ \/ archive' = "whole" /\ UNCHANGED failures
       \/ /\ "fetch" \in FailingSteps /\ failures < MaxFailures
          /\ archive' = "corrupt" /\ failures' = failures + 1
    /\ UNCHANGED <<recipe, env, edits, run, outcome>>
    /\ UNCHANGED <<source, project, install, adapter, link>>

DownloadFails ==
    /\ archive = "missing" /\ ~source.complete /\ Fails("fetch")
    /\ UNCHANGED <<archive, source, project, install, adapter, link>>

\* A checksum mismatch raises, and leaves the archive as it is.
ChecksumFails ==
    /\ At("fetch") /\ ~source.complete /\ archive = "corrupt"
    /\ run' = Idle /\ outcome' = "failed"
    /\ Carry
    /\ UNCHANGED <<archive, source, project, install, adapter, link>>

\* Mutant: .complete is written before the extraction.
MarkedBeforeExtraction ==
    /\ At("fetch") /\ ~source.complete /\ archive = "whole"
    /\ Goto("extract")
    /\ source' = [files |-> "part", complete |-> TRUE]
    /\ Carry
    /\ UNCHANGED <<archive, project, install, adapter, link>>

ChecksumPasses ==
    /\ At("fetch") /\ ~source.complete /\ archive = "whole"
    /\ Goto("extract")
    /\ source' = [source EXCEPT !.files = IF @ = "none" THEN "part" ELSE @]
    /\ Carry
    /\ UNCHANGED <<archive, project, install, adapter, link>>

Extract ==
    /\ At("extract")
    /\ source' = [files |-> "whole", complete |-> TRUE]
    /\ Goto("decide")
    /\ Carry
    /\ UNCHANGED <<archive, project, install, adapter, link>>

ExtractFails ==
    /\ Fails("extract")
    /\ \E files \in {"part", "whole"} : source' = [source EXCEPT !.files = files]
    /\ UNCHANGED <<archive, project, install, adapter, link>>

---------------------------------------------------------------------------
(* configure_native *)

PathsChanged(cache) == cache # None /\ cache.driver # env.driver

\* The toolchain file's contents differ from those in the last signature.
ToolchainChanged(stamp, cache) ==
    /\ Recorded(stamp) /\ stamp.tools # None /\ cache # None
    /\ stamp.tools.toolchain # env.toolchain

\* Without a signature, what is in the directory is left from a failure.
UnknownTools(stamp, cache) == ~Recorded(stamp) /\ (cache # None \/ stamp = Empty)

Fresh(stamp, cache) ==
    PathsChanged(cache) \/ ToolchainChanged(stamp, cache) \/ UnknownTools(stamp, cache)

\* Mutant: only a fresh configuration asks for a clean.
CleanIfFresh(fresh, old, cache) == fresh

\* What configure_native returns after a configuration
NeedsClean(fresh, old, cache) ==
    fresh \/ (Recorded(old) /\ old.tools # ToolStates(cache))

ConfigureSkips ==
    /\ At("decide")
    /\ LET p == project[Stage]
       IN  Matches(p.stamp, ConfigureSignature(p.cache), p.cache # None)
    /\ run' = [run EXCEPT !.at = "build", !.clean = run.rebuild]
    /\ UNCHANGED outcome
    /\ Carry
    /\ UNCHANGED <<archive, source, project, install, adapter, link>>

\* The stamp is emptied, and a fresh configuration starts without the cache and
\* CMakeFiles, where the project's own objects are; those of the projects
\* below it stay.
ConfigureBegins ==
    /\ At("decide")
    /\ LET p == project[Stage]
           fresh == Fresh(p.stamp, p.cache)
       IN  /\ ~Matches(p.stamp, ConfigureSignature(p.cache), p.cache # None)
           /\ project' = [project EXCEPT
                  ![Stage].stamp = Empty,
                  ![Stage].cache = IF fresh THEN None ELSE @,
                  ![Stage].whole = @ /\ ~fresh]
           /\ run' = [run EXCEPT !.at = "configure", !.clean = fresh, !.old = p.stamp]
    /\ UNCHANGED outcome
    /\ Carry
    /\ UNCHANGED <<archive, source, install, adapter, link>>

NewCache == [driver |-> env.driver, cmakelists |-> env.cmakelists]

ConfigureEnds ==
    /\ At("configure")
    /\ project' = [project EXCEPT ![Stage].cache = NewCache,
                                  ![Stage].stamp = ConfigureSignature(NewCache)]
    /\ run' = [run EXCEPT !.at = "build", !.old = Missing,
                  !.clean = run.rebuild \/ NeedsClean(@, run.old, NewCache)]
    /\ install' = [install EXCEPT !.seen = @ /\ Stage # "codec"]
    /\ UNCHANGED outcome
    /\ Carry
    /\ UNCHANGED <<archive, source, adapter, link>>

\* CMake fails, or is killed before or after it has written its cache.
ConfigureFails ==
    /\ Fails("configure")
    /\ \E cache \in {None, NewCache, project[Stage].cache} :
          project' = [project EXCEPT ![Stage].cache = cache]
    /\ UNCHANGED <<archive, source, install, adapter, link>>

---------------------------------------------------------------------------
(* cmake --build: the generator compiles what is missing, whatever tool the *)
(* other objects were compiled with; --clean-first removes them all.        *)

Compiles(p) == run.clean \/ ~p.whole
Objects(p) ==
    (IF run.clean THEN {} ELSE p.objects)
        \union (IF Compiles(p) THEN {ToolStates(p.cache)} ELSE {})

BuildEnds ==
    /\ At("build")
    /\ LET p == project[Stage]
       IN  /\ project' = [project EXCEPT ![Stage].objects = Objects(p),
                                         ![Stage].whole = TRUE]
           /\ install' = [install EXCEPT !.seen = @ /\ ~(Stage = "codec" /\ Compiles(p))]
           /\ link' = [link EXCEPT !.seen = @ /\ ~(Stage = "okgf" /\ Compiles(p))]
    /\ IF Stage = "codec" THEN Goto("checkinstall") ELSE Advance
    /\ Carry
    /\ UNCHANGED <<archive, source, adapter>>

\* cmake --build, and cmake --build --clean-first
BuildStep == IF run.clean THEN "cleanbuild" ELSE "build"

\* It fails with none, some or all of the objects removed or compiled.
BuildFails ==
    /\ At("build") /\ BuildStep \in FailingSteps /\ Abort
    /\ LET p == project[Stage]
       IN  \/ UNCHANGED <<project, install, link>>
           \/ /\ Compiles(p)
              /\ \E objects \in {Objects(p), IF run.clean THEN {} ELSE p.objects} :
                    project' = [project EXCEPT ![Stage].objects = objects,
                                               ![Stage].whole = FALSE]
              /\ install' = [install EXCEPT !.seen = @ /\ Stage # "codec"]
              /\ link' = [link EXCEPT !.seen = @ /\ Stage # "okgf"]
    /\ UNCHANGED <<archive, source, adapter>>

---------------------------------------------------------------------------
(* The installation of a codec in build_codecs *)

Installed == [file |-> "installed"]

InstallSkips ==
    /\ At("checkinstall")
    /\ Matches(install.stamp, Installed, install.seen)
    /\ Advance
    /\ Carry
    /\ UNCHANGED <<archive, source, project, install, adapter, link>>

InstallBegins ==
    /\ At("checkinstall")
    /\ ~Matches(install.stamp, Installed, install.seen)
    /\ install' = [install EXCEPT !.stamp = Empty]
    /\ Goto("install")
    /\ Carry
    /\ UNCHANGED <<archive, source, project, adapter, link>>

\* Mutant: the state recorded is the one from before the step.
InstallEndsWithOldState ==
    /\ At("install")
    /\ install' = [stamp |-> Installed, seen |-> FALSE, prefix |-> project["codec"].objects]
    /\ Advance
    /\ Carry
    /\ UNCHANGED <<archive, source, project, adapter, link>>

\* The state is taken after the step: installing changes the archives.
InstallEnds ==
    /\ At("install")
    /\ install' = [stamp |-> Installed, seen |-> TRUE, prefix |-> project["codec"].objects]
    /\ Advance
    /\ Carry
    /\ UNCHANGED <<archive, source, project, adapter, link>>

InstallFails ==
    /\ Fails("install")
    /\ \E prefix \in {install.prefix, install.prefix \union project["codec"].objects} :
          install' = [install EXCEPT !.prefix = prefix]
    /\ UNCHANGED <<archive, source, project, adapter, link>>

---------------------------------------------------------------------------
(* compile_native *)

AdapterIsUpToDate ==
    /\ ~run.rebuild
    /\ Matches(adapter.stamp, CommandSignature,
               adapter.seen /\ adapter.object # None /\ adapter.depfile)

CompileSkips ==
    /\ At("check") /\ AdapterIsUpToDate
    /\ Advance
    /\ Carry
    /\ UNCHANGED <<archive, source, project, install, adapter, link>>

CompileBegins ==
    /\ At("check") /\ ~AdapterIsUpToDate
    /\ adapter' = [adapter EXCEPT !.stamp = Empty]
    /\ Goto("compile")
    /\ Carry
    /\ UNCHANGED <<archive, source, project, install, link>>

NewObject == [source |-> env.adapter, tools |-> CommandSignature]

\* The signature includes the state of the files that the new depfile names.
CompileEnds ==
    /\ At("compile")
    /\ adapter' = [stamp |-> CommandSignature, object |-> NewObject,
                   depfile |-> TRUE, seen |-> TRUE]
    /\ link' = [link EXCEPT !.seen = FALSE]
    /\ Advance
    /\ Carry
    /\ UNCHANGED <<archive, source, project, install>>

\* The compiler fails, or leaves a depfile that cannot be parsed.
CompileFails ==
    /\ Fails("compile")
    /\ \E object \in {None, NewObject, adapter.object}, depfile \in BOOLEAN :
          adapter' = [adapter EXCEPT !.object = object, !.depfile = depfile]
    /\ link' = [link EXCEPT !.seen = FALSE]
    /\ UNCHANGED <<archive, source, project, install>>

---------------------------------------------------------------------------
(* link_native *)

\* Mutant: the states of the inputs are left out of the signature.
LinkIsThere == ~run.rebuild /\ Matches(link.stamp, CommandSignature, link.outputs)

LinkIsUpToDate ==
    ~run.rebuild /\ Matches(link.stamp, CommandSignature, link.seen /\ link.outputs)

LinkSkips ==
    /\ At("checklink") /\ LinkIsUpToDate
    /\ Advance
    /\ Carry
    /\ UNCHANGED <<archive, source, project, install, adapter, link>>

LinkBegins ==
    /\ At("checklink") /\ ~LinkIsUpToDate
    /\ link' = [link EXCEPT !.stamp = Empty, !.seen = TRUE]
    /\ Goto("link")
    /\ Carry
    /\ UNCHANGED <<archive, source, project, install, adapter>>

LinkInputs == [adapter |-> adapter.object, native |-> project["okgf"].objects,
               tools |-> CommandSignature]

LinkEnds ==
    /\ At("link")
    /\ link' = [link EXCEPT !.stamp = CommandSignature, !.game = LinkInputs, !.outputs = TRUE]
    /\ Advance
    /\ Carry
    /\ UNCHANGED <<archive, source, project, install, adapter>>

\* The linker may have written one of the outputs.
LinkFails ==
    /\ Fails("link")
    /\ \E game \in {None, LinkInputs, link.game}, outputs \in BOOLEAN :
          link' = [link EXCEPT !.game = game, !.outputs = outputs]
    /\ UNCHANGED <<archive, source, project, install, adapter>>

---------------------------------------------------------------------------
Next ==
    \/ ChangeEnvironment \/ EditAdapter \/ LoseOutput \/ StartBuild
    \/ SourceReady \/ Download \/ DownloadFails \/ ChecksumFails \/ ChecksumPasses
    \/ Extract \/ ExtractFails
    \/ ConfigureSkips \/ ConfigureBegins \/ ConfigureEnds \/ ConfigureFails
    \/ BuildEnds \/ BuildFails
    \/ InstallSkips \/ InstallBegins \/ InstallEnds \/ InstallFails
    \/ CompileSkips \/ CompileBegins \/ CompileEnds \/ CompileFails
    \/ LinkSkips \/ LinkBegins \/ LinkEnds \/ LinkFails

Spec == Init /\ [][Next]_vars

---------------------------------------------------------------------------
(* Properties *)

Has(stage) == \E i \in 1 .. Len(recipe) : recipe[i] = stage

\* The last build succeeded and nothing was changed since.
Settled == outcome = "ok"

\* After a successful build the objects of every CMake project were compiled
\* by the compiler and with the toolchain file that are there now: the clean
\* that configure_native asks for when a tool changes was made, whatever
\* failed on the way.
ObjectsAreCurrent ==
    Settled /\ At("idle") =>
        \A p \in Projects : Has(p) => project[p].objects = {ToolStates(project[p].cache)}

\* The .complete file of a codec means that its sources are all there, after
\* any failure or kill of the download and of the extraction.
SourcesAreWhole == source.complete => source.files = "whole" /\ archive = "whole"

\* After a successful build everything that it delivers was made from the
\* present inputs: the configuration, the installed codecs, the adapter's
\* object and the linked game, although each was skipped or made according to
\* its own stamp.
NativeIsCurrent ==
    Settled /\ At("idle") =>
        /\ \A p \in Projects : Has(p) => project[p].cache = NewCache
        /\ Has("codec") => install.prefix = project["codec"].objects
        /\ Has("adapter") => adapter.object = NewObject
        /\ Has("link") => link.outputs /\ link.game = LinkInputs

\* A build after a successful one, with nothing changed and without --rebuild,
\* runs no step but the generators' own check: what a step writes (the archives
\* an installation touches, a configuration's metadata) is in its signature
\* already.
NothingIsMadeTwice ==
    [][Settled /\ ~run.rebuild /\ run'.at # run.at =>
        run'.at \notin {"configure", "install", "compile", "link"}]_vars

===========================================================================
