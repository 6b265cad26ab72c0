--------------------------- MODULE CompilerCache ---------------------------
(***************************************************************************)
(* tools/compiler.py: the compiler of one target and its runtime, cached   *)
(* in .local/fpc/<cpu>-<system>.  A full bootstrap copies vendor/fpc and   *)
(* runs a compiler cycle; with FPC_SOURCE set, vendor/fpc is synced first  *)
(* (FpcSync) and, once a bootstrap is there, the compiler alone is         *)
(* compiled in the same tree by the retained build compiler and with the   *)
(* tree's host RTL units.  FPC_COMPILER takes an external compiler.  The   *)
(* target's runtime is compiled from vendor's RTL in a tree of its own.    *)
(*                                                                         *)
(* The sources and the tools change between two builds only; a build may   *)
(* fail or be killed at any step.  A record (a stamp, a manifest) is       *)
(* written whole or not at all.                                            *)
(***************************************************************************)
EXTENDS FpcSync

CONSTANTS
    CompilerFiles,  \* compiler/
    SwitchFiles,    \* rtl/switch
    FailingSteps    \* the steps that may fail or be killed

BuildSteps == {"mirror", "mirror new file", "compile", "first bootstrap",
               "next bootstrap", "runtime"}

ASSUME PartsAssumption ==
    /\ CompilerFiles \subseteq Files /\ SwitchFiles \subseteq Files
    /\ CompilerFiles \intersect SwitchFiles = {}
ASSUME BuildStepsAssumption == FailingSteps \subseteq BuildSteps

VARIABLES
    target,         \* "host" or "switch": which recipe makes the runtime
    tools,          \* versions of the host's tools and of FPC_COMPILER
    tree,           \* work/source: files, manifest, RTL units, released PPUs
    exe,            \* the compiler, in the tree
    buildCompiler,  \* work/build-compiler
    compilerStamp, hostStamp,
    runtime,        \* the target's RTL units and their stamp
    run,            \* the running build
    outcome         \* how the last build ended

treeVars == <<tree, exe, buildCompiler, compilerStamp, hostStamp, runtime>>
cacheVars == <<target, tools, treeVars, run, outcome>>
vars == <<syncVars, cacheVars>>

HostRtlFiles == Files \ (CompilerFiles \union SwitchFiles)
RtlFiles == Files \ CompilerFiles

None == [file |-> "none"]
Empty == [file |-> "empty"]     \* a stamp from the start to the success of its step
Recorded(stamp) == stamp \notin {None, Empty}

---------------------------------------------------------------------------
(* Revisions.  Git lists the pinned commit's objects and the differences of *)
(* the worktree from them.                                                 *)

source_revision(files) == [f \in files |-> <<head[f], vendor[f]>>]

Revision == [sources |-> source_revision(Files \ SwitchFiles), tools |-> tools.host]
HostRevision == [sources |-> source_revision(HostRtlFiles), tools |-> tools.host]

Compiler == IF run.external THEN [external |-> tools.external] ELSE exe

\* The Switch runtime's signature covers all of rtl/, that of the others the
\* compiler's revision.
RuntimeRevision ==
    [revision |-> IF target = "switch" THEN source_revision(Files) ELSE Revision,
     compiler |-> Compiler, tools |-> tools.host]

Start == [at |-> "idle", dev |-> FALSE, external |-> FALSE]
Content(files, of) == [f \in files |-> of[f]]
EmptyTree == [files |-> Content(Files, [f \in Files |-> Gone]), manifest |-> {},
              units |-> None, released |-> None]

Init ==
    /\ SyncInit
    /\ target \in {"host", "switch"}
    /\ tools = [host |-> 0, external |-> 0]
    /\ tree = EmptyTree
    /\ exe = None
    /\ buildCompiler = None
    /\ compilerStamp = None
    /\ hostStamp = None
    /\ runtime = [stamp |-> None, units |-> None]
    /\ run = Start
    /\ outcome = "none"

At(step) == run.at = step
Goto(step) == run' = [run EXCEPT !.at = step]

\* A build changes neither the sources nor the tools.
Carry == UNCHANGED <<syncVars, target, tools>>

Abort ==
    /\ failures < MaxFailures
    /\ failures' = failures + 1
    /\ run' = Start
    /\ outcome' = "failed"
    /\ UNCHANGED <<upstream, head, vendor, synced, handmade, sync, edits>>
    /\ UNCHANGED <<target, tools>>

---------------------------------------------------------------------------
(* Between two builds *)

EditSources ==
    /\ At("idle")
    /\ \/ \E f \in Files, c \in Versions \union {Gone} :
             EditUpstream(f, c) \/ EditVendor(f, c)
       \/ UpdatePin
    /\ outcome' = "changed"
    /\ UNCHANGED <<target, tools, treeVars, run>>

\* Clang, make or the bootstrap FPC is replaced, or FPC_COMPILER's executable.
ReplaceTool ==
    /\ At("idle")
    /\ Edited
    /\ \E t \in {"host", "external"} : tools' = [tools EXCEPT ![t] = 1 - @]
    /\ outcome' = "changed"
    /\ UNCHANGED <<upstream, head, vendor, handmade, target, treeVars, run>>

\* prepare_compiler, with or without FPC_SOURCE and FPC_COMPILER
StartBuild ==
    /\ At("idle")
    /\ \E dev, external \in BOOLEAN :
          run' = [at |-> IF dev THEN "sync" ELSE "bootstrap", dev |-> dev,
                  external |-> external]
    /\ outcome' = "running"
    /\ Carry
    /\ UNCHANGED treeVars

Sync ==
    /\ At("sync")
    /\ \/ SyncRefuses /\ run' = Start /\ outcome' = "failed"
       \/ SyncBegins /\ UNCHANGED <<run, outcome>>
       \/ (\E f \in Files : SyncWrites(f)) /\ UNCHANGED <<run, outcome>>
       \/ SyncSaves /\ Goto("bootstrap") /\ UNCHANGED outcome
       \/ SyncIsKilled /\ run' = Start /\ outcome' = "failed"
    /\ UNCHANGED <<target, tools, treeVars>>

---------------------------------------------------------------------------
(* bootstrap_compiler *)

\* Mutant: any recorded host runtime will do.
IncrementalOnceBootstrapped == run.dev /\ Recorded(hostStamp) /\ buildCompiler # None

\* The build compiler is never lost once it was retained.
Incremental == run.dev /\ hostStamp = HostRevision /\ buildCompiler # None

CompilerIsUpToDate == compilerStamp = Revision /\ exe # None

BootstrapSkips ==
    /\ At("bootstrap")
    /\ run.external \/ CompilerIsUpToDate
    /\ Goto("runtime")
    /\ Carry
    /\ UNCHANGED <<treeVars, outcome>>

BootstrapBegins ==
    /\ At("bootstrap")
    /\ ~run.external /\ ~CompilerIsUpToDate
    /\ compilerStamp' = Empty
    /\ Goto(IF Incremental THEN "mirror" ELSE "copy")
    /\ Carry
    /\ UNCHANGED <<tree, exe, buildCompiler, hostStamp, runtime, outcome>>

\* build_source_files: what Git tracks or sees
SourceNames == {f \in Files : head[f] # Gone \/ vendor[f] # Gone}

\* The files of the tree that sync_build_source may have reached: those it
\* still lists are as in vendor, those that the manifest alone lists are gone.
Mirrored(reached) ==
    [f \in Files |->
        IF f \notin reached THEN tree.files[f]
        ELSE IF f \in SourceNames THEN vendor[f] ELSE Gone]

\* Mutant: the compiler's released PPUs are kept.
MirrorKeepsUnits ==
    /\ At("mirror")
    /\ tree' = [tree EXCEPT !.files = Mirrored(SourceNames \union tree.manifest),
                            !.manifest = SourceNames]
    /\ Goto("compile")
    /\ Carry
    /\ UNCHANGED <<exe, buildCompiler, compilerStamp, hostStamp, runtime, outcome>>

\* sync_build_source, then the compiler's PPUs are removed.
MirrorEnds ==
    /\ At("mirror")
    /\ tree' = [tree EXCEPT !.files = Mirrored(SourceNames \union tree.manifest),
                            !.manifest = SourceNames, !.released = None]
    /\ Goto("compile")
    /\ Carry
    /\ UNCHANGED <<exe, buildCompiler, compilerStamp, hostStamp, runtime, outcome>>

\* Killed: some files are there, the manifest is still the old one.
MirrorFails ==
    /\ At("mirror") /\ "mirror" \in FailingSteps /\ Abort
    /\ \E reached \in SUBSET (SourceNames \union tree.manifest) :
          /\ reached \subseteq tree.manifest \/ "mirror new file" \in FailingSteps
          /\ tree' = [tree EXCEPT !.files = Mirrored(reached)]
    /\ UNCHANGED <<exe, buildCompiler, compilerStamp, hostStamp, runtime>>

\* What the tree's sources give: -B recompiles all units but released ones,
\* and takes the RTL units as they are.
NewCompiler ==
    [sources |-> IF tree.released # None THEN tree.released
                 ELSE Content(CompilerFiles, tree.files),
     rtl |-> tree.units, tools |-> tools.host]

CompileEnds ==
    /\ At("compile") /\ tree.units # None
    /\ exe' = NewCompiler
    /\ compilerStamp' = Revision
    /\ Goto("runtime")
    /\ Carry
    /\ UNCHANGED <<tree, buildCompiler, hostStamp, runtime, outcome>>

\* It fails or is killed; without RTL units in the tree it fails every time.
CompileFails ==
    /\ At("compile")
    /\ tree.units # None => "compile" \in FailingSteps /\ failures < MaxFailures
    /\ exe' \in {exe, None} \union (IF tree.units = None THEN {} ELSE {NewCompiler})
    /\ failures' = IF tree.units = None THEN failures ELSE failures + 1
    /\ run' = Start /\ outcome' = "failed"
    /\ UNCHANGED <<upstream, head, vendor, synced, handmade, sync, edits>>
    /\ UNCHANGED <<target, tools, tree, buildCompiler, compilerStamp, hostStamp, runtime>>

---------------------------------------------------------------------------
(* The full bootstrap: the tree is removed, with the compiler in it, and    *)
(* copied from vendor; compiler_cycle makes the RTL units and the compiler. *)

FullStep == IF Recorded(hostStamp) THEN "next bootstrap" ELSE "first bootstrap"
FullFails(step) == At(step) /\ FullStep \in FailingSteps /\ Abort

CopyEnds ==
    /\ At("copy")
    /\ tree' = [EmptyTree EXCEPT !.files = vendor, !.manifest = SourceNames]
    /\ exe' = None
    /\ Goto("cycle")
    /\ Carry
    /\ UNCHANGED <<buildCompiler, compilerStamp, hostStamp, runtime, outcome>>

\* Killed in rmtree, in copytree or before the manifest
CopyFails ==
    /\ FullFails("copy")
    /\ \E part \in SUBSET Files :
          \/ /\ tree' = [tree EXCEPT !.files = [f \in Files |-> IF f \in part THEN @[f] ELSE Gone],
                                     !.units = None]
             /\ exe' \in {None, exe}
          \/ /\ tree' = [EmptyTree EXCEPT !.files =
                            [f \in Files |-> IF f \in part THEN vendor[f] ELSE Gone]]
             /\ exe' = None
    /\ UNCHANGED <<buildCompiler, compilerStamp, hostStamp, runtime>>

CycledTree == [tree EXCEPT !.units = Content(HostRtlFiles, tree.files),
                           !.released = Content(CompilerFiles, tree.files)]
CycledCompiler ==
    [sources |-> Content(CompilerFiles, tree.files), rtl |-> Content(HostRtlFiles, tree.files),
     tools |-> tools.host]

CycleEnds ==
    /\ At("cycle")
    /\ tree' = CycledTree
    /\ exe' = CycledCompiler
    /\ Goto("retain")
    /\ Carry
    /\ UNCHANGED <<buildCompiler, compilerStamp, hostStamp, runtime, outcome>>

\* The cycle compiles the RTL first, with the bootstrap FPC.
CycleFails ==
    /\ FullFails("cycle")
    /\ tree' \in {tree, [tree EXCEPT !.units = CycledTree.units], CycledTree}
    /\ exe' \in {exe, CycledCompiler}
    /\ UNCHANGED <<buildCompiler, compilerStamp, hostStamp, runtime>>

\* The build compiler is kept, and both stamps are recorded.
RetainEnds ==
    /\ At("retain")
    /\ buildCompiler' = exe
    /\ hostStamp' = HostRevision
    /\ compilerStamp' = Revision
    /\ Goto("runtime")
    /\ Carry
    /\ UNCHANGED <<tree, exe, runtime, outcome>>

RetainFails ==
    /\ FullFails("retain")
    /\ buildCompiler' \in {buildCompiler, exe}
    /\ hostStamp' \in {hostStamp, Empty}
    /\ UNCHANGED <<tree, exe, compilerStamp, runtime>>

---------------------------------------------------------------------------
(* prepare_target_runtime, and prepare_runtime of switch.py *)

RuntimeIsUpToDate == runtime.stamp = RuntimeRevision

RuntimeSkips ==
    /\ At("runtime") /\ RuntimeIsUpToDate
    /\ run' = Start /\ outcome' = "ok"
    /\ Carry
    /\ UNCHANGED treeVars

RuntimeBegins ==
    /\ At("runtime") /\ ~RuntimeIsUpToDate
    /\ runtime' = [runtime EXCEPT !.stamp = Empty]
    /\ Goto("make runtime")
    /\ Carry
    /\ UNCHANGED <<tree, exe, buildCompiler, compilerStamp, hostStamp, outcome>>

\* All units are removed first and compiled anew.
NewRuntime == [sources |-> Content(IF target = "switch" THEN RtlFiles ELSE HostRtlFiles, vendor),
               compiler |-> Compiler]

RuntimeEnds ==
    /\ At("make runtime")
    /\ runtime' = [stamp |-> RuntimeRevision, units |-> NewRuntime]
    /\ run' = Start /\ outcome' = "ok"
    /\ Carry
    /\ UNCHANGED <<tree, exe, buildCompiler, compilerStamp, hostStamp>>

RuntimeFails ==
    /\ At("make runtime") /\ "runtime" \in FailingSteps /\ Abort
    /\ \E units \in {None, NewRuntime} : runtime' = [runtime EXCEPT !.units = units]
    /\ UNCHANGED <<tree, exe, buildCompiler, compilerStamp, hostStamp>>

---------------------------------------------------------------------------
Next ==
    \/ EditSources \/ ReplaceTool \/ StartBuild \/ Sync
    \/ BootstrapSkips \/ BootstrapBegins
    \/ MirrorEnds \/ MirrorFails \/ CompileEnds \/ CompileFails
    \/ CopyEnds \/ CopyFails \/ CycleEnds \/ CycleFails \/ RetainEnds \/ RetainFails
    \/ RuntimeSkips \/ RuntimeBegins \/ RuntimeEnds \/ RuntimeFails

Spec == Init /\ [][Next]_vars

---------------------------------------------------------------------------
(* Properties *)

\* The compiler made of the present sources, host RTL and tools
CurrentCompiler ==
    [sources |-> Content(CompilerFiles, vendor), rtl |-> Content(HostRtlFiles, vendor),
     tools |-> tools.host]

\* A build that succeeds hands over the compiler of the present sources,
\* whichever of bootstrap, incremental compilation and cache made it and
\* whatever failed before, and runtime units that this very compiler made of
\* the present RTL: "Compiler changes invalidate RTL and game caches."
CompilerIsCurrent ==
    [][outcome # "ok" /\ outcome' = "ok" =>
        /\ run.external \/ exe = CurrentCompiler
        /\ runtime'.units = NewRuntime]_vars

\* When the compiler is compiled alone, the RTL units in its tree are there,
\* are those of the present host RTL, and are those of the build compiler:
\* "The build compiler and its host RTL must agree after a full bootstrap.
\* Shared/host RTL edits require another full cycle."
HostRuntimeAgrees ==
    At("compile") =>
        /\ tree.units = Content(HostRtlFiles, vendor)
        /\ buildCompiler.rtl = tree.units

===========================================================================
