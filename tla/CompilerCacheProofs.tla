------------------------ MODULE CompilerCacheProofs ------------------------
(***************************************************************************)
(* Proofs about CompilerCache for any sources, tools, edits and failures:   *)
(* hand edits survive in every build; the retained build compiler and the  *)
(* host RTL of its tree agree if no second full bootstrap is cut short; and *)
(* then, if no kill separates a file that is new in the tree from the      *)
(* manifest, every build that succeeds hands over the present compiler.    *)
(***************************************************************************)
EXTENDS CompilerCache, TLAPS

-----------------------------------------------------------------------------
(* The sync, in builds and alone (FpcSync) *)

\* Versions, records and the running sync have their types.
SyncTypeOK ==
    /\ upstream \in [Files -> Contents] /\ head \in [Files -> Contents]
    /\ vendor \in [Files -> Contents]
    /\ synced \in [Files -> Contents \union {NotSynced}]
    /\ handmade \subseteq Files
    /\ sync \in [at : {"idle", "writing"}, todo : SUBSET Files, data : [Files -> Contents],
                 next : [Files -> Contents \union {NotSynced}], conflicts : SUBSET Files]

\* A file last written by hand is neither as the pin nor as the record has it,
\* in every state, also between the writes of a sync (lines 78-125); and a
\* running sync has none of them before it.
HandInv ==
    /\ \A f \in handmade : vendor[f] # head[f] /\ vendor[f] # Expected(f)
    /\ sync.at = "writing" => sync.todo \intersect handmade = {}

IInv == SyncTypeOK /\ HandInv

\* What else may happen in a build: a change of the edits' and failures' counts.
Idles == /\ UNCHANGED <<upstream, head, vendor, synced, handmade>>
         /\ sync' = sync \/ sync' = NoSync

-----------------------------------------------------------------------------
LEMMA Constants ==
    /\ Gone \in Contents /\ Torn \in Contents
    /\ Versions \union {Gone} \subseteq Contents
    /\ NotSynced \notin Contents
BY LimitsAssumption DEF Gone, Torn, Contents, Versions, NotSynced

LEMMA NoSyncType ==
    NoSync \in [at : {"idle", "writing"}, todo : SUBSET Files, data : [Files -> Contents],
                next : [Files -> Contents \union {NotSynced}], conflicts : SUBSET Files]
BY Constants DEF NoSync

LEMMA InitTypes == SyncInit => IInv
<1> SUFFICES ASSUME SyncInit  PROVE IInv
  OBVIOUS
<1>0. 1 \in Contents
  BY LimitsAssumption DEF Contents, Gone, Torn
<1>1. SyncTypeOK
  BY <1>0, Constants, NoSyncType DEF SyncInit, SyncTypeOK
<1>2. HandInv
  BY DEF SyncInit, HandInv, NoSync
<1> QED BY <1>1, <1>2 DEF IInv

\* Every step of a sync and of the developer, and every other one, keeps the
\* types.
LEMMA TypeStep == ASSUME SyncTypeOK, SyncNext \/ Idles  PROVE SyncTypeOK'
<1> USE DEF SyncTypeOK
<1>1. ASSUME NEW f \in Files, NEW c \in Versions \union {Gone}, EditUpstream(f, c)
      PROVE SyncTypeOK'
  BY <1>1, Constants, NoSyncType DEF EditUpstream, Edited
<1>2. ASSUME NEW f \in Files, NEW c \in Versions \union {Gone}, EditVendor(f, c)
      PROVE SyncTypeOK'
  BY <1>2, Constants, NoSyncType DEF EditVendor, Edited
<1>3. ASSUME UpdatePin  PROVE SyncTypeOK'
  BY <1>3, NoSyncType DEF UpdatePin, Edited
<1>4. ASSUME SyncRefuses  PROVE SyncTypeOK'
  <2>1. Conflicts \subseteq Files
    BY DEF Conflicts, Changes, Names
  <2> QED BY <1>4, <2>1, NoSyncType DEF SyncRefuses
<1>5. ASSUME SyncBegins  PROVE SyncTypeOK'
  <2>1. Changes \subseteq Files
    BY DEF Changes, Names
  <2>2. NextState \in [Files -> Contents \union {NotSynced}]
    BY DEF NextState
  <2> QED BY <1>5, <2>1, <2>2 DEF SyncBegins
<1>6. ASSUME NEW f \in Files, SyncWrites(f)  PROVE SyncTypeOK'
  BY <1>6 DEF SyncWrites
<1>7. ASSUME SyncSaves  PROVE SyncTypeOK'
  BY <1>7, NoSyncType DEF SyncSaves
<1>8. ASSUME SyncIsKilled  PROVE SyncTypeOK'
  BY <1>8, Constants, NoSyncType DEF SyncIsKilled
<1>9. ASSUME Idles  PROVE SyncTypeOK'
  BY <1>9, NoSyncType DEF Idles
<1> QED BY <1>1, <1>2, <1>3, <1>4, <1>5, <1>6, <1>7, <1>8, <1>9 DEF SyncNext

\* A sync begins only if what it will write is as it expects it, which no file
\* written by hand is; while it runs nobody edits.
LEMMA HandStep == ASSUME IInv, SyncNext \/ Idles  PROVE HandInv'
<1> USE DEF IInv, SyncTypeOK
<1>1. ASSUME NEW g \in Files, NEW c \in Versions \union {Gone}, EditUpstream(g, c)
      PROVE HandInv'
  BY <1>1 DEF EditUpstream, Edited, NoSync, HandInv, Expected
<1>2. ASSUME NEW g \in Files, NEW c \in Versions \union {Gone}, EditVendor(g, c)
      PROVE HandInv'
  <2>1. ASSUME NEW f \in handmade'
        PROVE vendor'[f] # head'[f] /\ vendor'[f] # Expected(f)'
    BY <1>2, <2>1 DEF EditVendor, Edited, HandInv, Expected
  <2> QED BY <1>2, <2>1 DEF EditVendor, Edited, NoSync, HandInv
<1>3. ASSUME UpdatePin  PROVE HandInv'
  <2>1. ASSUME NEW f \in handmade'
        PROVE vendor'[f] # head'[f] /\ vendor'[f] # Expected(f)'
    <3>1. f \in handmade /\ head[f] = Gone /\ upstream[f] = Gone /\ f \in Files
      BY <1>3, <2>1 DEF UpdatePin
    <3>2. head'[f] = head[f] /\ vendor'[f] = vendor[f] /\ synced' = synced
      BY <1>3, <3>1 DEF UpdatePin, Edited
    <3> QED BY <3>1, <3>2 DEF HandInv, Expected
  <2> QED BY <1>3, <2>1 DEF UpdatePin, Edited, NoSync, HandInv
<1>4. ASSUME SyncRefuses  PROVE HandInv'
  BY <1>4 DEF SyncRefuses, NoSync, HandInv, Expected
<1>5. ASSUME SyncBegins  PROVE HandInv'
  <2>1. ASSUME NEW f \in Changes  PROVE f \notin handmade
    BY <1>5, <2>1 DEF SyncBegins, Conflicts, HandInv
  <2> QED BY <1>5, <2>1 DEF SyncBegins, HandInv, Expected
<1>6. ASSUME NEW g \in Files, SyncWrites(g)  PROVE HandInv'
  <2>1. g \notin handmade
    BY <1>6 DEF SyncWrites, HandInv
  <2> QED BY <1>6, <2>1 DEF SyncWrites, HandInv, Expected
<1>7. ASSUME SyncSaves  PROVE HandInv'
  BY <1>7 DEF SyncSaves, NoSync, HandInv, Expected
<1>8. ASSUME SyncIsKilled  PROVE HandInv'
  <2>1. \A f \in handmade : vendor'[f] = vendor[f]
    BY <1>8 DEF SyncIsKilled, HandInv
  <2> QED BY <1>8, <2>1 DEF SyncIsKilled, NoSync, HandInv, Expected
<1>9. ASSUME Idles  PROVE HandInv'
  BY <1>9 DEF Idles, NoSync, HandInv, Expected
<1> QED BY <1>1, <1>2, <1>3, <1>4, <1>5, <1>6, <1>7, <1>8, <1>9 DEF SyncNext

\* No step of a running sync touches a file last written by hand.
LEMMA HandSurvives ==
    ASSUME IInv, SyncNext \/ Idles, sync.at = "writing", NEW f \in handmade
    PROVE  vendor'[f] = vendor[f]
<1>1. f \in Files /\ f \notin sync.todo
  BY DEF IInv, SyncTypeOK, HandInv
<1>2. ASSUME NEW g \in Files, SyncWrites(g)  PROVE vendor'[f] = vendor[f]
  BY <1>1, <1>2 DEF SyncWrites, IInv, SyncTypeOK
<1>3. ASSUME SyncIsKilled  PROVE vendor'[f] = vendor[f]
  BY <1>1, <1>3 DEF SyncIsKilled, IInv, SyncTypeOK
<1> QED BY <1>2, <1>3 DEF SyncNext, Idles, EditUpstream, EditVendor, UpdatePin, Edited,
                           SyncRefuses, SyncBegins, SyncSaves

\* The sync keeps its types and HandInv, for any files, edits and kills.
THEOREM SyncInductive == SyncSpec => []IInv
<1>1. ASSUME IInv, [SyncNext]_syncVars  PROVE IInv'
  <2>1. SyncNext \/ Idles
    BY <1>1 DEF syncVars, Idles
  <2> QED BY <1>1, <2>1, TypeStep, HandStep DEF IInv
<1> QED BY InitTypes, <1>1, PTL DEF SyncSpec

\* "The sync preserves Git metadata and stops on conflicting vendor edits": no
\* running sync writes a file that was last written by hand (sync_fpc.py:96-121).
THEOREM HandEditsPreserved == SyncSpec => HandEditsSurvive
<1>1. ASSUME IInv, SyncNext, NEW f \in handmade, sync.at = "writing"
      PROVE  vendor'[f] = vendor[f]
  BY <1>1, HandSurvives
<1>2. IInv /\ [SyncNext]_syncVars =>
        [\A f \in handmade : sync.at = "writing" => vendor'[f] = vendor[f]]_syncVars
  BY <1>1
<1> QED BY <1>2, SyncInductive, PTL DEF SyncSpec, HandEditsSurvive

-----------------------------------------------------------------------------
(* The builds *)

\* What a revision says the files were
Listed(files, revision) == [f \in files |-> revision[f][2]]

\* The records have their fields.
FieldsOK ==
    /\ run = [at |-> run.at, dev |-> run.dev, external |-> run.external]
    /\ tree = [files |-> tree.files, manifest |-> tree.manifest,
               units |-> tree.units, released |-> tree.released]
    /\ tree.files = Content(Files, tree.files)
    /\ runtime = [stamp |-> runtime.stamp, units |-> runtime.units]
    /\ vendor = Content(Files, vendor)

\* Outside a full bootstrap a recorded host runtime is what the tree and the
\* build compiler have; inside it the tree is a copy of vendor.
HostInv ==
    /\ Recorded(hostStamp) /\ ~At("cycle") /\ ~At("retain") =>
          /\ tree.units = Listed(HostRtlFiles, hostStamp.sources)
          /\ buildCompiler.rtl = tree.units
    /\ At("cycle") => tree.files = vendor
    /\ At("retain") => /\ tree.units = Content(HostRtlFiles, vendor)
                       /\ exe = CurrentCompiler
    /\ At("mirror") \/ At("compile") => hostStamp = HostRevision

\* The manifest lists what is in the tree.
ManifestInv ==
    Recorded(hostStamp) \/ At("cycle") \/ At("retain") =>
        \A f \in Files \ tree.manifest : tree.files[f] = Gone

\* A recorded compiler is what its stamp says, and is recorded by no step that
\* changes it before its end.
CompilerInv ==
    /\ Recorded(compilerStamp) /\ exe # None =>
          exe = [sources |-> Listed(CompilerFiles, compilerStamp.sources),
                 rtl |-> Listed(HostRtlFiles, compilerStamp.sources),
                 tools |-> compilerStamp.tools]
    /\ run.at \in {"mirror", "compile", "copy", "cycle", "retain"} => compilerStamp = Empty
    /\ At("compile") => /\ tree.released = None
                        /\ Content(CompilerFiles, tree.files) = Content(CompilerFiles, vendor)
    /\ At("runtime") \/ At("make runtime") => run.external \/ exe = CurrentCompiler

\* The runtime units that a stamp stands for
RuntimeOf(stamp) ==
    [sources |-> IF target = "switch" THEN Listed(RtlFiles, stamp.revision)
                 ELSE Listed(HostRtlFiles, stamp.revision.sources),
     compiler |-> stamp.compiler]

\* Recorded runtime units are what their stamp says; none are recorded while
\* they are made.
RuntimeInv ==
    /\ Recorded(runtime.stamp) => runtime.units = RuntimeOf(runtime.stamp)
    /\ At("make runtime") => runtime.stamp = Empty

-----------------------------------------------------------------------------
(* Hand edits *)

\* A build's steps are the sync's, the developer's, or none of either's.
LEMMA StepIsSyncOrIdle == Next => SyncNext \/ Idles
<1>1. EditSources => SyncNext
  BY DEF EditSources, SyncNext
<1>2. Sync => SyncNext
  BY DEF Sync, SyncNext
<1>3. ReplaceTool => Idles
  BY DEF ReplaceTool, Edited, Idles
<1>4. ASSUME Abort PROVE Idles
  BY <1>4 DEF Abort, Idles
<1>5. ASSUME Carry PROVE Idles
  BY <1>5 DEF Carry, Idles, syncVars
<1>6. CompileFails => Idles
  BY DEF CompileFails, Idles
<1> QED
  BY <1>1, <1>2, <1>3, <1>4, <1>5, <1>6
     DEF Next, StartBuild, BootstrapSkips, BootstrapBegins, MirrorEnds, MirrorFails, CompileEnds,
         CopyEnds, CopyFails, CycleEnds, CycleFails, RetainEnds, RetainFails, FullFails,
         RuntimeSkips, RuntimeBegins, RuntimeEnds, RuntimeFails

LEMMA StutterIdles == UNCHANGED vars => Idles
BY DEF vars, syncVars, Idles

\* What FpcSync keeps a build keeps.
THEOREM SyncHolds == Spec => []IInv
<1>1. Init => IInv
  BY InitTypes DEF Init
<1>2. ASSUME IInv, [Next]_vars  PROVE IInv'
  BY <1>2, StepIsSyncOrIdle, StutterIdles, TypeStep, HandStep DEF IInv
<1> QED BY <1>1, <1>2, PTL DEF Spec

\* In every build, whatever it goes on to do: no running sync writes a file that
\* was last written by hand (sync_fpc.py:96-121, compiler.py:450-468).
THEOREM BuildsKeepHandEdits == Spec => HandEditsSurvive
<1>1. ASSUME IInv, [Next]_vars, NEW f \in handmade, sync.at = "writing"
      PROVE  vendor'[f] = vendor[f]
  BY <1>1, StepIsSyncOrIdle, StutterIdles, HandSurvives
<1>2. IInv /\ [Next]_vars =>
        [\A f \in handmade : sync.at = "writing" => vendor'[f] = vendor[f]]_syncVars
  BY <1>1
<1> QED BY <1>2, SyncHolds, PTL DEF Spec, HandEditsSurvive

-----------------------------------------------------------------------------
(* The records *)

LEMMA Stamps ==
    /\ ~Recorded(None) /\ ~Recorded(Empty)
    /\ Recorded(HostRevision) /\ Recorded(Revision) /\ Recorded(RuntimeRevision)
<1>1. DOMAIN None = {"file"} /\ DOMAIN Empty = {"file"}
  BY DEF None, Empty
<1>2. "sources" \in DOMAIN HostRevision /\ "sources" \in DOMAIN Revision
  BY DEF HostRevision, Revision
<1>3. "compiler" \in DOMAIN RuntimeRevision
  BY DEF RuntimeRevision
<1> QED BY <1>1, <1>2, <1>3 DEF Recorded

\* A revision lists what is in vendor.
LEMMA ListedNow ==
    /\ Listed(HostRtlFiles, HostRevision.sources) = Content(HostRtlFiles, vendor)
    /\ Listed(HostRtlFiles, Revision.sources) = Content(HostRtlFiles, vendor)
    /\ Listed(CompilerFiles, Revision.sources) = Content(CompilerFiles, vendor)
    /\ Listed(RtlFiles, source_revision(Files)) = Content(RtlFiles, vendor)
<1>1. /\ HostRtlFiles \subseteq Files \ SwitchFiles
      /\ CompilerFiles \subseteq Files \ SwitchFiles
      /\ RtlFiles \subseteq Files
  BY PartsAssumption DEF HostRtlFiles, RtlFiles
<1> QED BY <1>1 DEF Listed, Content, HostRevision, Revision, source_revision

LEMMA GotoSets == ASSUME FieldsOK, NEW step, Goto(step)
                  PROVE  run'.at = step /\ run'.external = run.external
BY DEF FieldsOK, Goto

LEMMA AbortSets == Abort => run'.at = "idle"
BY DEF Abort, Start

\* The developer and the sync leave what is built alone.
LEMMA OutsideSets ==
    ASSUME FieldsOK, EditSources \/ ReplaceTool \/ StartBuild \/ Sync
    PROVE  /\ UNCHANGED <<tree, exe, buildCompiler, compilerStamp, hostStamp, runtime, target>>
           /\ run.at \in {"idle", "sync"}
           /\ run'.at \in {"idle", "sync", "bootstrap"}
<1>1. UNCHANGED <<tree, exe, buildCompiler, compilerStamp, hostStamp, runtime, target>>
  BY DEF EditSources, ReplaceTool, StartBuild, Sync, treeVars, Carry
<1>2. run.at \in {"idle", "sync"}
  BY DEF EditSources, ReplaceTool, StartBuild, Sync, At
<1>3. CASE EditSources \/ ReplaceTool \/ StartBuild
  <2>1. run' = run \/ run'.at = "sync" \/ run'.at = "bootstrap"
    BY <1>3 DEF EditSources, ReplaceTool, StartBuild
  <2> QED BY <1>1, <1>2, <2>1
<1>4. CASE Sync
  <2>1. run' = Start \/ run' = run \/ Goto("bootstrap")
    BY <1>4 DEF Sync
  <2>2. Goto("bootstrap") => run'.at = "bootstrap"
    BY GotoSets
  <2>3. run' = Start => run'.at = "idle"
    BY DEF Start
  <2> QED BY <1>1, <1>2, <2>1, <2>2, <2>3
<1> QED BY <1>3, <1>4

LEMMA InitCache ==
    Init => FieldsOK /\ HostInv /\ ManifestInv /\ CompilerInv /\ RuntimeInv
<1> SUFFICES ASSUME Init  PROVE FieldsOK /\ HostInv /\ ManifestInv /\ CompilerInv /\ RuntimeInv
  OBVIOUS
<1>1. run.at = "idle"
  BY DEF Init, Start
<1>2. FieldsOK
  BY DEF Init, SyncInit, FieldsOK, Start, EmptyTree, Content
<1>3. HostInv
  BY <1>1, Stamps DEF Init, HostInv, At
<1>4. ManifestInv
  BY <1>1, Stamps DEF Init, ManifestInv, At
<1>5. CompilerInv
  BY <1>1, Stamps DEF Init, CompilerInv, At
<1>6. RuntimeInv
  BY <1>1, Stamps DEF Init, RuntimeInv, At
<1> QED BY <1>2, <1>3, <1>4, <1>5, <1>6

LEMMA FieldsStep == ASSUME FieldsOK, SyncTypeOK, SyncTypeOK', Next  PROVE FieldsOK'
<1>1. vendor' = Content(Files, vendor')
  BY DEF SyncTypeOK, Content
<1>2. run' = [at |-> run'.at, dev |-> run'.dev, external |-> run'.external]
  BY DEF FieldsOK, Next, EditSources, ReplaceTool, StartBuild, Sync, BootstrapSkips, BootstrapBegins, MirrorEnds, MirrorFails, CompileEnds, CompileFails,
         CopyEnds, CopyFails, CycleEnds, CycleFails, RetainEnds, RetainFails, FullFails,
         RuntimeSkips, RuntimeBegins, RuntimeEnds, RuntimeFails, Abort, Goto, Start
<1>3. runtime' = [stamp |-> runtime'.stamp, units |-> runtime'.units]
  BY DEF FieldsOK, Next, EditSources, ReplaceTool, StartBuild, Sync, BootstrapSkips, BootstrapBegins, MirrorEnds, MirrorFails, CompileEnds, CompileFails,
         CopyEnds, CopyFails, CycleEnds, CycleFails, RetainEnds, RetainFails, FullFails,
         RuntimeSkips, RuntimeBegins, RuntimeEnds, RuntimeFails, treeVars
<1>4. /\ tree' = [files |-> tree'.files, manifest |-> tree'.manifest,
                  units |-> tree'.units, released |-> tree'.released]
      /\ tree'.files = Content(Files, tree'.files)
  <2>1. CASE tree' = tree
    BY <2>1 DEF FieldsOK, Content
  <2>2. CASE MirrorEnds \/ MirrorFails
    BY <2>2 DEF FieldsOK, Content, MirrorEnds, MirrorFails, Mirrored
  <2>3. CASE CopyEnds
    BY <2>3, <1>1 DEF FieldsOK, Content, CopyEnds, EmptyTree
  <2>4. CASE CopyFails
    BY <2>4 DEF FieldsOK, Content, CopyFails, EmptyTree
  <2>5. CASE CycleEnds \/ CycleFails
    BY <2>5 DEF FieldsOK, Content, CycleEnds, CycleFails, CycledTree
  <2> QED
    BY <2>1, <2>2, <2>3, <2>4, <2>5
       DEF Next, EditSources, ReplaceTool, StartBuild, Sync, BootstrapSkips, BootstrapBegins,
         CompileEnds, CompileFails, RetainEnds, RetainFails, 
         RuntimeSkips, RuntimeBegins, RuntimeEnds, RuntimeFails, treeVars
<1> QED BY <1>1, <1>2, <1>3, <1>4 DEF FieldsOK

-----------------------------------------------------------------------------
(* The build compiler and its host RTL *)

\* The tree, the build compiler, the host stamp and the place in a bootstrap
\* stay, and so do the sources once a build has reached it.
Untouched ==
    /\ UNCHANGED <<tree, buildCompiler, hostStamp>>
    /\ run'.at \notin {"mirror", "compile", "cycle", "retain"}
    /\ run.at \notin {"cycle", "retain"}

LEMMA UntouchedSteps ==
    ASSUME FieldsOK, Next,
           ~MirrorEnds, ~MirrorFails, ~CopyEnds, ~CopyFails, ~CycleEnds, ~CycleFails,
           ~RetainEnds, ~RetainFails, ~BootstrapBegins
    PROVE  Untouched
<1>1. CASE EditSources \/ ReplaceTool \/ StartBuild \/ Sync
  BY <1>1, OutsideSets DEF Untouched
<1>2. CASE BootstrapSkips \/ RuntimeBegins \/ CompileEnds
  <2>1. /\ run.at \in {"bootstrap", "runtime", "compile"}
        /\ UNCHANGED <<tree, buildCompiler, hostStamp>>
    BY <1>2 DEF BootstrapSkips, RuntimeBegins, CompileEnds, treeVars, At
  <2>2. Goto("runtime") \/ Goto("make runtime")
    BY <1>2 DEF BootstrapSkips, RuntimeBegins, CompileEnds
  <2>3. run'.at \in {"runtime", "make runtime"}
    BY <2>2, GotoSets
  <2> QED BY <2>1, <2>3 DEF Untouched
<1>3. CASE RuntimeSkips \/ RuntimeEnds \/ RuntimeFails \/ CompileFails
  <2>1. /\ run.at \in {"runtime", "make runtime", "compile"}
        /\ UNCHANGED <<tree, buildCompiler, hostStamp>>
    BY <1>3 DEF RuntimeSkips, RuntimeEnds, RuntimeFails, CompileFails, treeVars, At
  <2>2. run' = Start
    BY <1>3 DEF RuntimeSkips, RuntimeEnds, RuntimeFails, CompileFails, Abort
  <2> QED BY <2>1, <2>2 DEF Untouched, Start
<1> QED BY <1>1, <1>2, <1>3 DEF Next

\* The manifest and the host runtime hold between a full bootstrap's end and the
\* next one, which no failure cuts short.
LEMMA HostStep ==
    ASSUME "next bootstrap" \notin FailingSteps, FieldsOK, HostInv, Next
    PROVE  HostInv'
<1>1. CASE Untouched
  BY <1>1 DEF Untouched, HostInv, Listed, At
<1>2. CASE BootstrapBegins
  <2>1. UNCHANGED <<tree, buildCompiler, hostStamp, head, vendor, tools>>
    BY <1>2 DEF BootstrapBegins, Carry, syncVars
  <2>2. At("bootstrap") /\ ((Goto("mirror") /\ Incremental) \/ Goto("copy"))
    BY <1>2 DEF BootstrapBegins
  <2>3. run'.at = "copy" \/ (run'.at = "mirror" /\ hostStamp = HostRevision)
    BY <2>2, GotoSets DEF Incremental
  <2> QED BY <2>1, <2>2, <2>3 DEF HostInv, Listed, At, HostRevision, source_revision
<1>3. CASE MirrorEnds
  <2>1. /\ UNCHANGED <<buildCompiler, hostStamp, head, vendor, tools>>
        /\ tree'.units = tree.units
    BY <1>3 DEF MirrorEnds, Carry, syncVars, FieldsOK
  <2>2. At("mirror") /\ run'.at = "compile"
    BY <1>3, GotoSets DEF MirrorEnds
  <2> QED BY <2>1, <2>2 DEF HostInv, Listed, At, HostRevision, source_revision
<1>4. CASE MirrorFails
  <2>1. UNCHANGED <<buildCompiler, hostStamp>> /\ tree'.units = tree.units
    BY <1>4 DEF MirrorFails, FieldsOK
  <2>2. At("mirror") /\ run'.at = "idle"
    BY <1>4, AbortSets DEF MirrorFails
  <2> QED BY <2>1, <2>2 DEF HostInv, Listed, At
<1>5. CASE CopyEnds
  <2>1. run'.at = "cycle"
    BY <1>5, GotoSets DEF CopyEnds
  <2>2. tree'.files = vendor'
    <3>1. vendor' = vendor
      BY <1>5 DEF CopyEnds, Carry, syncVars
    <3>2. tree'.files = vendor
      BY <1>5 DEF CopyEnds, EmptyTree
    <3> QED BY <3>1, <3>2
  <2> QED BY <2>1, <2>2 DEF HostInv, At
<1>6. CASE CopyFails \/ CycleFails \/ RetainFails
  <2>1. FullFails("copy") \/ FullFails("cycle") \/ FullFails("retain")
    BY <1>6 DEF CopyFails, CycleFails, RetainFails
  <2>2. ~Recorded(hostStamp) /\ run'.at = "idle"
    BY <2>1, AbortSets DEF FullFails, FullStep
  <2>3. hostStamp' \in {hostStamp, Empty}
    BY <1>6 DEF CopyFails, CycleFails, RetainFails
  <2>4. ~Recorded(hostStamp')
    BY <2>2, <2>3, Stamps
  <2> QED BY <2>2, <2>4 DEF HostInv, At, Recorded, None, Empty
<1>7. CASE CycleEnds
  <2>1. run'.at = "retain" /\ UNCHANGED <<vendor, tools>>
    BY <1>7, GotoSets DEF CycleEnds, Carry, syncVars
  <2>2. tree.files = vendor
    BY <1>7 DEF CycleEnds, HostInv
  <2>3. tree'.units = Content(HostRtlFiles, vendor) /\ exe' = CurrentCompiler
    BY <1>7, <2>2 DEF CycleEnds, CycledTree, CycledCompiler, CurrentCompiler, FieldsOK
  <2> QED BY <2>1, <2>3 DEF HostInv, At, Content, CurrentCompiler
<1>8. CASE RetainEnds
  <2>1. run'.at = "runtime"
    BY <1>8, GotoSets DEF RetainEnds
  <2>2. tree.units = Content(HostRtlFiles, vendor) /\ exe = CurrentCompiler
    BY <1>8 DEF RetainEnds, HostInv
  <2>3. buildCompiler' = exe /\ tree' = tree /\ hostStamp' = HostRevision
    BY <1>8 DEF RetainEnds
  <2>4. exe.rtl = Content(HostRtlFiles, vendor)
    BY <2>2 DEF CurrentCompiler
  <2> QED BY <2>1, <2>2, <2>3, <2>4, ListedNow DEF HostInv, At, Listed
<1> QED BY <1>1, <1>2, <1>3, <1>4, <1>5, <1>6, <1>7, <1>8, UntouchedSteps

LEMMA AgreesFromInv == FieldsOK /\ HostInv => HostRuntimeAgrees
<1> SUFFICES ASSUME HostInv, At("compile")
             PROVE  /\ tree.units = Content(HostRtlFiles, vendor)
                    /\ buildCompiler.rtl = tree.units
  BY DEF HostRuntimeAgrees
<1>1. hostStamp = HostRevision /\ Recorded(hostStamp)
  BY Stamps DEF HostInv
<1>2. ~At("cycle") /\ ~At("retain")
  BY DEF At
<1> QED BY <1>1, <1>2, ListedNow DEF HostInv

\* After a full bootstrap the build compiler and the host RTL agree, and shared
\* edits require another one, whatever is edited, fails or is killed, if no
\* second full bootstrap is cut short (compiler.py:386-424).
THEOREM HostRuntime ==
    ASSUME "next bootstrap" \notin FailingSteps  PROVE Spec => []HostRuntimeAgrees
<1>1. Init => FieldsOK /\ HostInv
  BY InitCache
<1>2. ASSUME FieldsOK, HostInv, IInv, IInv', [Next]_vars  PROVE FieldsOK' /\ HostInv'
  <2>1. CASE Next
    BY <1>2, <2>1, FieldsStep, HostStep DEF IInv
  <2>2. CASE UNCHANGED vars
    BY <1>2, <2>2 DEF vars, syncVars, cacheVars, treeVars, FieldsOK, HostInv, Recorded,
       Listed, Content, CurrentCompiler, HostRevision, source_revision, At, None, Empty
  <2> QED BY <1>2, <2>1, <2>2
<1> QED BY <1>1, <1>2, AgreesFromInv, SyncHolds, PTL DEF Spec

-----------------------------------------------------------------------------
(* The compiler that a build hands over *)

\* No file is in the tree that a later mirroring would forget.
ManifestComplete == \A f \in Files \ tree.manifest : tree.files[f] = Gone

LEMMA SourcesListed == \A f \in Files \ SourceNames : vendor[f] = Gone
BY DEF SourceNames

LEMMA ManifestStep ==
    ASSUME "next bootstrap" \notin FailingSteps, "mirror new file" \notin FailingSteps,
           FieldsOK, HostInv, ManifestInv, Next
    PROVE  ManifestInv'
<1>1. CASE Untouched
  BY <1>1 DEF Untouched, ManifestInv, At, Recorded, None, Empty
<1>2. CASE BootstrapBegins
  <2>1. UNCHANGED <<tree, hostStamp>> /\ run.at = "bootstrap"
    BY <1>2 DEF BootstrapBegins, At
  <2>2. run'.at \in {"copy", "mirror"}
    BY <1>2, GotoSets DEF BootstrapBegins
  <2> QED BY <2>1, <2>2 DEF ManifestInv, At, Recorded, None, Empty
<1>3. CASE MirrorEnds
  <2>1. ManifestComplete
    BY <1>3, Stamps DEF MirrorEnds, HostInv, ManifestInv, ManifestComplete
  <2>2. /\ tree'.files = Mirrored(SourceNames \union tree.manifest)
        /\ tree'.manifest = SourceNames
    BY <1>3 DEF MirrorEnds, FieldsOK
  <2>3. ASSUME NEW f \in Files \ SourceNames
        PROVE  Mirrored(SourceNames \union tree.manifest)[f] = Gone
    BY <2>1 DEF ManifestComplete, Mirrored
  <2> QED BY <2>2, <2>3 DEF ManifestInv
<1>4. CASE MirrorFails
  <2>1. ManifestComplete
    BY <1>4, Stamps DEF MirrorFails, HostInv, ManifestInv, ManifestComplete
  <2>2. PICK reached \in SUBSET (SourceNames \union tree.manifest) :
            reached \subseteq tree.manifest /\ tree' = [tree EXCEPT !.files = Mirrored(reached)]
    BY <1>4 DEF MirrorFails
  <2>3. tree'.files = Mirrored(reached) /\ tree'.manifest = tree.manifest
    BY <2>2 DEF FieldsOK
  <2>4. ASSUME NEW f \in Files \ tree.manifest
        PROVE  Mirrored(reached)[f] = Gone
    BY <2>1, <2>2 DEF ManifestComplete, Mirrored
  <2> QED BY <2>3, <2>4 DEF ManifestInv
<1>5. CASE CopyEnds
  <2>1. tree'.files = vendor /\ tree'.manifest = SourceNames
    BY <1>5 DEF CopyEnds, EmptyTree
  <2> QED BY <2>1, SourcesListed DEF ManifestInv
<1>6. CASE CopyFails \/ CycleFails \/ RetainFails
  <2>1. FullFails("copy") \/ FullFails("cycle") \/ FullFails("retain")
    BY <1>6 DEF CopyFails, CycleFails, RetainFails
  <2>2. ~Recorded(hostStamp) /\ run'.at = "idle"
    BY <2>1, AbortSets DEF FullFails, FullStep
  <2>3. hostStamp' \in {hostStamp, Empty}
    BY <1>6 DEF CopyFails, CycleFails, RetainFails
  <2>4. ~Recorded(hostStamp')
    BY <2>2, <2>3, Stamps
  <2> QED BY <2>2, <2>4 DEF ManifestInv, At, Recorded, None, Empty
<1>7. CASE CycleEnds
  <2>1. ManifestComplete
    BY <1>7 DEF CycleEnds, ManifestInv, ManifestComplete
  <2>2. tree'.files = tree.files /\ tree'.manifest = tree.manifest
    BY <1>7 DEF CycleEnds, CycledTree, FieldsOK
  <2> QED BY <2>1, <2>2 DEF ManifestInv, ManifestComplete
<1>8. CASE RetainEnds
  <2>1. ManifestComplete /\ tree' = tree
    BY <1>8 DEF RetainEnds, ManifestInv, ManifestComplete
  <2> QED BY <2>1 DEF ManifestInv, ManifestComplete
<1> QED BY <1>1, <1>2, <1>3, <1>4, <1>5, <1>6, <1>7, <1>8, UntouchedSteps

LEMMA CarryKeeps == Carry => /\ UNCHANGED <<vendor, head, tools, target>>
                             /\ CurrentCompiler' = CurrentCompiler
<1> SUFFICES ASSUME Carry
             PROVE  UNCHANGED <<vendor, head, tools, target>> /\ CurrentCompiler' = CurrentCompiler
  OBVIOUS
<1>1. UNCHANGED <<vendor, head, tools, target>>
  BY DEF Carry, syncVars
<1>2. CurrentCompiler' = CurrentCompiler
  BY <1>1 DEF CurrentCompiler, Content
<1> QED BY <1>1, <1>2

\* What a stamp of the present revision stands for is the present compiler.
LEMMA RecordedNow ==
    [sources |-> Listed(CompilerFiles, Revision.sources),
     rtl |-> Listed(HostRtlFiles, Revision.sources),
     tools |-> Revision.tools] = CurrentCompiler
<1>1. Revision.tools = tools.host
  BY DEF Revision
<1> QED BY <1>1, ListedNow DEF CurrentCompiler

\* The stamp is empty from before the first change of the tree or the compiler
\* until both are there; a mirrored tree has no released unit.
LEMMA CompilerStep ==
    ASSUME "next bootstrap" \notin FailingSteps, "mirror new file" \notin FailingSteps,
           FieldsOK, HostInv, ManifestInv, CompilerInv, Next
    PROVE  CompilerInv'
<1>1. CASE UNCHANGED <<exe, compilerStamp>> /\ run'.at \in {"idle", "sync", "bootstrap"}
  BY <1>1 DEF CompilerInv, At, Recorded, None, Empty, Listed
<1>2. CASE compilerStamp' = Empty /\ run'.at \in {"idle", "mirror", "copy", "cycle"}
  BY <1>2, Stamps DEF CompilerInv, At, Recorded, None, Empty
<1>3. CASE EditSources \/ ReplaceTool \/ StartBuild \/ Sync
  BY <1>1, <1>3, OutsideSets
<1>4. CASE RuntimeSkips \/ RuntimeEnds \/ RuntimeFails
  <2>1. run' = Start
    BY <1>4 DEF RuntimeSkips, RuntimeEnds, RuntimeFails, Abort
  <2>2. UNCHANGED <<exe, compilerStamp>>
    BY <1>4 DEF RuntimeSkips, RuntimeEnds, RuntimeFails, treeVars
  <2> QED BY <1>1, <2>1, <2>2 DEF Start
<1>5. CASE BootstrapSkips
  <2>1. /\ run'.at = "runtime" /\ run'.external = run.external
        /\ UNCHANGED <<exe, compilerStamp>> /\ CurrentCompiler' = CurrentCompiler
    <3>1. Goto("runtime") /\ Carry /\ UNCHANGED <<exe, compilerStamp>>
      BY <1>5 DEF BootstrapSkips, treeVars
    <3> QED BY <3>1, GotoSets, CarryKeeps
  <2>2. CASE run.external
    BY <2>1, <2>2 DEF CompilerInv, At, Recorded, None, Empty, Listed
  <2>3. CASE CompilerIsUpToDate
    <3>1. exe = CurrentCompiler
      BY <2>3, Stamps, RecordedNow DEF CompilerIsUpToDate, CompilerInv
    <3> QED BY <2>1, <3>1 DEF CompilerInv, At, Recorded, None, Empty, Listed
  <2> QED BY <1>5, <2>2, <2>3 DEF BootstrapSkips
<1>6. CASE RuntimeBegins
  <2>1. /\ run'.at = "make runtime" /\ run'.external = run.external
        /\ UNCHANGED <<exe, compilerStamp>> /\ CurrentCompiler' = CurrentCompiler
    BY <1>6, GotoSets, CarryKeeps DEF RuntimeBegins
  <2>2. run.external \/ exe = CurrentCompiler
    BY <1>6 DEF RuntimeBegins, CompilerInv
  <2> QED BY <2>1, <2>2 DEF CompilerInv, At, Recorded, None, Empty, Listed
<1>7. CASE BootstrapBegins
  <2>1. compilerStamp' = Empty /\ (Goto("mirror") \/ Goto("copy"))
    BY <1>7 DEF BootstrapBegins
  <2> QED BY <1>2, <2>1, GotoSets
<1>8. CASE MirrorEnds
  <2>1. /\ run'.at = "compile" /\ compilerStamp' = Empty /\ vendor' = vendor
        /\ tree'.released = None
        /\ tree'.files = Mirrored(SourceNames \union tree.manifest)
    <3>1. Goto("compile") /\ Carry /\ compilerStamp' = compilerStamp /\ At("mirror")
      BY <1>8 DEF MirrorEnds
    <3>2. compilerStamp = Empty
      BY <3>1 DEF CompilerInv, At
    <3>3. /\ tree'.released = None
          /\ tree'.files = Mirrored(SourceNames \union tree.manifest)
      BY <1>8 DEF MirrorEnds, FieldsOK
    <3> QED BY <3>1, <3>2, <3>3, GotoSets, CarryKeeps
  <2>2. ManifestComplete
    BY <1>8, Stamps DEF MirrorEnds, HostInv, ManifestInv, ManifestComplete
  <2>3. ASSUME NEW f \in Files
        PROVE  Mirrored(SourceNames \union tree.manifest)[f] = vendor[f]
    <3>1. f \notin SourceNames => vendor[f] = Gone
      BY SourcesListed
    <3>2. f \notin tree.manifest => tree.files[f] = Gone
      BY <2>2 DEF ManifestComplete
    <3> QED BY <3>1, <3>2 DEF Mirrored
  <2>4. Content(CompilerFiles, tree'.files) = Content(CompilerFiles, vendor')
    BY <2>1, <2>3, PartsAssumption DEF Content
  <2> QED BY <2>1, <2>4, Stamps DEF CompilerInv, At, Content, Recorded, None, Empty
<1>9. CASE MirrorFails
  <2>1. compilerStamp' = Empty /\ run'.at = "idle"
    BY <1>9, AbortSets DEF MirrorFails, CompilerInv, At
  <2> QED BY <1>2, <2>1
<1>10. CASE CompileEnds
  <2>1. /\ run'.at = "runtime" /\ CurrentCompiler' = CurrentCompiler
        /\ exe' = NewCompiler /\ compilerStamp' = Revision
    BY <1>10, GotoSets, CarryKeeps DEF CompileEnds
  <2>2. /\ tree.released = None
        /\ Content(CompilerFiles, tree.files) = Content(CompilerFiles, vendor)
        /\ tree.units = Content(HostRtlFiles, vendor)
    BY <1>10, AgreesFromInv DEF CompileEnds, CompilerInv, HostRuntimeAgrees
  <2>3. NewCompiler = CurrentCompiler
    BY <2>2 DEF NewCompiler, CurrentCompiler
  <2> QED BY <2>1, <2>3, RecordedNow DEF CompilerInv, At, Listed
<1>11. CASE CompileFails
  <2>1. compilerStamp' = Empty /\ run'.at = "idle"
    BY <1>11 DEF CompileFails, CompilerInv, At, Start
  <2> QED BY <1>2, <2>1
<1>12. CASE CopyEnds
  <2>1. compilerStamp' = Empty /\ run'.at = "cycle"
    BY <1>12, GotoSets DEF CopyEnds, CompilerInv, At
  <2> QED BY <1>2, <2>1
<1>13. CASE CopyFails \/ CycleFails \/ RetainFails
  <2>1. FullFails("copy") \/ FullFails("cycle") \/ FullFails("retain")
    BY <1>13 DEF CopyFails, CycleFails, RetainFails
  <2>2. compilerStamp = Empty /\ run'.at = "idle"
    BY <2>1, AbortSets DEF FullFails, CompilerInv, At
  <2>3. compilerStamp' = compilerStamp
    BY <1>13 DEF CopyFails, CycleFails, RetainFails
  <2> QED BY <1>2, <2>2, <2>3
<1>14. CASE CycleEnds
  <2>1. compilerStamp' = Empty /\ run'.at = "retain"
    BY <1>14, GotoSets DEF CycleEnds, CompilerInv, At
  <2> QED BY <2>1, Stamps DEF CompilerInv, At, Recorded, None, Empty
<1>15. CASE RetainEnds
  <2>1. /\ run'.at = "runtime" /\ CurrentCompiler' = CurrentCompiler
        /\ exe' = exe /\ compilerStamp' = Revision
    BY <1>15, GotoSets, CarryKeeps DEF RetainEnds
  <2>2. exe = CurrentCompiler
    BY <1>15 DEF RetainEnds, HostInv
  <2> QED BY <2>1, <2>2, RecordedNow DEF CompilerInv, At, Listed
<1> QED
  BY <1>3, <1>4, <1>5, <1>6, <1>7, <1>8, <1>9, <1>10, <1>11, <1>12, <1>13, <1>14, <1>15
     DEF Next

LEMMA RuntimeNow == RuntimeOf(RuntimeRevision) = NewRuntime
<1>1. /\ RuntimeRevision.revision =
            IF target = "switch" THEN source_revision(Files) ELSE Revision
      /\ RuntimeRevision.compiler = Compiler
  BY DEF RuntimeRevision
<1>2. CASE target = "switch"
  BY <1>1, <1>2, ListedNow DEF RuntimeOf, NewRuntime
<1>3. CASE target # "switch"
  BY <1>1, <1>3, ListedNow DEF RuntimeOf, NewRuntime
<1> QED BY <1>2, <1>3

\* Only the runtime's own steps touch its units, and not under a stamp.
LEMMA RuntimeStep == ASSUME FieldsOK, RuntimeInv, Next  PROVE RuntimeInv'
<1>1. CASE UNCHANGED <<runtime, target>> /\ run'.at # "make runtime"
  BY <1>1 DEF RuntimeInv, RuntimeOf, Listed, At, Recorded, None, Empty
<1>2. CASE ~Recorded(runtime'.stamp) /\ run'.at # "make runtime"
  BY <1>2 DEF RuntimeInv, At, Recorded, None, Empty
<1>3. CASE EditSources \/ ReplaceTool \/ StartBuild \/ Sync
  BY <1>1, <1>3, OutsideSets
<1>4. CASE BootstrapSkips \/ CompileEnds \/ MirrorEnds \/ CopyEnds \/ CycleEnds \/ RetainEnds
           \/ BootstrapBegins
  <2>1. UNCHANGED runtime /\ Carry
    BY <1>4 DEF BootstrapSkips, CompileEnds, MirrorEnds, CopyEnds, CycleEnds, RetainEnds,
       BootstrapBegins, treeVars
  <2>2. \/ Goto("runtime") \/ Goto("compile") \/ Goto("cycle") \/ Goto("retain")
        \/ Goto("mirror") \/ Goto("copy")
    BY <1>4 DEF BootstrapSkips, CompileEnds, MirrorEnds, CopyEnds, CycleEnds, RetainEnds,
       BootstrapBegins
  <2>3. run'.at \in {"runtime", "compile", "cycle", "retain", "mirror", "copy"}
    <3>1. \A step : Goto(step) => run'.at = step
      BY GotoSets
    <3> QED BY <2>2, <3>1
  <2> QED BY <1>1, <2>1, <2>3, CarryKeeps
<1>5. CASE MirrorFails \/ CopyFails \/ CycleFails \/ RetainFails \/ CompileFails \/ RuntimeSkips
  <2>1. UNCHANGED <<runtime, target>>
    BY <1>5, CarryKeeps DEF MirrorFails, CopyFails, CycleFails, RetainFails, FullFails, Abort,
       CompileFails, RuntimeSkips, treeVars
  <2>2. run' = Start
    BY <1>5 DEF MirrorFails, CopyFails, CycleFails, RetainFails, FullFails, Abort,
       CompileFails, RuntimeSkips
  <2> QED BY <1>1, <2>1, <2>2 DEF Start
<1>6. CASE RuntimeBegins
  <2>1. runtime'.stamp = Empty
    BY <1>6 DEF RuntimeBegins, FieldsOK
  <2> QED BY <2>1, Stamps DEF RuntimeInv, Recorded, None, Empty
<1>7. CASE RuntimeEnds
  <2>1. runtime'.stamp = RuntimeRevision /\ runtime'.units = NewRuntime
    BY <1>7 DEF RuntimeEnds
  <2>2. target' = target /\ run'.at = "idle"
    BY <1>7, CarryKeeps DEF RuntimeEnds, Start
  <2> QED BY <2>1, <2>2, RuntimeNow DEF RuntimeInv, RuntimeOf, Listed, At
<1>8. CASE RuntimeFails
  <2>1. PICK units : runtime' = [runtime EXCEPT !.units = units]
    BY <1>8 DEF RuntimeFails
  <2>2. runtime.stamp = Empty
    BY <1>8 DEF RuntimeFails, RuntimeInv
  <2>3. runtime'.stamp = Empty
    BY <2>1, <2>2 DEF FieldsOK
  <2>4. run'.at = "idle"
    BY <1>8, AbortSets DEF RuntimeFails
  <2> QED BY <1>2, <2>3, <2>4, Stamps
<1> QED BY <1>3, <1>4, <1>5, <1>6, <1>7, <1>8 DEF Next

\* The inductive invariant of the cache, next to the sync's
CacheInv == FieldsOK /\ HostInv /\ ManifestInv /\ CompilerInv /\ RuntimeInv

LEMMA StutterCache == CacheInv /\ UNCHANGED vars => CacheInv'
<1> SUFFICES ASSUME CacheInv, UNCHANGED vars  PROVE CacheInv'
  OBVIOUS
<1>1. /\ UNCHANGED <<vendor, head, target, tools, tree, exe, buildCompiler, compilerStamp,
                     hostStamp, runtime, run>>
  BY DEF vars, syncVars, cacheVars, treeVars
<1>2. FieldsOK' /\ HostInv'
  BY <1>1 DEF CacheInv, FieldsOK, HostInv, Recorded, Listed, Content, CurrentCompiler,
     HostRevision, source_revision, At, None, Empty
<1>3. ManifestInv'
  BY <1>1 DEF CacheInv, ManifestInv, Recorded, At, None, Empty
<1>4. CompilerInv'
  BY <1>1 DEF CacheInv, CompilerInv, Recorded, Listed, Content, CurrentCompiler, At, None, Empty
<1>5. RuntimeInv'
  BY <1>1 DEF CacheInv, RuntimeInv, RuntimeOf, Recorded, Listed, At, None, Empty
<1> QED BY <1>2, <1>3, <1>4, <1>5 DEF CacheInv

\* A build that succeeds hands over the present compiler and runtime, whichever
\* of bootstrap, incremental compilation and cache made them and whatever was
\* edited, failed or was killed before, but for the two failures that the
\* assumptions name (compiler.py:386-475, switch.py's prepare_runtime).
THEOREM CompilerCurrent ==
    ASSUME "next bootstrap" \notin FailingSteps, "mirror new file" \notin FailingSteps
    PROVE  Spec => CompilerIsCurrent
<1>1. Init => CacheInv
  BY InitCache DEF CacheInv
<1>2. ASSUME CacheInv, IInv, IInv', [Next]_vars  PROVE CacheInv'
  <2>1. CASE Next
    BY <1>2, <2>1, FieldsStep, HostStep, ManifestStep, CompilerStep, RuntimeStep
       DEF IInv, CacheInv
  <2> QED BY <1>2, <2>1, StutterCache
<1>3. Spec => []CacheInv
  BY <1>1, <1>2, SyncHolds, PTL DEF Spec
<1>4. ASSUME CacheInv, Next, outcome # "ok", outcome' = "ok"
      PROVE  (run.external \/ exe = CurrentCompiler) /\ runtime'.units = NewRuntime
  <2>1. RuntimeSkips \/ RuntimeEnds
    BY <1>4 DEF Next, EditSources, ReplaceTool, StartBuild, Sync, BootstrapSkips, BootstrapBegins,
       MirrorEnds, MirrorFails, CompileEnds, CompileFails, CopyEnds, CopyFails, CycleEnds,
       CycleFails, RetainEnds, RetainFails, FullFails, RuntimeBegins, RuntimeFails, Abort
  <2>2. run.external \/ exe = CurrentCompiler
    BY <1>4, <2>1 DEF CacheInv, CompilerInv, RuntimeSkips, RuntimeEnds
  <2>3. CASE RuntimeSkips
    <3>1. runtime' = runtime /\ runtime.stamp = RuntimeRevision
      BY <2>3 DEF RuntimeSkips, RuntimeIsUpToDate, treeVars
    <3>2. runtime.units = RuntimeOf(RuntimeRevision)
      BY <1>4, <3>1, Stamps DEF CacheInv, RuntimeInv
    <3> QED BY <2>2, <3>1, <3>2, RuntimeNow
  <2>4. CASE RuntimeEnds
    BY <2>2, <2>4 DEF RuntimeEnds
  <2> QED BY <2>1, <2>3, <2>4
<1>5. CacheInv /\ [Next]_vars =>
        [outcome # "ok" /\ outcome' = "ok" =>
            /\ run.external \/ exe = CurrentCompiler
            /\ runtime'.units = NewRuntime]_vars
  BY <1>4
<1> QED BY <1>3, <1>5, PTL DEF Spec, CompilerIsCurrent

==============================================================================
