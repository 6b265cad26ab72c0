------------------------- MODULE NativeBuildProofs -------------------------
(***************************************************************************)
(* Proofs about NativeBuild for any recipes, compiler paths, changes and   *)
(* failures: the codec's sources are whole; what a successful build        *)
(* delivers was made from the present inputs, and is not made again; and,  *)
(* if no clean build fails, the objects of every CMake project are those   *)
(* of the present tools.                                                   *)
(***************************************************************************)
EXTENDS NativeBuild, TLAPS

\* The records have their fields.
FieldsOK ==
    /\ run = [stage |-> run.stage, at |-> run.at, rebuild |-> run.rebuild,
              clean |-> run.clean, old |-> run.old]
    /\ source = [files |-> source.files, complete |-> source.complete]
    /\ project = [p \in Projects |->
                     [stamp |-> project[p].stamp, cache |-> project[p].cache,
                      objects |-> project[p].objects, whole |-> project[p].whole]]

\* A running build is at a step of its stage.
ControlInv ==
    /\ recipe \in Recipes
    /\ ~At("idle") => run.stage \in 1 .. Len(recipe)
    /\ run.at \in {"fetch", "extract", "checkinstall", "install"} => Stage = "codec"
    /\ run.at \in {"decide", "configure", "build"} => Stage \in Projects
    /\ run.at \in {"check", "compile"} => Stage = "adapter"
    /\ run.at \in {"checklink", "link"} => Stage = "link"

\* Only a whole archive is extracted, and only to the end is it complete.
SourceInv ==
    /\ SourcesAreWhole
    /\ At("extract") => archive = "whole" /\ ~source.complete

Cleaning(p) == At("build") /\ Stage = p /\ run.clean

\* A recorded signature names the tools of all objects that are there, but for
\* the time between a configuration that asks for a clean and the clean build.
ToolsInv ==
    \A p \in Projects :
        /\ Recorded(project[p].stamp) =>
              project[p].objects \subseteq {project[p].stamp.tools} \/ Cleaning(p)
        /\ project[p].stamp = Missing => project[p].objects = {} /\ ~project[p].whole
        /\ project[p].whole => project[p].objects # {}

\* A configuration that was not fresh knows the tools of the old objects.
ConfigureInv ==
    At("configure") =>
        /\ project[Stage].stamp = Empty
        /\ ~run.clean => IF Recorded(run.old)
                         THEN project[Stage].objects \subseteq {run.old.tools}
                         ELSE project[Stage].objects = {}

\* A build starts with the signature of the cache it uses.
BuildInv ==
    At("build") =>
        /\ Recorded(project[Stage].stamp)
        /\ project[Stage].stamp.tools = ToolStates(project[Stage].cache)

Good(p) == project[p].objects = {ToolStates(project[p].cache)}

Built(p) == \/ \E i \in 1 .. (run.stage - 1) : recipe[i] = p
            \/ p = "codec" /\ run.at \in {"checkinstall", "install"}

\* The projects that the running build has done with are as they should be.
DoneInv ==
    ~At("idle") =>
        \A p \in Projects :
            Built(p) /\ ~(run.at \in {"configure", "build"} /\ p = Stage) => Good(p)

-----------------------------------------------------------------------------
(* Steps by what they do to the projects and to the course of a build *)

LEMMA Stamps ==
    /\ ~Recorded(Missing) /\ ~Recorded(Empty) /\ Missing # Empty
    /\ \A cache : Recorded(ConfigureSignature(cache))
<1>1. Missing.file = "missing" /\ Empty.file = "empty"
  BY DEF Missing, Empty
<1>2. DOMAIN Missing = {"file"} /\ DOMAIN Empty = {"file"}
  BY DEF Missing, Empty
<1>3. ASSUME NEW cache  PROVE "tools" \in DOMAIN ConfigureSignature(cache)
  BY DEF ConfigureSignature
<1> QED BY <1>1, <1>2, <1>3 DEF Recorded

LEMMA GotoSets ==
    ASSUME FieldsOK, NEW step, Goto(step)
    PROVE  /\ run'.at = step /\ run'.stage = run.stage
           /\ outcome' = outcome
BY DEF FieldsOK, Goto

LEMMA Entries ==
    \A s \in Stages : \/ s = "codec" /\ Entry(s) = "fetch"
                      \/ s = "okgf" /\ Entry(s) = "decide"
                      \/ s = "adapter" /\ Entry(s) = "check"
                      \/ s = "link" /\ Entry(s) = "checklink"
BY DEF Stages, Projects, Entry

LEMMA RecipeStages ==
    ASSUME ControlInv, NEW i \in 1 .. Len(recipe)  PROVE recipe[i] \in Stages
BY RecipesAssumption DEF ControlInv

LEMMA AdvanceSets ==
    ASSUME FieldsOK, ControlInv, ~At("idle"), Advance
    PROVE  \/ /\ run.stage + 1 \in 1 .. Len(recipe)
              /\ run'.stage = run.stage + 1 /\ run'.at = Entry(recipe[run.stage + 1])
              /\ outcome' = outcome
           \/ run.stage = Len(recipe) /\ run' = Idle /\ outcome' = "ok"
<1>1. Len(recipe) \in Nat /\ run.stage \in 1 .. Len(recipe)
  BY RecipesAssumption DEF ControlInv
<1>2. CASE run.stage < Len(recipe)
  <2>1. /\ run' = [run EXCEPT !.stage = @ + 1, !.at = Entry(recipe[run.stage + 1])]
        /\ outcome' = outcome
    BY <1>2 DEF Advance
  <2>2. run'.stage = run.stage + 1 /\ run'.at = Entry(recipe[run.stage + 1])
    BY <2>1 DEF FieldsOK
  <2> QED BY <1>1, <1>2, <2>1, <2>2
<1>3. CASE ~(run.stage < Len(recipe))
  BY <1>1, <1>3 DEF Advance
<1> QED BY <1>2, <1>3

Edits == /\ At("idle") /\ run' = run /\ outcome' = "changed"
         /\ UNCHANGED <<project, recipe>>

Starts == /\ At("idle") /\ run'.stage = 1 /\ run'.at = Entry(recipe[1])
          /\ UNCHANGED <<project, recipe, env>>

Moves == /\ UNCHANGED <<project, recipe, env, outcome>> /\ run'.stage = run.stage
         /\ \/ run.at = "fetch" /\ run'.at \in {"fetch", "extract", "decide"}
            \/ run.at = "extract" /\ run'.at = "decide"
            \/ run.at = "checkinstall" /\ run'.at = "install"
            \/ run.at = "check" /\ run'.at = "compile"
            \/ run.at = "checklink" /\ run'.at = "link"
         /\ run'.at = "extract" => archive' = "whole" /\ ~source'.complete

Passes == /\ UNCHANGED <<project, recipe, env>> /\ Advance
          /\ run.at \in {"checkinstall", "install", "check", "compile", "checklink", "link"}

Breaks == /\ UNCHANGED <<project, recipe>> /\ run' = Idle /\ outcome' = "failed"
          /\ run.at \notin {"build", "idle"}

Configures == ConfigureSkips \/ ConfigureBegins \/ ConfigureEnds \/ ConfigureFails
Builds == BuildEnds \/ BuildFails

LEMMA StepKinds ==
    ASSUME FieldsOK, Next
    PROVE  Edits \/ Starts \/ Moves \/ Passes \/ Breaks \/ Configures \/ Builds
<1>1. CASE ChangeEnvironment \/ EditAdapter \/ LoseOutput
  BY <1>1 DEF ChangeEnvironment, EditAdapter, LoseOutput, Edited, Edits
<1>2. CASE StartBuild
  <2>1. PICK rebuild \in BOOLEAN :
           run' = [Idle EXCEPT !.stage = 1, !.at = Entry(recipe[1]), !.rebuild = rebuild]
    BY <1>2 DEF StartBuild
  <2>2. run'.stage = 1 /\ run'.at = Entry(recipe[1])
    BY <2>1 DEF Idle
  <2> QED BY <1>2, <2>2 DEF StartBuild, Carry, Starts
<1>3. CASE Download
  BY <1>3 DEF Download, Moves, At
<1>4. CASE SourceReady \/ ChecksumPasses \/ Extract
  <2>1. UNCHANGED <<project, recipe, env>>
    BY <1>4 DEF SourceReady, ChecksumPasses, Extract, Carry
  <2>2. \/ run.at = "fetch" /\ Goto("decide")
        \/ run.at = "fetch" /\ Goto("extract") /\ ChecksumPasses
        \/ run.at = "extract" /\ Goto("decide")
    BY <1>4 DEF SourceReady, ChecksumPasses, Extract, At
  <2>3. ChecksumPasses => archive' = "whole" /\ ~source'.complete
    BY DEF ChecksumPasses, FieldsOK
  <2>4. run'.stage = run.stage /\ outcome' = outcome
    BY <2>2, GotoSets
  <2>5. \/ run.at = "fetch" /\ run'.at = "decide"
        \/ run.at = "fetch" /\ run'.at = "extract" /\ archive' = "whole" /\ ~source'.complete
        \/ run.at = "extract" /\ run'.at = "decide"
    BY <2>2, <2>3, GotoSets
  <2> QED BY <2>1, <2>4, <2>5 DEF Moves
<1>5. CASE InstallBegins \/ CompileBegins \/ LinkBegins
  <2>1. UNCHANGED <<project, recipe, env>>
    BY <1>5 DEF InstallBegins, CompileBegins, LinkBegins, Carry
  <2>2. \/ run.at = "checkinstall" /\ Goto("install")
        \/ run.at = "check" /\ Goto("compile")
        \/ run.at = "checklink" /\ Goto("link")
    BY <1>5 DEF InstallBegins, CompileBegins, LinkBegins, At
  <2> QED BY <2>1, <2>2, GotoSets DEF Moves
<1>6. CASE InstallSkips \/ InstallEnds \/ CompileSkips \/ CompileEnds \/ LinkSkips \/ LinkEnds
  BY <1>6 DEF InstallSkips, InstallEnds, CompileSkips, CompileEnds, LinkSkips, LinkEnds,
     Passes, Carry, At
<1>7. CASE DownloadFails \/ ExtractFails \/ InstallFails \/ CompileFails \/ LinkFails
  <2>1. Fails("fetch") \/ Fails("extract") \/ Fails("install") \/ Fails("compile") \/ Fails("link")
    BY <1>7 DEF DownloadFails, ExtractFails, InstallFails, CompileFails, LinkFails
  <2>2. UNCHANGED project
    BY <1>7 DEF DownloadFails, ExtractFails, InstallFails, CompileFails, LinkFails
  <2> QED BY <2>1, <2>2 DEF Fails, Abort, At, Breaks
<1>8. CASE ChecksumFails
  BY <1>8 DEF ChecksumFails, Carry, At, Breaks
<1> QED BY <1>1, <1>2, <1>3, <1>4, <1>5, <1>6, <1>7, <1>8 DEF Next, Configures, Builds

-----------------------------------------------------------------------------
(* The records and the course of a build *)

\* What a step does to the project of its stage
Set(stamp, cache, objects, whole) ==
    project' = [p \in Projects |->
        IF p = Stage THEN [stamp |-> stamp, cache |-> cache, objects |-> objects, whole |-> whole]
        ELSE project[p]]

LEMMA SetsThree ==
    ASSUME FieldsOK, Stage \in Projects, NEW stamp, NEW cache, NEW whole,
           project' = [project EXCEPT ![Stage].stamp = stamp, ![Stage].cache = cache,
                                      ![Stage].whole = whole]
    PROVE  Set(stamp, cache, project[Stage].objects, whole)
<1>1. project = [p \in Projects |->
                     [stamp |-> project[p].stamp, cache |-> project[p].cache,
                      objects |-> project[p].objects, whole |-> project[p].whole]]
  BY DEF FieldsOK
<1> DEFINE q == [project EXCEPT ![Stage].stamp = stamp]
           r == [q EXCEPT ![Stage].cache = cache]
<1>2. q = [p \in Projects |->
            IF p = Stage THEN [stamp |-> stamp, cache |-> project[p].cache,
                               objects |-> project[p].objects, whole |-> project[p].whole]
            ELSE project[p]]
  BY <1>1
<1>3. r = [p \in Projects |->
            IF p = Stage THEN [stamp |-> stamp, cache |-> cache,
                               objects |-> project[p].objects, whole |-> project[p].whole]
            ELSE project[p]]
  <2> HIDE DEF q
  <2> QED BY <1>2
<1>4. project' = [r EXCEPT ![Stage].whole = whole]
  OBVIOUS
<1>5. project' = [p \in Projects |->
            IF p = Stage THEN [stamp |-> stamp, cache |-> cache,
                               objects |-> project[p].objects, whole |-> whole]
            ELSE project[p]]
  <2> HIDE DEF r
  <2> QED BY <1>3, <1>4
<1> QED BY <1>5 DEF Set

LEMMA SetsTwo ==
    ASSUME FieldsOK, Stage \in Projects, NEW objects, NEW whole,
           project' = [project EXCEPT ![Stage].objects = objects, ![Stage].whole = whole]
    PROVE  Set(project[Stage].stamp, project[Stage].cache, objects, whole)
<1>1. project = [p \in Projects |->
                     [stamp |-> project[p].stamp, cache |-> project[p].cache,
                      objects |-> project[p].objects, whole |-> project[p].whole]]
  BY DEF FieldsOK
<1> DEFINE q == [project EXCEPT ![Stage].objects = objects]
<1>2. q = [p \in Projects |->
            IF p = Stage THEN [stamp |-> project[p].stamp, cache |-> project[p].cache,
                               objects |-> objects, whole |-> project[p].whole]
            ELSE project[p]]
  BY <1>1
<1>3. project' = [q EXCEPT ![Stage].whole = whole]
  OBVIOUS
<1>4. project' = [p \in Projects |->
            IF p = Stage THEN [stamp |-> project[p].stamp, cache |-> project[p].cache,
                               objects |-> objects, whole |-> whole]
            ELSE project[p]]
  <2> HIDE DEF q
  <2> QED BY <1>2, <1>3
<1> QED BY <1>4 DEF Set

LEMMA SetsCache ==
    ASSUME FieldsOK, Stage \in Projects, NEW stamp, NEW cache,
           project' = [project EXCEPT ![Stage].cache = cache, ![Stage].stamp = stamp]
    PROVE  Set(stamp, cache, project[Stage].objects, project[Stage].whole)
<1>1. project = [p \in Projects |->
                     [stamp |-> project[p].stamp, cache |-> project[p].cache,
                      objects |-> project[p].objects, whole |-> project[p].whole]]
  BY DEF FieldsOK
<1> DEFINE q == [project EXCEPT ![Stage].cache = cache]
<1>2. q = [p \in Projects |->
            IF p = Stage THEN [stamp |-> project[p].stamp, cache |-> cache,
                               objects |-> project[p].objects, whole |-> project[p].whole]
            ELSE project[p]]
  BY <1>1
<1>3. project' = [q EXCEPT ![Stage].stamp = stamp]
  OBVIOUS
<1>4. project' = [p \in Projects |->
            IF p = Stage THEN [stamp |-> stamp, cache |-> cache,
                               objects |-> project[p].objects, whole |-> project[p].whole]
            ELSE project[p]]
  <2> HIDE DEF q
  <2> QED BY <1>2, <1>3
<1> QED BY <1>4 DEF Set

LEMMA ConfigureBeginsSets ==
    ASSUME FieldsOK, ControlInv, ConfigureBegins
    PROVE  \E fresh, whole :
              /\ fresh = Fresh(project[Stage].stamp, project[Stage].cache)
              /\ whole = (project[Stage].whole /\ ~fresh)
              /\ Set(Empty, IF fresh THEN None ELSE project[Stage].cache,
                     project[Stage].objects, whole)
              /\ run' = [run EXCEPT !.at = "configure", !.clean = fresh,
                                    !.old = project[Stage].stamp]
<1> DEFINE fresh == Fresh(project[Stage].stamp, project[Stage].cache)
           whole == project[Stage].whole /\ ~fresh
           cache == IF fresh THEN None ELSE project[Stage].cache
<1>1. Stage \in Projects
  BY DEF ConfigureBegins, ControlInv, At
<1>2. project' = [project EXCEPT ![Stage].stamp = Empty, ![Stage].cache = cache,
                                 ![Stage].whole = whole]
  <2>1. project' = [project EXCEPT ![Stage].stamp = Empty,
                                   ![Stage].cache = IF fresh THEN None ELSE @,
                                   ![Stage].whole = @ /\ ~fresh]
    BY DEF ConfigureBegins
  <2> HIDE DEF fresh
  <2> QED BY <1>1, <2>1 DEF FieldsOK
<1>3. run' = [run EXCEPT !.at = "configure", !.clean = fresh, !.old = project[Stage].stamp]
  BY DEF ConfigureBegins
<1>4. Set(Empty, cache, project[Stage].objects, whole)
  <2> HIDE DEF whole, cache
  <2> QED BY <1>1, <1>2, SetsThree
<1> QED BY <1>3, <1>4

LEMMA BuildEndsSets ==
    ASSUME FieldsOK, ControlInv, BuildEnds
    PROVE  Set(project[Stage].stamp, project[Stage].cache, Objects(project[Stage]), TRUE)
<1>1. Stage \in Projects
  BY DEF BuildEnds, ControlInv, At
<1>2. project' = [project EXCEPT ![Stage].objects = Objects(project[Stage]),
                                 ![Stage].whole = TRUE]
  BY DEF BuildEnds
<1> QED BY <1>1, <1>2, SetsTwo

LEMMA FieldsStep == ASSUME FieldsOK, ControlInv, Next  PROVE FieldsOK'
<1>1. run' = [stage |-> run'.stage, at |-> run'.at, rebuild |-> run'.rebuild,
              clean |-> run'.clean, old |-> run'.old]
  BY DEF FieldsOK, Next, ChangeEnvironment, EditAdapter, LoseOutput, Edited, StartBuild,
     SourceReady, Download, DownloadFails, ChecksumFails, ChecksumPasses, Extract, ExtractFails,
     ConfigureSkips, ConfigureBegins, ConfigureEnds, ConfigureFails, BuildEnds, BuildFails,
     InstallSkips, InstallBegins, InstallEnds, InstallFails, CompileSkips, CompileBegins,
     CompileEnds, CompileFails, LinkSkips, LinkBegins, LinkEnds, LinkFails,
     Fails, Abort, Goto, Advance, Idle
<1>2. source' = [files |-> source'.files, complete |-> source'.complete]
  BY DEF FieldsOK, Next, ChangeEnvironment, EditAdapter, LoseOutput, Edited, StartBuild,
     SourceReady, Download, DownloadFails, ChecksumFails, ChecksumPasses, Extract, ExtractFails,
     ConfigureSkips, ConfigureBegins, ConfigureEnds, ConfigureFails, BuildEnds, BuildFails,
     InstallSkips, InstallBegins, InstallEnds, InstallFails, CompileSkips, CompileBegins,
     CompileEnds, CompileFails, LinkSkips, LinkBegins, LinkEnds, LinkFails
<1>3. project' = [p \in Projects |->
                     [stamp |-> project'[p].stamp, cache |-> project'[p].cache,
                      objects |-> project'[p].objects, whole |-> project'[p].whole]]
  <2>1. CASE UNCHANGED project
    BY <2>1 DEF FieldsOK
  <2>2. CASE ConfigureBegins
    BY <2>2, ConfigureBeginsSets DEF FieldsOK, Set
  <2>3. CASE ConfigureEnds \/ ConfigureFails
    BY <2>3 DEF FieldsOK, ConfigureEnds, ConfigureFails
  <2>4. CASE BuildEnds
    BY <2>4, BuildEndsSets DEF FieldsOK, Set
  <2>5. CASE BuildFails
    BY <2>5 DEF FieldsOK, BuildFails
  <2> QED
    BY <2>1, <2>2, <2>3, <2>4, <2>5, StepKinds
       DEF Edits, Starts, Moves, Passes, Breaks, Configures, Builds, ConfigureSkips
<1> QED BY <1>1, <1>2, <1>3 DEF FieldsOK

LEMMA StageStep ==
    ASSUME ControlInv, recipe' = recipe, run'.stage \in 1 .. Len(recipe),
           run'.at = Entry(recipe[run'.stage])
    PROVE  ControlInv'
<1>1. recipe[run'.stage] \in Stages /\ Stage' = recipe[run'.stage]
  BY RecipeStages DEF Stage
<1>2. recipe \in Recipes
  BY DEF ControlInv
<1> QED BY <1>1, <1>2, Entries DEF ControlInv, At, Projects

LEMMA ControlStep == ASSUME FieldsOK, ControlInv, Next  PROVE ControlInv'
<1>1. CASE Edits
  BY <1>1 DEF Edits, ControlInv, At, Stage
<1>2. CASE Starts
  <2>1. 1 \in 1 .. Len(recipe)
    BY RecipesAssumption DEF ControlInv
  <2> QED BY <1>2, <2>1, StageStep DEF Starts
<1>3. CASE Moves
  <2>1. Stage' = Stage /\ recipe' = recipe /\ run'.stage = run.stage
    BY <1>3 DEF Moves, Stage
  <2> QED BY <1>3, <2>1 DEF Moves, ControlInv, At, Projects
<1>4. CASE Breaks
  BY <1>4 DEF Breaks, ControlInv, At, Idle
<1>5. CASE Advance /\ ~At("idle") /\ recipe' = recipe
  <2>1. CASE run' = Idle
    BY <1>5, <2>1 DEF ControlInv, At, Idle
  <2>2. CASE /\ run'.stage \in 1 .. Len(recipe)
             /\ run'.at = Entry(recipe[run'.stage])
    BY <1>5, <2>2, StageStep
  <2> QED BY <1>5, <2>1, <2>2, AdvanceSets
<1>6. CASE Passes
  BY <1>5, <1>6 DEF Passes, At
<1>7. CASE ConfigureSkips \/ ConfigureBegins \/ ConfigureEnds
  <2>1. run.at \in {"decide", "configure"} /\ recipe' = recipe
    BY <1>7 DEF ConfigureSkips, ConfigureBegins, ConfigureEnds, Carry, At
  <2>2. run'.at \in {"configure", "build"} /\ run'.stage = run.stage
    BY <1>7 DEF ConfigureSkips, ConfigureBegins, ConfigureEnds, FieldsOK
  <2>3. Stage' = Stage
    BY <2>1, <2>2 DEF Stage
  <2> QED BY <2>1, <2>2, <2>3 DEF ControlInv, At
<1>8. CASE ConfigureFails \/ BuildFails
  <2>1. run' = Idle /\ recipe' = recipe
    BY <1>8 DEF ConfigureFails, BuildFails, Fails, Abort
  <2> QED BY <2>1 DEF ControlInv, At, Idle
<1>9. CASE BuildEnds
  <2>1. At("build") /\ recipe' = recipe
    BY <1>9 DEF BuildEnds, Carry
  <2>2. CASE Stage = "codec"
    <3>1. run'.at = "checkinstall" /\ run'.stage = run.stage
      BY <1>9, <2>2, GotoSets DEF BuildEnds
    <3>2. Stage' = Stage
      BY <2>1, <3>1 DEF Stage
    <3> QED BY <2>1, <2>2, <3>1, <3>2 DEF ControlInv, At
  <2>3. CASE Stage # "codec"
    <3>1. Advance
      BY <1>9, <2>3 DEF BuildEnds
    <3> QED BY <1>5, <2>1, <3>1 DEF At
  <2> QED BY <2>2, <2>3
<1> QED BY <1>1, <1>2, <1>3, <1>4, <1>6, <1>7, <1>8, <1>9, StepKinds DEF Configures, Builds

-----------------------------------------------------------------------------
(* The sources *)

LEMMA ConfigureSets ==
    ASSUME FieldsOK, Configures
    PROVE  /\ run.at \in {"decide", "configure"}
           /\ UNCHANGED <<recipe, env>>
           /\ \/ run' = Idle /\ outcome' = "failed"
              \/ /\ run'.stage = run.stage /\ run'.at \in {"configure", "build"}
                 /\ outcome' = outcome
<1>1. CASE ConfigureSkips \/ ConfigureBegins \/ ConfigureEnds
  <2>1. run.at \in {"decide", "configure"} /\ UNCHANGED <<recipe, env, outcome>>
    BY <1>1 DEF ConfigureSkips, ConfigureBegins, ConfigureEnds, Carry, At
  <2>2. run'.stage = run.stage /\ run'.at \in {"configure", "build"}
    BY <1>1 DEF ConfigureSkips, ConfigureBegins, ConfigureEnds, FieldsOK
  <2> QED BY <2>1, <2>2
<1>2. CASE ConfigureFails
  BY <1>2 DEF ConfigureFails, Fails, Abort, At
<1> QED BY <1>1, <1>2 DEF Configures

LEMMA BuildSets ==
    ASSUME FieldsOK, Builds
    PROVE  /\ run.at = "build" /\ UNCHANGED <<recipe, env>>
           /\ \/ BuildFails /\ run' = Idle /\ outcome' = "failed"
              \/ /\ BuildEnds /\ Stage = "codec" /\ run'.stage = run.stage
                 /\ run'.at = "checkinstall" /\ outcome' = outcome
              \/ BuildEnds /\ Stage # "codec" /\ Advance
<1>1. CASE BuildFails
  BY <1>1 DEF BuildFails, Abort, At
<1>2. CASE BuildEnds
  <2>1. run.at = "build" /\ UNCHANGED <<recipe, env>>
    BY <1>2 DEF BuildEnds, Carry, At
  <2>2. IF Stage = "codec" THEN Goto("checkinstall") ELSE Advance
    BY <1>2 DEF BuildEnds
  <2> QED BY <1>2, <2>1, <2>2, GotoSets
<1> QED BY <1>1, <1>2 DEF Builds

\* Where a build is after any step that is not one of its stage's own
LEMMA EntryAt ==
    ASSUME FieldsOK, ControlInv, ~At("idle"), Advance
    PROVE  run'.at \in {"idle", "fetch", "decide", "check", "checklink"}
<1>1. CASE run' = Idle
  BY <1>1 DEF Idle
<1>2. CASE run.stage + 1 \in 1 .. Len(recipe) /\ run'.at = Entry(recipe[run.stage + 1])
  BY <1>2, RecipeStages, Entries
<1> QED BY <1>1, <1>2, AdvanceSets

LEMMA StartAt ==
    ASSUME ControlInv, Starts
    PROVE  run'.at \in {"fetch", "decide", "check", "checklink"}
<1>1. 1 \in 1 .. Len(recipe)
  BY RecipesAssumption DEF ControlInv
<1> QED BY <1>1, RecipeStages, Entries DEF Starts

LEMMA SourceStep == ASSUME FieldsOK, ControlInv, SourceInv, Next  PROVE SourceInv'
<1>1. SourcesAreWhole'
  <2>1. CASE UNCHANGED <<source, archive>>
    BY <2>1 DEF SourceInv, SourcesAreWhole
  <2>2. CASE Download \/ ChecksumPasses
    BY <2>2 DEF Download, ChecksumPasses, FieldsOK, SourcesAreWhole
  <2>3. CASE Extract
    BY <2>3 DEF Extract, SourceInv, SourcesAreWhole
  <2>4. CASE ExtractFails
    <3>1. At("extract") /\ \E files : source' = [source EXCEPT !.files = files]
      BY <2>4 DEF ExtractFails, Fails
    <3>2. ~source'.complete
      BY <3>1 DEF FieldsOK, SourceInv
    <3> QED BY <3>2 DEF SourcesAreWhole
  <2> QED
    BY <2>1, <2>2, <2>3, <2>4
       DEF Next, ChangeEnvironment, EditAdapter, LoseOutput, StartBuild,
           SourceReady, DownloadFails, ChecksumFails,
           ConfigureSkips, ConfigureBegins, ConfigureEnds, ConfigureFails, BuildEnds, BuildFails,
           InstallSkips, InstallBegins, InstallEnds, InstallFails, CompileSkips, CompileBegins,
           CompileEnds, CompileFails, LinkSkips, LinkBegins, LinkEnds, LinkFails
<1>2. run'.at = "extract" => archive' = "whole" /\ ~source'.complete
  <2>1. CASE Edits
    BY <2>1 DEF Edits, At
  <2>2. CASE Starts
    BY <2>2, StartAt
  <2>3. CASE Moves
    BY <2>3 DEF Moves
  <2>4. CASE Passes
    BY <2>4, EntryAt DEF Passes, At
  <2>5. CASE Breaks
    BY <2>5 DEF Breaks, Idle
  <2>6. CASE Configures
    BY <2>6, ConfigureSets DEF Idle
  <2>7. CASE Builds
    BY <2>7, BuildSets, EntryAt DEF Idle, At
  <2> QED BY <2>1, <2>2, <2>3, <2>4, <2>5, <2>6, <2>7, StepKinds
<1> QED BY <1>1, <1>2 DEF SourceInv, At

\* The records, the course of a build and the sources stay as they should be.
THEOREM CourseInductive == Spec => [](FieldsOK /\ ControlInv /\ SourceInv)
<1>1. Init => FieldsOK /\ ControlInv /\ SourceInv
  BY DEF Init, FieldsOK, ControlInv, SourceInv, SourcesAreWhole, Idle, NewProject, At
<1>2. ASSUME FieldsOK, ControlInv, SourceInv, [Next]_vars
      PROVE  FieldsOK' /\ ControlInv' /\ SourceInv'
  <2>1. CASE Next
    BY <1>2, <2>1, FieldsStep, ControlStep, SourceStep
  <2>2. CASE UNCHANGED vars
    BY <1>2, <2>2 DEF vars, FieldsOK, ControlInv, SourceInv, SourcesAreWhole, At, Stage
  <2> QED BY <1>2, <2>1, <2>2
<1> QED BY <1>1, <1>2, PTL DEF Spec

\* The .complete file of a codec means that its sources are all there, whatever
\* failed or was killed before (build_support.py:380-408).
THEOREM Sources == Spec => []SourcesAreWhole
<1>1. SourceInv => SourcesAreWhole
  BY DEF SourceInv
<1> QED BY <1>1, CourseInductive, PTL

-----------------------------------------------------------------------------
(* The objects of the CMake projects *)

LEMMA ConfigureEndsSets ==
    ASSUME FieldsOK, ControlInv, ConfigureEnds
    PROVE  /\ Set(ConfigureSignature(NewCache), NewCache, project[Stage].objects,
                  project[Stage].whole)
           /\ run'.clean = (run.rebuild \/ NeedsClean(run.clean, run.old, NewCache))
<1>1. Stage \in Projects
  BY DEF ConfigureEnds, ControlInv, At
<1>2. project' = [project EXCEPT ![Stage].cache = NewCache,
                                 ![Stage].stamp = ConfigureSignature(NewCache)]
  BY DEF ConfigureEnds
<1>3. Set(ConfigureSignature(NewCache), NewCache, project[Stage].objects, project[Stage].whole)
  BY <1>1, <1>2, SetsCache
<1>4. run'.clean = (run.rebuild \/ NeedsClean(run.clean, run.old, NewCache))
  <2>1. run' = [run EXCEPT !.at = "build", !.old = Missing,
                  !.clean = run.rebuild \/ NeedsClean(@, run.old, NewCache)]
    BY DEF ConfigureEnds
  <2> QED BY <2>1 DEF FieldsOK
<1> QED BY <1>3, <1>4

\* What a build that is not cut short leaves
LEMMA ObjectsBuilt ==
    ASSUME ControlInv, ToolsInv, BuildInv, At("build")
    PROVE  Objects(project[Stage]) = {ToolStates(project[Stage].cache)}
<1>1. Stage \in Projects
  BY DEF ControlInv, At
<1>2. /\ Recorded(project[Stage].stamp)
      /\ project[Stage].stamp.tools = ToolStates(project[Stage].cache)
  BY DEF BuildInv
<1>3. CASE run.clean
  BY <1>3 DEF Objects, Compiles
<1>4. CASE ~run.clean
  <2>1. /\ project[Stage].objects \subseteq {ToolStates(project[Stage].cache)}
        /\ project[Stage].whole => project[Stage].objects # {}
    BY <1>1, <1>2, <1>4 DEF ToolsInv, Cleaning
  <2> QED BY <1>4, <2>1 DEF Objects, Compiles
<1> QED BY <1>3, <1>4

LEMMA SetElsewhere ==
    ASSUME FieldsOK, NEW stamp, NEW cache, NEW objects, NEW whole,
           Set(stamp, cache, objects, whole)
    PROVE  /\ \A p \in Projects \ {Stage} : project'[p] = project[p]
           /\ Stage \in Projects =>
                /\ project'[Stage].stamp = stamp /\ project'[Stage].cache = cache
                /\ project'[Stage].objects = objects /\ project'[Stage].whole = whole
BY DEF Set

LEMMA ToolsStep ==
    ASSUME "cleanbuild" \notin FailingSteps,
           FieldsOK, ControlInv, ToolsInv, ConfigureInv, BuildInv, Next
    PROVE  ToolsInv'
<1>1. CASE UNCHANGED project /\ run.at # "build"
  BY <1>1 DEF ToolsInv, Cleaning, At, Recorded, Missing, Empty
<1>2. CASE Edits \/ Starts \/ Moves \/ Passes \/ Breaks \/ ConfigureSkips
  BY <1>1, <1>2 DEF Edits, Starts, Moves, Passes, Breaks, ConfigureSkips, At
<1>3. CASE ConfigureBegins
  <2>1. Stage \in Projects /\ run.at = "decide"
    BY <1>3 DEF ConfigureBegins, ControlInv, At
  <2>2. PICK fresh, whole :
           /\ whole = (project[Stage].whole /\ ~fresh)
           /\ Set(Empty, IF fresh THEN None ELSE project[Stage].cache,
                  project[Stage].objects, whole)
    BY <1>3, ConfigureBeginsSets
  <2>3. /\ \A p \in Projects \ {Stage} : project'[p] = project[p]
        /\ project'[Stage].stamp = Empty
        /\ project'[Stage].objects = project[Stage].objects
        /\ project'[Stage].whole = whole
    BY <2>1, <2>2, SetElsewhere
  <2>4. ASSUME NEW p \in Projects \ {Stage}
        PROVE  /\ Recorded(project'[p].stamp) => project'[p].objects \subseteq {project'[p].stamp.tools}
               /\ project'[p].stamp = Missing => project'[p].objects = {} /\ ~project'[p].whole
               /\ project'[p].whole => project'[p].objects # {}
    BY <2>1, <2>3, <2>4 DEF ToolsInv, Cleaning, At
  <2>5. /\ ~Recorded(project'[Stage].stamp) /\ project'[Stage].stamp # Missing
        /\ project'[Stage].whole => project'[Stage].objects # {}
    BY <2>1, <2>2, <2>3, Stamps DEF ToolsInv
  <2> QED BY <2>4, <2>5 DEF ToolsInv, Recorded, Missing, Empty
<1>4. CASE ConfigureEnds
  <2>1. Stage \in Projects /\ run.at = "configure" /\ run'.at = "build" /\ Stage' = Stage
    BY <1>4 DEF ConfigureEnds, ControlInv, At, FieldsOK, Stage, Carry
  <2>2. /\ \A p \in Projects \ {Stage} : project'[p] = project[p]
        /\ project'[Stage].stamp = ConfigureSignature(NewCache)
        /\ project'[Stage].objects = project[Stage].objects
        /\ project'[Stage].whole = project[Stage].whole
    BY <1>4, <2>1, ConfigureEndsSets, SetElsewhere
  <2>3. ASSUME NEW p \in Projects \ {Stage}
        PROVE  /\ Recorded(project'[p].stamp) => project'[p].objects \subseteq {project'[p].stamp.tools}
               /\ project'[p].stamp = Missing => project'[p].objects = {} /\ ~project'[p].whole
               /\ project'[p].whole => project'[p].objects # {}
    BY <2>1, <2>2, <2>3 DEF ToolsInv, Cleaning, At
  <2>4. ConfigureSignature(NewCache).tools = ToolStates(NewCache)
    BY DEF ConfigureSignature
  <2>5. ~run'.clean => project[Stage].objects \subseteq {ToolStates(NewCache)}
    <3> SUFFICES ASSUME ~run'.clean  PROVE project[Stage].objects \subseteq {ToolStates(NewCache)}
      OBVIOUS
    <3>1. ~run.clean /\ ~(Recorded(run.old) /\ run.old.tools # ToolStates(NewCache))
      BY <1>4, ConfigureEndsSets DEF NeedsClean
    <3> QED BY <2>1, <3>1 DEF ConfigureInv, At
  <2>6. /\ project'[Stage].objects \subseteq {project'[Stage].stamp.tools} \/ run'.clean
        /\ project'[Stage].stamp # Missing
        /\ project'[Stage].whole => project'[Stage].objects # {}
    BY <2>1, <2>2, <2>4, <2>5, Stamps DEF ToolsInv
  <2> QED BY <2>1, <2>3, <2>6 DEF ToolsInv, Cleaning, At, Recorded, Missing, Empty
<1>5. CASE ConfigureFails
  <2>1. PICK cache : project' = [project EXCEPT ![Stage].cache = cache]
    BY <1>5 DEF ConfigureFails
  <2>2. run.at = "configure"
    BY <1>5 DEF ConfigureFails, Fails, At
  <2>3. \A p \in Projects : /\ project'[p].stamp = project[p].stamp
                            /\ project'[p].objects = project[p].objects
                            /\ project'[p].whole = project[p].whole
    BY <2>1 DEF FieldsOK
  <2> QED BY <2>2, <2>3 DEF ToolsInv, Cleaning, At, Recorded, Missing, Empty
<1>6. CASE BuildEnds
  <2>1. Stage \in Projects /\ At("build")
    BY <1>6 DEF BuildEnds, ControlInv, At
  <2>2. /\ \A p \in Projects \ {Stage} : project'[p] = project[p]
        /\ project'[Stage].stamp = project[Stage].stamp
        /\ project'[Stage].objects = {ToolStates(project[Stage].cache)}
    BY <1>6, <2>1, BuildEndsSets, SetElsewhere, ObjectsBuilt
  <2>3. ASSUME NEW p \in Projects \ {Stage}
        PROVE  /\ Recorded(project'[p].stamp) => project'[p].objects \subseteq {project'[p].stamp.tools}
               /\ project'[p].stamp = Missing => project'[p].objects = {} /\ ~project'[p].whole
               /\ project'[p].whole => project'[p].objects # {}
    BY <2>1, <2>2, <2>3 DEF ToolsInv, Cleaning, At
  <2>4. /\ project'[Stage].objects \subseteq {project'[Stage].stamp.tools}
        /\ project'[Stage].stamp # Missing
        /\ project'[Stage].objects # {}
    BY <2>1, <2>2, Stamps DEF BuildInv
  <2> QED BY <2>3, <2>4 DEF ToolsInv, Recorded, Missing, Empty
<1>7. CASE BuildFails
  <2>1. Stage \in Projects /\ At("build") /\ ~run.clean
    BY <1>7 DEF BuildFails, BuildStep, ControlInv, At
  <2>2. CASE UNCHANGED project
    BY <2>1, <2>2 DEF ToolsInv, Cleaning, At, Recorded, Missing, Empty
  <2>3. ASSUME NEW objects \in {Objects(project[Stage]), project[Stage].objects},
               project' = [project EXCEPT ![Stage].objects = objects, ![Stage].whole = FALSE]
        PROVE  ToolsInv'
    <3>1. /\ \A p \in Projects \ {Stage} : project'[p] = project[p]
          /\ project'[Stage].stamp = project[Stage].stamp
          /\ project'[Stage].objects = objects
          /\ project'[Stage].whole = FALSE
      BY <2>1, <2>3, SetsTwo, SetElsewhere
    <3>2. /\ Recorded(project[Stage].stamp)
          /\ project[Stage].stamp.tools = ToolStates(project[Stage].cache)
      BY <2>1 DEF BuildInv
    <3>3. objects \subseteq {project[Stage].stamp.tools}
      BY <2>1, <3>2, ObjectsBuilt DEF ToolsInv, Cleaning
    <3>4. ASSUME NEW p \in Projects \ {Stage}
          PROVE  /\ Recorded(project'[p].stamp) => project'[p].objects \subseteq {project'[p].stamp.tools}
                 /\ project'[p].stamp = Missing => project'[p].objects = {} /\ ~project'[p].whole
                 /\ project'[p].whole => project'[p].objects # {}
      BY <2>1, <3>1, <3>4 DEF ToolsInv, Cleaning, At
    <3>5. project'[Stage].stamp # Missing
      BY <3>1, <3>2, Stamps
    <3> QED BY <3>1, <3>3, <3>4, <3>5 DEF ToolsInv, Recorded, Missing, Empty
  <2> QED BY <1>7, <2>1, <2>2, <2>3 DEF BuildFails
<1> QED BY <1>2, <1>3, <1>4, <1>5, <1>6, <1>7, StepKinds DEF Configures, Builds

LEMMA ConfigureStep == ASSUME FieldsOK, ControlInv, ToolsInv, Next  PROVE ConfigureInv'
<1> SUFFICES ASSUME run'.at = "configure"  PROVE ConfigureInv'
  BY DEF ConfigureInv, At
<1>1. ConfigureBegins
  <2>1. CASE Edits
    BY <2>1 DEF Edits, At
  <2>2. CASE Starts
    BY <2>2, StartAt
  <2>3. CASE Moves
    BY <2>3 DEF Moves
  <2>4. CASE Passes
    BY <2>4, EntryAt DEF Passes, At
  <2>5. CASE Breaks
    BY <2>5 DEF Breaks, Idle
  <2>6. CASE Builds
    BY <2>6, BuildSets, EntryAt DEF Idle, At
  <2>7. CASE ConfigureSkips \/ ConfigureEnds
    <3>1. run'.at = "build"
      BY <2>7 DEF ConfigureSkips, ConfigureEnds, FieldsOK
    <3> QED BY <3>1
  <2>8. CASE ConfigureFails
    BY <2>8 DEF ConfigureFails, Fails, Abort, Idle
  <2> QED BY <2>1, <2>2, <2>3, <2>4, <2>5, <2>6, <2>7, <2>8, StepKinds DEF Configures
<1>2. Stage \in Projects /\ run.at = "decide" /\ recipe' = recipe
  BY <1>1 DEF ConfigureBegins, ControlInv, At, Carry
<1>3. PICK fresh, whole :
         /\ fresh = Fresh(project[Stage].stamp, project[Stage].cache)
         /\ Set(Empty, IF fresh THEN None ELSE project[Stage].cache,
                project[Stage].objects, whole)
         /\ run' = [run EXCEPT !.at = "configure", !.clean = fresh, !.old = project[Stage].stamp]
  BY <1>1, ConfigureBeginsSets
<1>4. /\ run'.stage = run.stage /\ run'.clean = fresh
      /\ run'.old = project[Stage].stamp
  BY <1>3 DEF FieldsOK
<1>5. Stage' = Stage
  BY <1>2, <1>4 DEF Stage
<1>6. project'[Stage].stamp = Empty /\ project'[Stage].objects = project[Stage].objects
  BY <1>2, <1>3, SetElsewhere
<1>7. ASSUME ~fresh
      PROVE  IF Recorded(project[Stage].stamp)
             THEN project[Stage].objects \subseteq {project[Stage].stamp.tools}
             ELSE project[Stage].objects = {}
  <2>1. CASE Recorded(project[Stage].stamp)
    BY <1>2, <2>1 DEF ToolsInv, Cleaning, At
  <2>2. CASE ~Recorded(project[Stage].stamp)
    <3>1. project[Stage].stamp = Missing
      BY <1>3, <1>7, <2>2 DEF Fresh, UnknownTools, Recorded
    <3> QED BY <1>2, <2>2, <3>1 DEF ToolsInv
  <2> QED BY <2>1, <2>2
<1>8. /\ project'[Stage'].stamp = Empty
      /\ ~run'.clean => IF Recorded(run'.old)
                        THEN project'[Stage'].objects \subseteq {run'.old.tools}
                        ELSE project'[Stage'].objects = {}
  BY <1>4, <1>5, <1>6, <1>7
<1> QED BY <1>8 DEF ConfigureInv, Recorded, Empty, Missing

LEMMA BuildStepInv == ASSUME FieldsOK, ControlInv, Next  PROVE BuildInv'
<1> SUFFICES ASSUME run'.at = "build"  PROVE BuildInv'
  BY DEF BuildInv, At
<1>1. ConfigureSkips \/ ConfigureEnds
  <2>1. CASE Edits
    BY <2>1 DEF Edits, At
  <2>2. CASE Starts
    BY <2>2, StartAt
  <2>3. CASE Moves
    BY <2>3 DEF Moves
  <2>4. CASE Passes
    BY <2>4, EntryAt DEF Passes, At
  <2>5. CASE Breaks
    BY <2>5 DEF Breaks, Idle
  <2>6. CASE Builds
    BY <2>6, BuildSets, EntryAt DEF Idle, At
  <2>7. CASE ConfigureBegins
    <3>1. run'.at = "configure"
      BY <2>7 DEF ConfigureBegins, FieldsOK
    <3> QED BY <3>1
  <2>8. CASE ConfigureFails
    BY <2>8 DEF ConfigureFails, Fails, Abort, Idle
  <2> QED BY <2>1, <2>2, <2>3, <2>4, <2>5, <2>6, <2>7, <2>8, StepKinds DEF Configures
<1>2. Stage \in Projects /\ recipe' = recipe /\ env' = env
  BY <1>1 DEF ConfigureSkips, ConfigureEnds, ControlInv, At, Carry
<1>3. run'.stage = run.stage
  BY <1>1 DEF ConfigureSkips, ConfigureEnds, FieldsOK
<1>4. Stage' = Stage
  BY <1>2, <1>3 DEF Stage
<1>5. PICK cache : /\ project'[Stage].stamp = ConfigureSignature(cache)
                   /\ project'[Stage].cache = cache
  <2>1. CASE ConfigureSkips
    BY <2>1 DEF ConfigureSkips, Matches
  <2>2. CASE ConfigureEnds
    BY <1>2, <2>2, ConfigureEndsSets, SetElsewhere
  <2> QED BY <1>1, <2>1, <2>2
<1>6. ConfigureSignature(cache).tools = ToolStates(cache)
  BY DEF ConfigureSignature
<1>7. ToolStates(cache)' = ToolStates(cache)
  BY <1>2 DEF ToolStates, None
<1>8. /\ Recorded(project'[Stage].stamp)
      /\ project'[Stage].stamp.tools = ToolStates(cache)
  BY <1>5, <1>6, Stamps
<1> QED BY <1>2, <1>4, <1>5, <1>7, <1>8 DEF BuildInv, Recorded, Missing, Empty

-----------------------------------------------------------------------------
(* The projects that a build has done with *)

LEMMA GoodKept ==
    ASSUME UNCHANGED env, NEW p \in Projects, project'[p] = project[p], Good(p)
    PROVE  Good(p)'
BY DEF Good, ToolStates, None

LEMMA AdvanceKeeps ==
    ASSUME FieldsOK, ControlInv, ~At("idle"), Advance, UNCHANGED recipe,
           \A p \in Projects : (\E i \in 1 .. run.stage : recipe[i] = p) => Good(p)'
    PROVE  DoneInv' /\ ObjectsAreCurrent'
<1>1. CASE run' = Idle /\ run.stage = Len(recipe)
  BY <1>1 DEF DoneInv, ObjectsAreCurrent, Has, Good, At, Idle
<1>2. CASE /\ run.stage + 1 \in 1 .. Len(recipe)
           /\ run'.stage = run.stage + 1 /\ run'.at = Entry(recipe[run.stage + 1])
  <2>1. run'.at \in {"fetch", "decide", "check", "checklink"}
    BY <1>2, RecipeStages, Entries
  <2>2. ObjectsAreCurrent'
    BY <2>1 DEF ObjectsAreCurrent, At
  <2>3. run.stage \in Nat
    BY RecipesAssumption DEF ControlInv
  <2>4. 1 .. (run'.stage - 1) = 1 .. run.stage
    BY <1>2, <2>3
  <2>5. ASSUME NEW p \in Projects, Built(p)'  PROVE Good(p)'
    <3>1. \E i \in 1 .. (run'.stage - 1) : recipe'[i] = p
      BY <2>1, <2>5 DEF Built
    <3>2. \E i \in 1 .. run.stage : recipe[i] = p
      BY <2>4, <3>1
    <3> QED BY <3>2
  <2> QED BY <2>2, <2>5 DEF DoneInv
<1> QED BY <1>1, <1>2, AdvanceSets

LEMMA StageDone ==
    ASSUME ControlInv, ~At("idle"),
           NEW p \in Projects, NEW i \in 1 .. run.stage, recipe[i] = p, p # Stage
    PROVE  \E j \in 1 .. (run.stage - 1) : recipe[j] = p
BY RecipesAssumption DEF ControlInv, Stage

LEMMA DoneStep ==
    ASSUME FieldsOK, ControlInv, ToolsInv, BuildInv, DoneInv, Next
    PROVE  DoneInv' /\ ObjectsAreCurrent'
<1>1. CASE Edits
  BY <1>1 DEF Edits, DoneInv, ObjectsAreCurrent, Settled, At
<1>2. CASE Starts
  <2>1. run'.at \in {"fetch", "decide", "check", "checklink"} /\ run'.stage = 1
    BY <1>2, StartAt DEF Starts
  <2> QED BY <2>1 DEF DoneInv, ObjectsAreCurrent, Built, At
<1>3. CASE Moves
  <2>1. ~At("idle") /\ run.at \notin {"configure", "build"}
    BY <1>3 DEF Moves, At
  <2>2. UNCHANGED <<project, recipe, env>> /\ run'.stage = run.stage
    BY <1>3 DEF Moves
  <2>3. run'.at # "idle" /\ (run'.at \in {"checkinstall", "install"} => run.at = "checkinstall")
    BY <1>3 DEF Moves
  <2>4. ASSUME NEW p \in Projects, Built(p)'  PROVE Good(p)'
    <3>1. Built(p)
      BY <2>2, <2>3, <2>4 DEF Built
    <3> QED BY <2>1, <2>2, <3>1, GoodKept DEF DoneInv
  <2> QED BY <2>3, <2>4 DEF DoneInv, ObjectsAreCurrent, At
<1>4. CASE Passes
  <2>1. ~At("idle") /\ run.at \notin {"configure", "build"} /\ Advance
    BY <1>4 DEF Passes, At
  <2>2. UNCHANGED <<project, recipe, env>>
    BY <1>4 DEF Passes
  <2>3. Stage \in Projects => Built(Stage)
    BY <1>4 DEF Passes, ControlInv, Built, Projects
  <2>4. ASSUME NEW p \in Projects, \E i \in 1 .. run.stage : recipe[i] = p  PROVE Good(p)'
    <3>1. Built(p)
      BY <2>1, <2>3, <2>4, StageDone DEF Built
    <3> QED BY <2>1, <2>2, <3>1, GoodKept DEF DoneInv
  <2> QED BY <2>1, <2>2, <2>4, AdvanceKeeps
<1>5. CASE run' = Idle /\ outcome' = "failed"
  BY <1>5 DEF DoneInv, ObjectsAreCurrent, Settled, At, Idle
<1>6. CASE ConfigureSkips \/ ConfigureBegins \/ ConfigureEnds
  <2>1. Stage \in Projects /\ ~At("idle") /\ UNCHANGED <<recipe, env>>
    BY <1>6 DEF ConfigureSkips, ConfigureBegins, ConfigureEnds, ControlInv, At, Carry
  <2>2. run'.stage = run.stage /\ run'.at \in {"configure", "build"}
    BY <1>6 DEF ConfigureSkips, ConfigureBegins, ConfigureEnds, FieldsOK
  <2>3. \A p \in Projects \ {Stage} : project'[p] = project[p]
    <3>1. CASE ConfigureSkips
      BY <3>1 DEF ConfigureSkips
    <3>2. CASE ConfigureBegins
      BY <3>2, ConfigureBeginsSets, SetElsewhere
    <3>3. CASE ConfigureEnds
      BY <3>3, ConfigureEndsSets, SetElsewhere
    <3> QED BY <1>6, <3>1, <3>2, <3>3
  <2>4. Stage' = Stage
    BY <2>1, <2>2 DEF Stage
  <2>5. ASSUME NEW p \in Projects \ {Stage}, Built(p)'  PROVE Good(p)'
    <3>1. Built(p)
      BY <2>1, <2>2, <2>5 DEF Built
    <3>2. Good(p)
      BY <2>1, <2>5, <3>1 DEF DoneInv
    <3> QED BY <2>1, <2>3, <3>2, GoodKept
  <2> QED BY <2>2, <2>4, <2>5 DEF DoneInv, ObjectsAreCurrent, At
<1>7. CASE BuildEnds
  <2>1. Stage \in Projects /\ At("build") /\ ~At("idle") /\ UNCHANGED <<recipe, env>>
    BY <1>7 DEF BuildEnds, ControlInv, At, Carry
  <2>2. /\ \A p \in Projects \ {Stage} : project'[p] = project[p]
        /\ project'[Stage].cache = project[Stage].cache
        /\ project'[Stage].objects = {ToolStates(project[Stage].cache)}
    BY <1>7, <2>1, BuildEndsSets, SetElsewhere, ObjectsBuilt
  <2>3. ASSUME NEW p \in Projects, p = Stage  PROVE Good(p)'
    <3>1. project'[p].cache = project[p].cache /\ env' = env
      BY <2>1, <2>2, <2>3
    <3>2. ToolStates(project[p].cache)' = ToolStates(project[p].cache)
      BY <3>1 DEF ToolStates, None
    <3> QED BY <2>2, <2>3, <3>2 DEF Good
  <2>4. ASSUME NEW p \in Projects,
               p = Stage \/ (\E i \in 1 .. (run.stage - 1) : recipe[i] = p)
        PROVE  Good(p)'
    <3>1. CASE p = Stage
      BY <2>3, <3>1
    <3>2. CASE p # Stage
      BY <2>1, <2>2, <2>4, <3>2, GoodKept DEF DoneInv, Built
    <3> QED BY <3>1, <3>2
  <2>5. CASE Stage = "codec"
    <3>1. run'.stage = run.stage /\ run'.at = "checkinstall"
      BY <1>7, <2>5, GotoSets DEF BuildEnds
    <3>2. ASSUME NEW p \in Projects, Built(p)'  PROVE Good(p)'
      <4>1. (\E i \in 1 .. (run.stage - 1) : recipe[i] = p) \/ p = Stage
        BY <2>1, <2>5, <3>1, <3>2 DEF Built
      <4> QED BY <2>4, <4>1
    <3> QED BY <3>1, <3>2 DEF DoneInv, ObjectsAreCurrent, At
  <2>6. CASE Stage # "codec"
    <3>1. Advance
      BY <1>7, <2>6 DEF BuildEnds
    <3>2. ASSUME NEW p \in Projects, \E i \in 1 .. run.stage : recipe[i] = p  PROVE Good(p)'
      BY <2>1, <2>4, <3>2, StageDone
    <3> QED BY <2>1, <3>1, <3>2, AdvanceKeeps
  <2> QED BY <2>5, <2>6
<1>8. CASE ConfigureFails \/ BuildFails
  BY <1>5, <1>8 DEF ConfigureFails, BuildFails, Fails, Abort
<1> QED
  BY <1>1, <1>2, <1>3, <1>4, <1>5, <1>6, <1>7, <1>8, StepKinds DEF Breaks, Configures, Builds

ObjectsInv ==
    FieldsOK /\ ControlInv /\ ToolsInv /\ ConfigureInv /\ BuildInv /\ DoneInv /\ ObjectsAreCurrent

\* If no clean build fails, the objects of every CMake project of a successful
\* build were compiled by the present compiler and with the present toolchain
\* file, whatever else failed on the way (build_support.py:309-355).
THEOREM CurrentObjects ==
    ASSUME "cleanbuild" \notin FailingSteps
    PROVE  Spec => []ObjectsAreCurrent
<1>1. Init => ObjectsInv
  <2> SUFFICES ASSUME Init  PROVE ObjectsInv
    OBVIOUS
  <2>1. run.at = "idle" /\ outcome # "ok"
    BY DEF Init, Idle
  <2>2. FieldsOK /\ ControlInv
    BY DEF Init, FieldsOK, ControlInv, Idle, NewProject, At
  <2>3. ToolsInv
    BY Stamps DEF Init, ToolsInv, NewProject
  <2> QED
    BY <2>1, <2>2, <2>3
       DEF ObjectsInv, ConfigureInv, BuildInv, DoneInv, ObjectsAreCurrent, Settled, At
<1>2. ASSUME ObjectsInv, [Next]_vars  PROVE ObjectsInv'
  <2>1. CASE Next
    BY <1>2, <2>1, FieldsStep, ControlStep, ToolsStep, ConfigureStep, BuildStepInv, DoneStep
       DEF ObjectsInv
  <2>2. CASE UNCHANGED vars
    <3>1. FieldsOK' /\ ControlInv'
      BY <1>2, <2>2 DEF vars, ObjectsInv, FieldsOK, ControlInv, At, Stage
    <3>2. ToolsInv' /\ ConfigureInv'
      BY <1>2, <2>2 DEF vars, ObjectsInv, ToolsInv, ConfigureInv, Cleaning, At, Stage,
         Recorded, Missing, Empty
    <3>3. BuildInv'
      BY <1>2, <2>2 DEF vars, ObjectsInv, BuildInv, At, Stage, ToolStates, None,
         Recorded, Missing, Empty
    <3>4. DoneInv' /\ ObjectsAreCurrent'
      BY <1>2, <2>2 DEF vars, ObjectsInv, DoneInv, ObjectsAreCurrent, Built, Good, Has,
         Settled, At, Stage, ToolStates, None
    <3> QED BY <3>1, <3>2, <3>3, <3>4 DEF ObjectsInv
  <2> QED BY <1>2, <2>1, <2>2
<1>3. ObjectsInv => ObjectsAreCurrent
  BY DEF ObjectsInv
<1> QED BY <1>1, <1>2, <1>3, PTL DEF Spec

-----------------------------------------------------------------------------
(* What a build delivers is made from the present inputs: the invariants *)

\* The files of the later stages have their fields, and so has the environment.
FilesOK ==
    /\ install = [stamp |-> install.stamp, seen |-> install.seen, prefix |-> install.prefix]
    /\ adapter = [stamp |-> adapter.stamp, object |-> adapter.object,
                  depfile |-> adapter.depfile, seen |-> adapter.seen]
    /\ link = [stamp |-> link.stamp, game |-> link.game, outputs |-> link.outputs,
               seen |-> link.seen]
    /\ env = [driver |-> env.driver, compiler |-> env.compiler, toolchain |-> env.toolchain,
              cmakelists |-> env.cmakelists, adapter |-> env.adapter]

\* A recorded signature tells what was made under it, as long as what it knows
\* by size and times was not written since.
RecordInv ==
    /\ \A p \in Projects : Recorded(project[p].stamp) =>
          project[p].cache = [driver |-> project[p].stamp.driver,
                              cmakelists |-> project[p].stamp.cmakelists]
    /\ install.stamp = Installed /\ install.seen => install.prefix = project["codec"].objects
    /\ Recorded(adapter.stamp) /\ adapter.seen /\ adapter.object # None =>
          adapter.object = [source |-> env.adapter, tools |-> adapter.stamp]
    /\ Recorded(link.stamp) /\ link.seen /\ link.outputs =>
          (adapter.object # None \/ ~Has("adapter") =>
              link.game = [adapter |-> adapter.object, native |-> project["okgf"].objects,
                           tools |-> link.stamp])
    /\ ~Has("adapter") => adapter.object = None

Configured(p) == project[p].cache = NewCache /\ project[p].stamp = ConfigureSignature(NewCache)

\* A step that is running has emptied its stamp, and works on what the steps
\* before it left.
StepInv ==
    /\ At("idle") => run = Idle
    /\ At("configure") => project[Stage].stamp = Empty
    /\ At("build") => Configured(Stage)
    /\ run.at \in {"checkinstall", "install"} => Configured("codec") /\ project["codec"].whole
    /\ At("install") => install.stamp = Empty
    /\ At("compile") => adapter.stamp = Empty
    /\ At("link") => link.stamp = Empty /\ link.seen

\* What a stage delivers is there, made from the present inputs, and known to
\* its stamp.
Fine(s) ==
    /\ s \in Projects => Configured(s) /\ project[s].whole
    /\ s = "codec" => /\ install.stamp = Installed /\ install.seen
                      /\ install.prefix = project["codec"].objects
    /\ s = "adapter" => /\ adapter.stamp = CommandSignature /\ adapter.object = NewObject
                        /\ adapter.depfile /\ adapter.seen
    /\ s = "link" => /\ link.stamp = CommandSignature /\ link.game = LinkInputs
                     /\ link.outputs /\ link.seen

Past(s) == \E i \in 1 .. run.stage - 1 : recipe[i] = s

\* What the running build has passed is as it should be.
DeliveredInv == ~At("idle") => \A s \in Stages : Past(s) /\ Stage # s => Fine(s)

Unchanged == outcome = "ok" /\ ~run.rebuild

\* After a success everything is, until something changes or is rebuilt.
SettledInv == Unchanged => \A s \in Stages : Has(s) => Fine(s)

\* There is then nothing to make and nothing to clean.
RestingInv ==
    Unchanged => /\ run.at \notin {"configure", "install", "compile", "link"}
                 /\ At("build") => ~run.clean

NativeInv == StepInv /\ RecordInv /\ DeliveredInv /\ SettledInv /\ RestingInv

-----------------------------------------------------------------------------
(* Signatures, caches and objects are told from what is missing. *)

LEMMA Distinct ==
    /\ Recorded(CommandSignature) /\ NewCache # None /\ NewObject # None
    /\ Installed # Empty
<1>1. "driver" \in DOMAIN CommandSignature /\ "driver" \in DOMAIN NewCache
  BY DEF CommandSignature, NewCache
<1>2. "source" \in DOMAIN NewObject
  BY DEF NewObject
<1>3. DOMAIN Missing = {"file"} /\ DOMAIN Empty = {"file"} /\ DOMAIN None = {"file"}
  BY DEF Missing, Empty, None
<1>4. Installed.file = "installed" /\ Empty.file = "empty"
  BY DEF Installed, Empty
<1> QED BY <1>1, <1>2, <1>3, <1>4 DEF Recorded

LEMMA LinkIsLast ==
    ASSUME ControlInv, ~At("idle")
    PROVE  ~Past("link") /\ (Stage = "link" => run.stage = Len(recipe))
<1>1. run.stage \in 1 .. Len(recipe) /\ Len(recipe) \in Nat /\ recipe \in Recipes
  BY RecipesAssumption DEF ControlInv
<1>2. \A i \in 1 .. Len(recipe) : recipe[i] = "link" => i = Len(recipe)
  BY <1>1, LinkAssumption
<1> QED BY <1>1, <1>2 DEF Past, Stage

\* The stage of a running build is one of its recipe's.
LEMMA HasStage ==
    ASSUME ControlInv, ~At("idle")
    PROVE  Stage \in Stages /\ Has(Stage) /\ \A s \in Stages : Past(s) => Has(s)
<1>1. run.stage \in 1 .. Len(recipe) /\ Len(recipe) \in Nat /\ recipe \in Recipes
  BY RecipesAssumption DEF ControlInv
<1>2. Stage \in Stages
  BY <1>1, RecipeStages DEF Stage
<1> QED BY <1>1, <1>2 DEF Past, Stage, Has

\* What was changed is kept in its fields.
LEMMA FilesStep == ASSUME FilesOK, Next  PROVE FilesOK'
<1>1. install' = [stamp |-> install'.stamp, seen |-> install'.seen, prefix |-> install'.prefix]
  BY DEF FilesOK, Next, ChangeEnvironment, EditAdapter, LoseOutput, Edited, StartBuild,
     SourceReady, Download, DownloadFails, ChecksumFails, ChecksumPasses, Extract, ExtractFails,
     ConfigureSkips, ConfigureBegins, ConfigureEnds, ConfigureFails, BuildEnds, BuildFails,
     InstallSkips, InstallBegins, InstallEnds, InstallFails, CompileSkips, CompileBegins,
     CompileEnds, CompileFails, LinkSkips, LinkBegins, LinkEnds, LinkFails
<1>2. adapter' = [stamp |-> adapter'.stamp, object |-> adapter'.object,
                  depfile |-> adapter'.depfile, seen |-> adapter'.seen]
  BY DEF FilesOK, Next, ChangeEnvironment, EditAdapter, LoseOutput, Edited, StartBuild,
     SourceReady, Download, DownloadFails, ChecksumFails, ChecksumPasses, Extract, ExtractFails,
     ConfigureSkips, ConfigureBegins, ConfigureEnds, ConfigureFails, BuildEnds, BuildFails,
     InstallSkips, InstallBegins, InstallEnds, InstallFails, CompileSkips, CompileBegins,
     CompileEnds, CompileFails, LinkSkips, LinkBegins, LinkEnds, LinkFails
<1>3. link' = [stamp |-> link'.stamp, game |-> link'.game, outputs |-> link'.outputs,
               seen |-> link'.seen]
  BY DEF FilesOK, Next, ChangeEnvironment, EditAdapter, LoseOutput, Edited, StartBuild,
     SourceReady, Download, DownloadFails, ChecksumFails, ChecksumPasses, Extract, ExtractFails,
     ConfigureSkips, ConfigureBegins, ConfigureEnds, ConfigureFails, BuildEnds, BuildFails,
     InstallSkips, InstallBegins, InstallEnds, InstallFails, CompileSkips, CompileBegins,
     CompileEnds, CompileFails, LinkSkips, LinkBegins, LinkEnds, LinkFails
<1>4. env' = [driver |-> env'.driver, compiler |-> env'.compiler,
              toolchain |-> env'.toolchain, cmakelists |-> env'.cmakelists,
              adapter |-> env'.adapter]
  BY DEF FilesOK, Next, ChangeEnvironment, EditAdapter, LoseOutput, Edited, StartBuild,
     SourceReady, Download, DownloadFails, ChecksumFails, ChecksumPasses, Extract, ExtractFails,
     ConfigureSkips, ConfigureBegins, ConfigureEnds, ConfigureFails, BuildEnds, BuildFails,
     InstallSkips, InstallBegins, InstallEnds, InstallFails, CompileSkips, CompileBegins,
     CompileEnds, CompileFails, LinkSkips, LinkBegins, LinkEnds, LinkFails,
     Fails, Abort, Carry
<1> QED BY <1>1, <1>2, <1>3, <1>4 DEF FilesOK

-----------------------------------------------------------------------------
(* The course of a build and what it has delivered *)

Onwards == /\ run.stage + 1 \in 1 .. Len(recipe) /\ run'.stage = run.stage + 1
           /\ run'.at \in {"fetch", "decide", "check", "checklink"}
           /\ outcome' = outcome /\ run'.rebuild = run.rebuild

Finishes == run.stage = Len(recipe) /\ run' = Idle /\ outcome' = "ok"

LEMMA AdvanceCourse ==
    ASSUME FieldsOK, ControlInv, ~At("idle"), Advance
    PROVE  Onwards \/ Finishes
<1>1. CASE run.stage = Len(recipe) /\ run' = Idle /\ outcome' = "ok"
  BY <1>1 DEF Finishes
<1>2. CASE /\ run.stage + 1 \in 1 .. Len(recipe)
           /\ run'.stage = run.stage + 1 /\ run'.at = Entry(recipe[run.stage + 1])
           /\ outcome' = outcome
  <2>1. run'.at \in {"fetch", "decide", "check", "checklink"}
    BY <1>2, RecipeStages, Entries
  <2>2. run.stage \in Nat /\ Len(recipe) \in Nat /\ run.stage < Len(recipe)
    BY <1>2, RecipesAssumption DEF ControlInv
  <2>3. run' = [run EXCEPT !.stage = @ + 1, !.at = Entry(recipe[run.stage + 1])]
    BY <2>2 DEF Advance
  <2>4. run'.rebuild = run.rebuild
    BY <2>3 DEF FieldsOK
  <2> QED BY <1>2, <2>1, <2>4 DEF Onwards
<1> QED BY <1>1, <1>2, AdvanceSets

\* A stage that leaves all it has passed as it should be hands it on.
LEMMA Delivers ==
    ASSUME FieldsOK, ControlInv, ~At("idle"), Advance, UNCHANGED recipe,
           \A s \in Stages : Past(s) \/ s = Stage => Fine(s)',
           Unchanged => \A s \in Stages : Has(s) => Fine(s)'
    PROVE  StepInv' /\ DeliveredInv' /\ SettledInv' /\ RestingInv'
<1>0. run.stage \in 1 .. Len(recipe) /\ Len(recipe) \in Nat
  BY RecipesAssumption DEF ControlInv
<1>1. CASE Finishes
  <2>1. run'.at = "idle" /\ run' = Idle
    BY <1>1 DEF Finishes, Idle
  <2>2. StepInv' /\ DeliveredInv' /\ RestingInv'
    BY <2>1 DEF StepInv, DeliveredInv, RestingInv, At, Idle
  <2>3. ASSUME NEW s \in Stages, Has(s)'  PROVE Fine(s)'
    <3>1. Past(s) \/ s = Stage
      BY <1>0, <1>1, <2>3 DEF Has, Past, Stage, Finishes
    <3> QED BY <3>1
  <2> QED BY <2>2, <2>3 DEF SettledInv
<1>2. CASE Onwards
  <2>1. StepInv' /\ RestingInv'
    BY <1>2 DEF Onwards, StepInv, RestingInv, At
  <2>2. ASSUME NEW s \in Stages, Past(s)'  PROVE Fine(s)'
    <3>1. Past(s) \/ s = Stage
      BY <1>0, <1>2, <2>2 DEF Past, Stage, Onwards
    <3> QED BY <3>1
  <2>3. ASSUME Unchanged', NEW s \in Stages, Has(s)'  PROVE Fine(s)'
    <3>1. Unchanged
      BY <1>2, <2>3 DEF Unchanged, Onwards
    <3>2. Has(s)
      BY <2>3 DEF Has
    <3> QED BY <3>1, <3>2
  <2> QED BY <2>1, <2>2, <2>3 DEF DeliveredInv, SettledInv
<1> QED BY <1>1, <1>2, AdvanceCourse

\* A step within a stage
Stays == /\ ~At("idle") /\ run'.at # "idle" /\ run'.stage = run.stage
         /\ run'.rebuild = run.rebuild /\ UNCHANGED <<recipe, outcome>>

LEMMA Keeps ==
    ASSUME ControlInv, DeliveredInv, SettledInv, Stays,
           \A s \in Stages \ {Stage} : Past(s) /\ Fine(s) => Fine(s)',
           Unchanged => \A s \in Stages : Fine(s) => Fine(s)'
    PROVE  DeliveredInv' /\ SettledInv'
<1>1. Stage' = Stage /\ \A s \in Stages : (Past(s)' <=> Past(s)) /\ (Has(s)' <=> Has(s))
  BY DEF Stays, Stage, Past, Has
<1>2. Unchanged' <=> Unchanged
  BY DEF Stays, Unchanged
<1>3. ASSUME NEW s \in Stages, Past(s)', Stage' # s  PROVE Fine(s)'
  BY <1>1, <1>3 DEF DeliveredInv, Stays
<1>4. ASSUME Unchanged', NEW s \in Stages, Has(s)'  PROVE Fine(s)'
  BY <1>1, <1>2, <1>4 DEF SettledInv
<1> QED BY <1>3, <1>4 DEF DeliveredInv, SettledInv

\* Nothing of a build that was cut short is counted on.
LEMMA CutShort ==
    ASSUME run' = Idle, outcome' = "failed"
    PROVE  StepInv' /\ DeliveredInv' /\ SettledInv' /\ RestingInv'
<1>1. run'.at = "idle" /\ ~Unchanged'
  BY DEF Idle, Unchanged
<1> QED BY <1>1 DEF StepInv, DeliveredInv, SettledInv, RestingInv, At, Idle

LEMMA FineKept ==
    ASSUME UNCHANGED <<env, project, install, adapter, link>>, NEW s, Fine(s)
    PROVE  Fine(s)'
BY DEF Fine, Configured, NewCache, ConfigureSignature, ToolStates, None, Installed,
   CommandSignature, NewObject, LinkInputs

LEMMA RecordKept ==
    ASSUME RecordInv, env'.adapter = env.adapter,
           UNCHANGED <<recipe, project, install, adapter, link>>
    PROVE  RecordInv'
BY DEF RecordInv, Recorded, Missing, Empty, None, Installed, Has

-----------------------------------------------------------------------------
(* The steps, one by one *)

LEMMA EditsNative ==
    ASSUME FilesOK, NativeInv, ChangeEnvironment \/ EditAdapter \/ LoseOutput
    PROVE  NativeInv'
<1>1. At("idle") /\ run = Idle /\ UNCHANGED <<run, recipe>> /\ outcome' = "changed"
  BY DEF ChangeEnvironment, EditAdapter, LoseOutput, Edited, NativeInv, StepInv
<1>2. StepInv' /\ DeliveredInv' /\ SettledInv' /\ RestingInv'
  <2>1. run'.at = "idle" /\ ~Unchanged'
    BY <1>1 DEF Idle, Unchanged
  <2> QED BY <1>1, <2>1 DEF StepInv, DeliveredInv, SettledInv, RestingInv, At, Idle
<1>3. CASE ChangeEnvironment
  <2>1. env'.adapter = env.adapter
    BY <1>3 DEF ChangeEnvironment, FilesOK
  <2>2. RecordInv'
    BY <1>1, <1>3, <2>1, RecordKept DEF ChangeEnvironment, NativeInv
  <2> QED BY <1>2, <2>2 DEF NativeInv
<1>4. CASE EditAdapter
  <2>1. /\ adapter'.stamp = adapter.stamp /\ adapter'.object = adapter.object
        /\ ~adapter'.seen
    BY <1>4 DEF EditAdapter, FilesOK
  <2>2. UNCHANGED <<project, install, link, recipe>>
    BY <1>1, <1>4 DEF EditAdapter
  <2>3. RecordInv'
    BY <2>1, <2>2 DEF NativeInv, RecordInv, Recorded, Missing, Empty, None, Installed, Has
  <2> QED BY <1>2, <2>3 DEF NativeInv
<1>5. CASE LoseOutput
  <2>1. UNCHANGED <<env, project, install, recipe>>
    BY <1>1, <1>5 DEF LoseOutput
  <2>2. CASE link' = [link EXCEPT !.outputs = FALSE] /\ UNCHANGED adapter
    <3>1. ~link'.outputs
      BY <2>2 DEF FilesOK
    <3> QED
      BY <1>2, <2>1, <2>2, <3>1
         DEF NativeInv, RecordInv, Recorded, Missing, Empty, None, Installed, Has
  <2>3. CASE adapter' = [adapter EXCEPT !.object = None] /\ UNCHANGED link
    <3>1. adapter'.object = None
      BY <2>3 DEF FilesOK
    <3>2. ~Has("adapter") => adapter.object = None
      BY DEF NativeInv, RecordInv
    <3>3. RecordInv'
      BY <2>1, <2>3, <3>1, <3>2
         DEF NativeInv, RecordInv, Recorded, Missing, Empty, None, Installed, Has
    <3> QED BY <1>2, <3>3 DEF NativeInv
  <2>4. CASE adapter' = [adapter EXCEPT !.depfile = FALSE] /\ UNCHANGED link
    <3>1. /\ adapter'.stamp = adapter.stamp /\ adapter'.object = adapter.object
          /\ adapter'.seen = adapter.seen
      BY <2>4 DEF FilesOK
    <3>2. RecordInv'
      BY <2>1, <2>4, <3>1
         DEF NativeInv, RecordInv, Recorded, Missing, Empty, None, Installed, Has
    <3> QED BY <1>2, <3>2 DEF NativeInv
  <2> QED BY <1>5, <2>2, <2>3, <2>4 DEF LoseOutput
<1> QED BY <1>3, <1>4, <1>5

LEMMA StartNative ==
    ASSUME ControlInv, NativeInv, StartBuild
    PROVE  NativeInv'
<1>1. UNCHANGED <<env, recipe, outcome, project, install, adapter, link>>
  BY DEF StartBuild, Carry
<1>2. PICK rebuild \in BOOLEAN :
         run' = [Idle EXCEPT !.stage = 1, !.at = Entry(recipe[1]), !.rebuild = rebuild]
  BY DEF StartBuild
<1>3. run'.stage = 1 /\ run'.at = Entry(recipe[1])
  BY <1>2 DEF Idle
<1>4. run'.at \in {"fetch", "decide", "check", "checklink"}
  <2>1. 1 \in 1 .. Len(recipe)
    BY RecipesAssumption DEF ControlInv
  <2> QED BY <1>3, <2>1, RecipeStages, Entries
<1>5. RecordInv'
  BY <1>1, RecordKept DEF NativeInv
<1>6. StepInv' /\ RestingInv'
  BY <1>4 DEF StepInv, RestingInv, At
<1>7. DeliveredInv'
  BY <1>3 DEF DeliveredInv, Past
<1>8. SettledInv'
  <2>1. run = Idle /\ ~Idle.rebuild
    BY DEF StartBuild, NativeInv, StepInv, Idle
  <2>2. Unchanged' => Unchanged
    BY <1>1, <2>1 DEF Unchanged
  <2>3. ASSUME Unchanged', NEW s \in Stages, Has(s)'  PROVE Fine(s)'
    <3>1. Has(s)
      BY <1>1, <2>3 DEF Has
    <3> QED BY <1>1, <2>2, <2>3, <3>1, FineKept DEF NativeInv, SettledInv
  <2> QED BY <2>3 DEF SettledInv
<1> QED BY <1>5, <1>6, <1>7, <1>8 DEF NativeInv

\* The steps that only fetch and unpack the sources
Fetches == SourceReady \/ Download \/ ChecksumPasses \/ Extract

LEMMA FetchNative ==
    ASSUME FieldsOK, ControlInv, NativeInv, Fetches
    PROVE  NativeInv'
<1>1. UNCHANGED <<env, recipe, outcome, project, install, adapter, link>>
  BY DEF Fetches, SourceReady, Download, ChecksumPasses, Extract, Carry, Goto
<1>2. run.at \in {"fetch", "extract"} /\ run'.at \in {"fetch", "extract", "decide"}
  BY GotoSets DEF Fetches, SourceReady, Download, ChecksumPasses, Extract, At
<1>3. run'.stage = run.stage /\ run'.rebuild = run.rebuild
  BY DEF Fetches, SourceReady, Download, ChecksumPasses, Extract, Goto, FieldsOK
<1>4. Stays
  BY <1>1, <1>2, <1>3 DEF Stays, At
<1>5. DeliveredInv' /\ SettledInv'
  BY <1>1, <1>4, FineKept, Keeps DEF NativeInv
<1>6. StepInv' /\ RestingInv'
  BY <1>2 DEF StepInv, RestingInv, At
<1>7. RecordInv'
  BY <1>1, RecordKept DEF NativeInv
<1> QED BY <1>5, <1>6, <1>7 DEF NativeInv

\* The failures that leave the files of all stages as they are
Stops == DownloadFails \/ ChecksumFails \/ ExtractFails

LEMMA StopsNative ==
    ASSUME NativeInv, Stops
    PROVE  NativeInv'
<1>1. UNCHANGED <<env, recipe, project, install, adapter, link>>
  BY DEF Stops, DownloadFails, ChecksumFails, ExtractFails, Fails, Abort, Carry
<1>2. run' = Idle /\ outcome' = "failed"
  BY DEF Stops, DownloadFails, ChecksumFails, ExtractFails, Fails, Abort
<1> QED BY <1>1, <1>2, RecordKept, CutShort DEF NativeInv

\* A project that is known by its signature was configured as its cache says.
LEMMA KnownCache ==
    ASSUME RecordInv, NEW p \in Projects,
           project[p].stamp = ConfigureSignature(project[p].cache)
    PROVE  Configured(p)
<1>1. Recorded(project[p].stamp)
  BY Stamps
<1>2. project[p].cache = [driver |-> project[p].stamp.driver,
                          cmakelists |-> project[p].stamp.cmakelists]
  BY <1>1 DEF RecordInv
<1>3. project[p].stamp.driver = env.driver /\ project[p].stamp.cmakelists = env.cmakelists
  BY DEF ConfigureSignature
<1>4. project[p].cache = NewCache
  BY <1>2, <1>3 DEF NewCache
<1> QED BY <1>4 DEF Configured

LEMMA ConfigureSkipsNative ==
    ASSUME FieldsOK, ControlInv, NativeInv, ConfigureSkips
    PROVE  NativeInv'
<1>1. UNCHANGED <<env, recipe, outcome, project, install, adapter, link>>
  BY DEF ConfigureSkips, Carry
<1>2. /\ run.at = "decide" /\ run'.at = "build" /\ run'.clean = run.rebuild
      /\ run'.stage = run.stage /\ run'.rebuild = run.rebuild
  BY DEF ConfigureSkips, FieldsOK, At
<1>3. Stage \in Projects /\ Stage' = Stage
  BY <1>1, <1>2 DEF ControlInv, Stage
<1>4. Configured(Stage)'
  <2>1. Configured(Stage)
    BY <1>3, KnownCache DEF ConfigureSkips, Matches, NativeInv
  <2> QED BY <1>1, <1>3, <2>1 DEF Configured, NewCache, ConfigureSignature, ToolStates, None
<1>5. Stays
  BY <1>1, <1>2 DEF Stays, At
<1>6. DeliveredInv' /\ SettledInv'
  BY <1>1, <1>5, FineKept, Keeps DEF NativeInv
<1>7. StepInv'
  BY <1>2, <1>4 DEF StepInv, At
<1>8. RestingInv'
  BY <1>2 DEF RestingInv, Unchanged, At
<1>9. RecordInv'
  BY <1>1, RecordKept DEF NativeInv
<1> QED BY <1>6, <1>7, <1>8, <1>9 DEF NativeInv

\* A change of one project leaves what the other stages deliver.
LEMMA OtherProject ==
    ASSUME UNCHANGED <<env, adapter>>, Stage \in Projects,
           \A p \in Projects \ {Stage} : project'[p] = project[p],
           project'[Stage].objects = project[Stage].objects,
           UNCHANGED link,
           Stage # "codec" => /\ install'.stamp = install.stamp
                              /\ install'.prefix = install.prefix
                              /\ install.seen => install'.seen,
           NEW s \in Stages \ {Stage}, Fine(s)
    PROVE  Fine(s)'
<1>1. \A p \in Projects : project'[p].objects = project[p].objects
  OBVIOUS
<1>2. CASE s \in Projects
  <2>1. project'[s] = project[s]
    BY <1>2
  <2>2. Configured(s)' /\ project'[s].whole
    BY <1>2, <2>1 DEF Fine, Configured, NewCache, ConfigureSignature, ToolStates, None
  <2>3. s = "codec" => /\ install'.stamp = install.stamp
                       /\ install'.prefix = install.prefix
                       /\ install.seen => install'.seen
                       /\ project'["codec"].objects = project["codec"].objects
    BY <1>1 DEF Projects
  <2> QED BY <1>2, <2>2, <2>3 DEF Fine, Projects, Installed
<1>3. CASE s = "adapter"
  BY <1>3 DEF Fine, Projects, CommandSignature, NewObject
<1>4. CASE s = "link"
  <2>1. LinkInputs' = LinkInputs
    BY <1>1 DEF LinkInputs, Projects, CommandSignature
  <2> QED BY <1>4, <2>1 DEF Fine, Projects, CommandSignature
<1> QED BY <1>2, <1>3, <1>4 DEF Stages

LEMMA ConfigureBeginsNative ==
    ASSUME FieldsOK, ControlInv, NativeInv, ConfigureBegins
    PROVE  NativeInv'
<1>1. UNCHANGED <<env, recipe, outcome, install, adapter, link>> /\ run.at = "decide"
  BY DEF ConfigureBegins, Carry, At
<1>2. PICK fresh, whole :
         /\ Set(Empty, IF fresh THEN None ELSE project[Stage].cache,
                project[Stage].objects, whole)
         /\ run' = [run EXCEPT !.at = "configure", !.clean = fresh, !.old = project[Stage].stamp]
  BY ConfigureBeginsSets
<1>3. run'.at = "configure" /\ run'.stage = run.stage /\ run'.rebuild = run.rebuild
  BY <1>2 DEF FieldsOK
<1>4. Stage \in Projects /\ Stage' = Stage
  BY <1>1, <1>3 DEF ControlInv, Stage
<1>5. /\ \A p \in Projects \ {Stage} : project'[p] = project[p]
      /\ project'[Stage].stamp = Empty
      /\ project'[Stage].objects = project[Stage].objects
  BY <1>2, <1>4, SetElsewhere
<1>6. ~Unchanged
  <2> SUFFICES ASSUME Unchanged  PROVE FALSE
    OBVIOUS
  <2>1. Fine(Stage)
    BY <1>1, HasStage DEF NativeInv, SettledInv, At
  <2>2. project[Stage].stamp = ConfigureSignature(project[Stage].cache)
        /\ project[Stage].cache # None
    BY <1>4, <2>1, Distinct DEF Fine, Configured
  <2> QED BY <2>2 DEF ConfigureBegins, Matches
<1>7. Stays
  BY <1>1, <1>3 DEF Stays, At
<1>8. DeliveredInv' /\ SettledInv'
  BY <1>1, <1>4, <1>5, <1>6, <1>7, OtherProject, Keeps DEF NativeInv
<1>9. StepInv'
  BY <1>3, <1>4, <1>5 DEF StepInv, At, Empty
<1>10. RestingInv'
  BY <1>1, <1>3, <1>6 DEF RestingInv, Unchanged
<1>11. RecordInv'
  <2>1. \A p \in Projects : project'[p].objects = project[p].objects
    BY <1>5
  <2>2. ~Recorded(project'[Stage].stamp)
    BY <1>5, Stamps
  <2>3. \A p \in Projects : Recorded(project'[p].stamp) =>
          project'[p].cache = [driver |-> project'[p].stamp.driver,
                               cmakelists |-> project'[p].stamp.cmakelists]
    BY <1>5, <2>2 DEF NativeInv, RecordInv
  <2>4. /\ project'["codec"].objects = project["codec"].objects
        /\ project'["okgf"].objects = project["okgf"].objects
    BY <2>1 DEF Projects
  <2> QED BY <1>1, <2>3, <2>4
             DEF NativeInv, RecordInv, Recorded, Missing, Empty, None, Installed, Has
<1> QED BY <1>8, <1>9, <1>10, <1>11 DEF NativeInv

LEMMA ConfigureEndsNative ==
    ASSUME FieldsOK, FilesOK, ControlInv, NativeInv, ConfigureEnds
    PROVE  NativeInv'
<1>1. UNCHANGED <<env, recipe, outcome, adapter, link>> /\ run.at = "configure"
  BY DEF ConfigureEnds, Carry, At
<1>2. run'.at = "build" /\ run'.stage = run.stage /\ run'.rebuild = run.rebuild
  BY DEF FieldsOK, ConfigureEnds
<1>3. Stage \in Projects /\ Stage' = Stage
  BY <1>1, <1>2 DEF ControlInv, Stage
<1>4. /\ \A p \in Projects \ {Stage} : project'[p] = project[p]
      /\ project'[Stage].stamp = ConfigureSignature(NewCache)
      /\ project'[Stage].cache = NewCache
      /\ project'[Stage].objects = project[Stage].objects
  BY <1>3, ConfigureEndsSets, SetElsewhere
<1>5. /\ install'.stamp = install.stamp /\ install'.prefix = install.prefix
      /\ install'.seen => install.seen
      /\ Stage # "codec" => (install.seen => install'.seen)
  <2>1. install' = [install EXCEPT !.seen = @ /\ Stage # "codec"]
    BY DEF ConfigureEnds
  <2>2. /\ install'.stamp = install.stamp /\ install'.prefix = install.prefix
        /\ install'.seen = (install.seen /\ Stage # "codec")
    BY <2>1 DEF FilesOK
  <2> QED BY <2>2, Zenon
<1>6. ~Unchanged
  BY <1>1 DEF NativeInv, RestingInv
<1>7. Stays
  BY <1>1, <1>2 DEF Stays, At
<1>8. DeliveredInv' /\ SettledInv'
  BY <1>1, <1>3, <1>4, <1>5, <1>6, <1>7, OtherProject, Keeps DEF NativeInv
<1>9. StepInv'
  <2>1. Configured(Stage)'
    BY <1>1, <1>3, <1>4 DEF Configured, NewCache, ConfigureSignature, ToolStates, None
  <2> QED BY <1>2, <2>1 DEF StepInv, At
<1>10. RestingInv'
  BY <1>1, <1>2, <1>6 DEF RestingInv, Unchanged
<1>11. RecordInv'
  <2>1. \A p \in Projects : project'[p].objects = project[p].objects
    BY <1>4
  <2>2. /\ project'["codec"].objects = project["codec"].objects
        /\ project'["okgf"].objects = project["okgf"].objects
    BY <2>1 DEF Projects
  <2>3. NewCache = [driver |-> ConfigureSignature(NewCache).driver,
                    cmakelists |-> ConfigureSignature(NewCache).cmakelists]
    BY DEF NewCache, ConfigureSignature
  <2>4. \A p \in Projects : Recorded(project'[p].stamp) =>
          project'[p].cache = [driver |-> project'[p].stamp.driver,
                               cmakelists |-> project'[p].stamp.cmakelists]
    BY <1>4, <2>3 DEF NativeInv, RecordInv
  <2>5. install'.stamp = Installed /\ install'.seen
           => install'.prefix = project'["codec"].objects
    BY <1>5, <2>2 DEF NativeInv, RecordInv
  <2> QED BY <1>1, <2>2, <2>4, <2>5
             DEF NativeInv, RecordInv, Recorded, Missing, Empty, None, Installed, Has
<1> QED BY <1>8, <1>9, <1>10, <1>11 DEF NativeInv

LEMMA ConfigureFailsNative ==
    ASSUME FieldsOK, ControlInv, NativeInv, ConfigureFails
    PROVE  NativeInv'
<1>1. UNCHANGED <<env, recipe, install, adapter, link>> /\ run.at = "configure"
      /\ run' = Idle /\ outcome' = "failed"
  BY DEF ConfigureFails, Fails, Abort, At
<1>2. Stage \in Projects /\ project[Stage].stamp = Empty
  BY <1>1 DEF ControlInv, NativeInv, StepInv, At
<1>3. PICK cache : project' = [project EXCEPT ![Stage].cache = cache]
  BY DEF ConfigureFails
<1>4. \A p \in Projects : /\ project'[p].stamp = project[p].stamp
                          /\ project'[p].objects = project[p].objects
                          /\ p # Stage => project'[p].cache = project[p].cache
  BY <1>3 DEF FieldsOK
<1>5. \A p \in Projects : Recorded(project'[p].stamp) =>
          project'[p].cache = [driver |-> project'[p].stamp.driver,
                               cmakelists |-> project'[p].stamp.cmakelists]
  BY <1>2, <1>4, Stamps DEF NativeInv, RecordInv
<1>6. /\ project'["codec"].objects = project["codec"].objects
      /\ project'["okgf"].objects = project["okgf"].objects
  BY <1>4 DEF Projects
<1>7. RecordInv'
  BY <1>1, <1>5, <1>6
     DEF NativeInv, RecordInv, Recorded, Missing, Empty, None, Installed, Has
<1> QED BY <1>1, <1>7, CutShort DEF NativeInv

\* What a build leaves, when it is not cut short
LEMMA BuildEndsLeaves ==
    ASSUME FieldsOK, FilesOK, ControlInv, BuildEnds
    PROVE  /\ Stage \in Projects /\ run.at = "build"
           /\ UNCHANGED <<env, recipe, adapter>>
           /\ \A p \in Projects \ {Stage} : project'[p] = project[p]
           /\ project'[Stage].stamp = project[Stage].stamp
           /\ project'[Stage].cache = project[Stage].cache
           /\ project'[Stage].whole
           /\ ~Compiles(project[Stage]) => project'[Stage].objects = project[Stage].objects
           /\ install'.stamp = install.stamp /\ install'.prefix = install.prefix
           /\ install'.seen <=> install.seen /\ ~(Stage = "codec" /\ Compiles(project[Stage]))
           /\ link'.stamp = link.stamp /\ link'.game = link.game
           /\ link'.outputs = link.outputs
           /\ link'.seen <=> link.seen /\ ~(Stage = "okgf" /\ Compiles(project[Stage]))
<1>1. Stage \in Projects /\ run.at = "build" /\ UNCHANGED <<env, recipe, adapter>>
  BY DEF BuildEnds, ControlInv, At, Carry
<1>2. /\ \A p \in Projects \ {Stage} : project'[p] = project[p]
      /\ project'[Stage].stamp = project[Stage].stamp
      /\ project'[Stage].cache = project[Stage].cache
      /\ project'[Stage].objects = Objects(project[Stage])
      /\ project'[Stage].whole = TRUE
  BY <1>1, BuildEndsSets, SetElsewhere
<1>3. ~Compiles(project[Stage]) => Objects(project[Stage]) = project[Stage].objects
  BY DEF Objects, Compiles
<1> DEFINE compiles == Compiles(project[Stage])
<1>4. /\ install'.stamp = install.stamp /\ install'.prefix = install.prefix
      /\ install'.seen <=> install.seen /\ ~(Stage = "codec" /\ compiles)
  <2>1. install' = [install EXCEPT !.seen = @ /\ ~(Stage = "codec" /\ compiles)]
    BY DEF BuildEnds
  <2> HIDE DEF compiles
  <2>2. /\ install'.stamp = install.stamp /\ install'.prefix = install.prefix
        /\ install'.seen = (install.seen /\ ~(Stage = "codec" /\ compiles))
    BY <2>1 DEF FilesOK
  <2> QED BY <2>2, Zenon
<1>5. /\ link'.stamp = link.stamp /\ link'.game = link.game
      /\ link'.outputs = link.outputs
      /\ link'.seen <=> link.seen /\ ~(Stage = "okgf" /\ compiles)
  <2>1. link' = [link EXCEPT !.seen = @ /\ ~(Stage = "okgf" /\ compiles)]
    BY DEF BuildEnds
  <2> HIDE DEF compiles
  <2>2. /\ link'.stamp = link.stamp /\ link'.game = link.game
        /\ link'.outputs = link.outputs
        /\ link'.seen = (link.seen /\ ~(Stage = "okgf" /\ compiles))
    BY <2>1 DEF FilesOK
  <2> QED BY <2>2, Zenon
<1> QED BY <1>1, <1>2, <1>3, <1>4, <1>5

\* It leaves what other stages deliver, but for the game when it compiles.
LEMMA BuildEndsKeeps ==
    ASSUME FieldsOK, FilesOK, ControlInv, BuildEnds, NEW s \in Stages, Fine(s),
           ~Compiles(project[Stage]) \/ s \notin {Stage, "link"}
    PROVE  Fine(s)'
<1>1. CASE s \in Projects
  <2>1. /\ project'[s].stamp = project[s].stamp /\ project'[s].cache = project[s].cache
        /\ project'[s].objects = project[s].objects /\ project'[s].whole
    BY <1>1, BuildEndsLeaves DEF Fine
  <2>2. Configured(s)'
    BY <1>1, <2>1, BuildEndsLeaves
       DEF Fine, Configured, NewCache, ConfigureSignature, ToolStates, None
  <2>3. s = "codec" => /\ install'.stamp = install.stamp /\ install'.prefix = install.prefix
                       /\ install.seen => install'.seen
    BY BuildEndsLeaves
  <2> QED BY <1>1, <2>1, <2>2, <2>3 DEF Fine, Projects, Installed
<1>2. CASE s = "adapter"
  BY <1>2, BuildEndsLeaves DEF Fine, Projects, CommandSignature, NewObject
<1>3. CASE s = "link"
  <2>1. ~Compiles(project[Stage])
    BY <1>3
  <2>2. project'["okgf"].objects = project["okgf"].objects
    BY <2>1, BuildEndsLeaves DEF Projects
  <2>3. LinkInputs' = LinkInputs
    BY <2>2, BuildEndsLeaves DEF LinkInputs, CommandSignature
  <2> QED BY <1>3, <2>1, <2>3, BuildEndsLeaves DEF Fine, Projects, CommandSignature
<1> QED BY <1>1, <1>2, <1>3 DEF Stages

LEMMA BuildEndsNative ==
    ASSUME FieldsOK, FilesOK, ControlInv, NativeInv, BuildEnds
    PROVE  NativeInv'
<1>1. Stage \in Projects /\ run.at = "build" /\ ~At("idle") /\ UNCHANGED <<env, recipe, adapter>>
  BY BuildEndsLeaves DEF At
<1>2. RecordInv'
  <2>1. \A p \in Projects : /\ project'[p].stamp = project[p].stamp
                            /\ project'[p].cache = project[p].cache
    BY BuildEndsLeaves
  <2>2. \A p \in Projects : Recorded(project'[p].stamp) =>
          project'[p].cache = [driver |-> project'[p].stamp.driver,
                               cmakelists |-> project'[p].stamp.cmakelists]
    BY <2>1 DEF NativeInv, RecordInv
  <2>3. /\ install'.seen => project'["codec"].objects = project["codec"].objects
        /\ link'.seen => project'["okgf"].objects = project["okgf"].objects
    BY BuildEndsLeaves DEF Projects
  <2>4. install'.stamp = Installed /\ install'.seen
           => install'.prefix = project'["codec"].objects
    BY <2>3, BuildEndsLeaves DEF NativeInv, RecordInv
  <2>5. Recorded(link'.stamp) /\ link'.seen /\ link'.outputs =>
          (adapter'.object # None \/ ~Has("adapter") =>
              link'.game = [adapter |-> adapter'.object, native |-> project'["okgf"].objects,
                            tools |-> link'.stamp])
    BY <2>3, BuildEndsLeaves DEF NativeInv, RecordInv
  <2> QED BY <1>1, <2>2, <2>4, <2>5
             DEF NativeInv, RecordInv, Recorded, Missing, Empty, None, Installed, Has
<1>3. Unchanged => ~Compiles(project[Stage])
  <2> SUFFICES ASSUME Unchanged  PROVE ~Compiles(project[Stage])
    OBVIOUS
  <2>1. Fine(Stage) /\ ~run.clean
    BY <1>1, HasStage DEF NativeInv, SettledInv, RestingInv, At
  <2> QED BY <1>1, <2>1 DEF Fine, Compiles
<1>4. ASSUME NEW p \in Projects, p = Stage  PROVE Configured(p)' /\ project'[p].whole
  <2>1. Configured(Stage)
    BY <1>1 DEF NativeInv, StepInv, At
  <2> QED BY <1>4, <2>1, BuildEndsLeaves
             DEF Configured, NewCache, ConfigureSignature, ToolStates, None
<1>5. Unchanged => \A s \in Stages : Fine(s) => Fine(s)'
  BY <1>3, BuildEndsKeeps
<1>6. \A s \in Stages \ {Stage} : Past(s) /\ Fine(s) => Fine(s)'
  BY <1>1, LinkIsLast, BuildEndsKeeps
<1>7. CASE Stage = "codec"
  <2>1. Goto("checkinstall")
    BY <1>7 DEF BuildEnds
  <2>2. /\ run'.at = "checkinstall" /\ run'.stage = run.stage /\ run'.rebuild = run.rebuild
        /\ outcome' = outcome
    BY <2>1 DEF Goto, FieldsOK
  <2>3. Stays
    BY <1>1, <2>2 DEF Stays, At
  <2>4. DeliveredInv' /\ SettledInv'
    BY <1>5, <1>6, <2>3, Keeps DEF NativeInv
  <2>5. Configured("codec")' /\ project'["codec"].whole
    BY <1>1, <1>4, <1>7
  <2>6. StepInv' /\ RestingInv'
    BY <2>2, <2>5 DEF StepInv, RestingInv, At
  <2> QED BY <1>2, <2>4, <2>6 DEF NativeInv
<1>8. CASE Stage = "okgf"
  <2>1. Advance
    BY <1>8 DEF BuildEnds
  <2>2. Fine("okgf")'
    BY <1>1, <1>4, <1>8 DEF Fine
  <2>3. \A s \in Stages : Past(s) \/ s = Stage => Fine(s)'
    BY <1>1, <1>6, <1>8, <2>2 DEF NativeInv, DeliveredInv
  <2>4. Unchanged => \A s \in Stages : Has(s) => Fine(s)'
    BY <1>5 DEF NativeInv, SettledInv
  <2> QED BY <1>1, <1>2, <2>1, <2>3, <2>4, Delivers DEF NativeInv
<1> QED BY <1>1, <1>7, <1>8 DEF Projects

LEMMA BuildFailsNative ==
    ASSUME FieldsOK, FilesOK, ControlInv, NativeInv, BuildFails
    PROVE  NativeInv'
<1>1. /\ UNCHANGED <<env, recipe, adapter>> /\ run' = Idle /\ outcome' = "failed"
      /\ Stage \in Projects
  BY DEF BuildFails, Abort, ControlInv, At
<1>2. CASE UNCHANGED <<project, install, link>>
  BY <1>1, <1>2, RecordKept, CutShort DEF NativeInv
<1>3. ASSUME NEW objects,
             project' = [project EXCEPT ![Stage].objects = objects, ![Stage].whole = FALSE],
             install' = [install EXCEPT !.seen = @ /\ Stage # "codec"],
             link' = [link EXCEPT !.seen = @ /\ Stage # "okgf"]
      PROVE  NativeInv'
  <2>1. /\ \A p \in Projects \ {Stage} : project'[p] = project[p]
        /\ project'[Stage].stamp = project[Stage].stamp
        /\ project'[Stage].cache = project[Stage].cache
    BY <1>1, <1>3, SetsTwo, SetElsewhere
  <2>2. /\ install'.stamp = install.stamp /\ install'.prefix = install.prefix
        /\ install'.seen => install.seen /\ Stage # "codec"
    <3>1. /\ install'.stamp = install.stamp /\ install'.prefix = install.prefix
          /\ install'.seen = (install.seen /\ Stage # "codec")
      BY <1>3 DEF FilesOK
    <3> QED BY <3>1, Zenon
  <2>3. /\ link'.stamp = link.stamp /\ link'.game = link.game /\ link'.outputs = link.outputs
        /\ link'.seen => link.seen /\ Stage # "okgf"
    <3>1. /\ link'.stamp = link.stamp /\ link'.game = link.game /\ link'.outputs = link.outputs
          /\ link'.seen = (link.seen /\ Stage # "okgf")
      BY <1>3 DEF FilesOK
    <3> QED BY <3>1, Zenon
  <2>4. \A p \in Projects : Recorded(project'[p].stamp) =>
          project'[p].cache = [driver |-> project'[p].stamp.driver,
                               cmakelists |-> project'[p].stamp.cmakelists]
    BY <2>1 DEF NativeInv, RecordInv
  <2>5. /\ install'.seen => project'["codec"].objects = project["codec"].objects
        /\ link'.seen => project'["okgf"].objects = project["okgf"].objects
    BY <2>1, <2>2, <2>3 DEF Projects
  <2>6. install'.stamp = Installed /\ install'.seen
           => install'.prefix = project'["codec"].objects
    BY <2>2, <2>5 DEF NativeInv, RecordInv
  <2>7. Recorded(link'.stamp) /\ link'.seen /\ link'.outputs =>
          (adapter'.object # None \/ ~Has("adapter") =>
              link'.game = [adapter |-> adapter'.object, native |-> project'["okgf"].objects,
                            tools |-> link'.stamp])
    BY <1>1, <2>3, <2>5 DEF NativeInv, RecordInv
  <2>8. RecordInv'
    BY <1>1, <2>4, <2>6, <2>7
       DEF NativeInv, RecordInv, Recorded, Missing, Empty, None, Installed, Has
  <2> QED BY <1>1, <2>8, CutShort DEF NativeInv
<1> QED BY <1>2, <1>3 DEF BuildFails

\* A step that is skipped, with what it delivers as it should be, hands it on.
LEMMA SkipsNative ==
    ASSUME FieldsOK, ControlInv, NativeInv, ~At("idle"), Advance,
           UNCHANGED <<env, recipe, project, install, adapter, link>>, Fine(Stage)
    PROVE  NativeInv'
<1>1. \A s \in Stages : Past(s) \/ s = Stage => Fine(s)'
  BY FineKept DEF NativeInv, DeliveredInv
<1>2. Unchanged => \A s \in Stages : Has(s) => Fine(s)'
  BY FineKept DEF NativeInv, SettledInv
<1> QED BY <1>1, <1>2, Delivers, RecordKept DEF NativeInv

LEMMA InstallSkipsNative ==
    ASSUME FieldsOK, ControlInv, NativeInv, InstallSkips
    PROVE  NativeInv'
<1>1. UNCHANGED <<env, recipe, project, install, adapter, link>> /\ Advance
  BY DEF InstallSkips, Carry
<1>2. ~At("idle") /\ Stage = "codec"
  BY DEF InstallSkips, ControlInv, At
<1>3. Configured("codec") /\ project["codec"].whole
  BY DEF InstallSkips, NativeInv, StepInv, At
<1>4. install.stamp = Installed /\ install.seen /\ install.prefix = project["codec"].objects
  BY DEF InstallSkips, Matches, NativeInv, RecordInv
<1>5. Fine(Stage)
  BY <1>2, <1>3, <1>4 DEF Fine
<1> QED BY <1>1, <1>2, <1>5, SkipsNative

\* What a step does to the installation concerns no other stage.
LEMMA OtherThanInstall ==
    ASSUME UNCHANGED <<env, project, adapter, link>>,
           NEW s \in Stages \ {"codec"}, Fine(s)
    PROVE  Fine(s)'
BY DEF Fine, Configured, NewCache, ConfigureSignature, ToolStates, None, CommandSignature,
   NewObject, LinkInputs

LEMMA InstallBeginsNative ==
    ASSUME FieldsOK, FilesOK, ControlInv, NativeInv, InstallBegins
    PROVE  NativeInv'
<1>1. UNCHANGED <<env, recipe, project, adapter, link>> /\ run.at = "checkinstall"
  BY DEF InstallBegins, Carry, At
<1>2. /\ run'.at = "install" /\ run'.stage = run.stage /\ run'.rebuild = run.rebuild
      /\ outcome' = outcome
  BY DEF InstallBegins, Goto, FieldsOK
<1>3. Stage = "codec"
  BY <1>1 DEF ControlInv
<1>4. install'.stamp = Empty
  BY DEF InstallBegins, FilesOK
<1>5. ~Unchanged
  <2> SUFFICES ASSUME Unchanged  PROVE FALSE
    OBVIOUS
  <2>1. Fine("codec")
    BY <1>1, <1>3, HasStage DEF NativeInv, SettledInv, At
  <2> QED BY <2>1 DEF Fine, InstallBegins, Matches
<1>6. Stays
  BY <1>1, <1>2 DEF Stays, At
<1>7. DeliveredInv' /\ SettledInv'
  BY <1>1, <1>3, <1>5, <1>6, OtherThanInstall, Keeps DEF NativeInv
<1>8. StepInv'
  <2>1. Configured("codec") /\ project["codec"].whole
    BY <1>1 DEF NativeInv, StepInv
  <2>2. Configured("codec")' /\ project'["codec"].whole
    BY <1>1, <2>1 DEF Configured, NewCache, ConfigureSignature, ToolStates, None
  <2> QED BY <1>2, <1>4, <2>2 DEF StepInv, At, Empty
<1>9. RestingInv'
  BY <1>2, <1>5 DEF RestingInv, Unchanged
<1>10. RecordInv'
  BY <1>1, <1>4, Distinct
     DEF NativeInv, RecordInv, Recorded, Missing, Empty, None, Installed, Has
<1> QED BY <1>7, <1>8, <1>9, <1>10 DEF NativeInv

LEMMA InstallEndsNative ==
    ASSUME FieldsOK, FilesOK, ControlInv, NativeInv, InstallEnds
    PROVE  NativeInv'
<1>1. UNCHANGED <<env, recipe, project, adapter, link>> /\ run.at = "install" /\ ~At("idle")
      /\ Advance
  BY DEF InstallEnds, Carry, At
<1>2. Stage = "codec" /\ ~Unchanged
  BY <1>1 DEF ControlInv, NativeInv, RestingInv
<1>3. install' = [stamp |-> Installed, seen |-> TRUE, prefix |-> project["codec"].objects]
  BY DEF InstallEnds
<1>4. RecordInv'
  BY <1>1, <1>3
     DEF NativeInv, RecordInv, Recorded, Missing, Empty, None, Installed, Has
<1>5. Fine("codec")'
  <2>1. Configured("codec") /\ project["codec"].whole
    BY <1>1 DEF NativeInv, StepInv
  <2>2. Configured("codec")' /\ project'["codec"].whole
    BY <1>1, <2>1 DEF Configured, NewCache, ConfigureSignature, ToolStates, None
  <2> QED BY <1>1, <1>3, <2>2 DEF Fine, Installed
<1>6. \A s \in Stages : Past(s) \/ s = Stage => Fine(s)'
  BY <1>1, <1>2, <1>5, OtherThanInstall DEF NativeInv, DeliveredInv
<1> QED BY <1>1, <1>2, <1>4, <1>6, Delivers DEF NativeInv

LEMMA InstallFailsNative ==
    ASSUME FieldsOK, FilesOK, ControlInv, NativeInv, InstallFails
    PROVE  NativeInv'
<1>1. /\ UNCHANGED <<env, recipe, project, adapter, link>>
      /\ run.at = "install" /\ run' = Idle /\ outcome' = "failed"
  BY DEF InstallFails, Fails, Abort, At
<1>2. install'.stamp = Empty
  BY <1>1 DEF InstallFails, FilesOK, NativeInv, StepInv, At
<1>3. RecordInv'
  BY <1>1, <1>2, Distinct
     DEF NativeInv, RecordInv, Recorded, Missing, Empty, None, Installed, Has
<1> QED BY <1>1, <1>3, CutShort DEF NativeInv

\* What the compilation of the adapter does concerns no stage before the link.
LEMMA OtherThanAdapter ==
    ASSUME UNCHANGED <<env, project, install>>,
           NEW s \in Stages \ {"adapter", "link"}, Fine(s)
    PROVE  Fine(s)'
BY DEF Fine, Stages, Configured, NewCache, ConfigureSignature, ToolStates, None, Installed

LEMMA CompileSkipsNative ==
    ASSUME FieldsOK, ControlInv, NativeInv, CompileSkips
    PROVE  NativeInv'
<1>1. UNCHANGED <<env, recipe, project, install, adapter, link>> /\ Advance
  BY DEF CompileSkips, Carry
<1>2. ~At("idle") /\ Stage = "adapter"
  BY DEF CompileSkips, ControlInv, At
<1>3. /\ adapter.stamp = CommandSignature /\ adapter.depfile /\ adapter.seen
      /\ adapter.object # None
  BY DEF CompileSkips, AdapterIsUpToDate, Matches
<1>4. adapter.object = NewObject
  BY <1>3, Distinct DEF NativeInv, RecordInv, NewObject
<1>5. Fine(Stage)
  BY <1>2, <1>3, <1>4 DEF Fine, Projects
<1> QED BY <1>1, <1>2, <1>5, SkipsNative

LEMMA CompileBeginsNative ==
    ASSUME FieldsOK, FilesOK, ControlInv, NativeInv, CompileBegins
    PROVE  NativeInv'
<1>1. UNCHANGED <<env, recipe, project, install, link>> /\ run.at = "check"
  BY DEF CompileBegins, Carry, At
<1>2. /\ run'.at = "compile" /\ run'.stage = run.stage /\ run'.rebuild = run.rebuild
      /\ outcome' = outcome
  BY DEF CompileBegins, Goto, FieldsOK
<1>3. Stage = "adapter"
  BY <1>1 DEF ControlInv
<1>4. adapter'.stamp = Empty /\ adapter'.object = adapter.object
  BY DEF CompileBegins, FilesOK
<1>5. ~Unchanged
  <2> SUFFICES ASSUME Unchanged  PROVE FALSE
    OBVIOUS
  <2>1. Fine("adapter")
    BY <1>1, <1>3, HasStage DEF NativeInv, SettledInv, At
  <2> QED BY <2>1, Distinct DEF Fine, CompileBegins, AdapterIsUpToDate, Matches, Unchanged
<1>6. Stays
  BY <1>1, <1>2 DEF Stays, At
<1>7. DeliveredInv' /\ SettledInv'
  BY <1>1, <1>3, <1>5, <1>6, LinkIsLast, OtherThanAdapter, Keeps DEF NativeInv, Stays
<1>8. StepInv'
  BY <1>2, <1>4 DEF StepInv, At, Empty
<1>9. RestingInv'
  BY <1>2, <1>5 DEF RestingInv, Unchanged
<1>10. RecordInv'
  <2>1. ~Recorded(adapter'.stamp)
    BY <1>4, Stamps
  <2> QED BY <1>1, <1>4, <2>1
     DEF NativeInv, RecordInv, Recorded, Missing, Empty, None, Installed, Has
<1> QED BY <1>7, <1>8, <1>9, <1>10 DEF NativeInv

LEMMA CompileEndsNative ==
    ASSUME FieldsOK, FilesOK, ControlInv, NativeInv, CompileEnds
    PROVE  NativeInv'
<1>1. UNCHANGED <<env, recipe, project, install>> /\ run.at = "compile" /\ ~At("idle")
      /\ Advance
  BY DEF CompileEnds, Carry, At
<1>2. Stage = "adapter" /\ ~Unchanged
  BY <1>1 DEF ControlInv, NativeInv, RestingInv
<1>3. /\ adapter'.stamp = CommandSignature /\ adapter'.object = NewObject
      /\ adapter'.depfile /\ adapter'.seen
  BY DEF CompileEnds
<1>4. ~link'.seen
  BY DEF CompileEnds, FilesOK
<1>5. Has("adapter")
  BY <1>1, <1>2, HasStage
<1>6. RecordInv'
  <2>1. adapter'.object = [source |-> env'.adapter, tools |-> adapter'.stamp]
    BY <1>1, <1>3 DEF NewObject
  <2> QED BY <1>1, <1>4, <1>5, <2>1
     DEF NativeInv, RecordInv, Recorded, Missing, Empty, None, Installed, Has
<1>7. Fine("adapter")'
  BY <1>1, <1>3 DEF Fine, Projects, CommandSignature, NewObject
<1>8. \A s \in Stages : Past(s) \/ s = Stage => Fine(s)'
  BY <1>1, <1>2, <1>7, LinkIsLast, OtherThanAdapter DEF NativeInv, DeliveredInv
<1> QED BY <1>1, <1>2, <1>6, <1>8, Delivers DEF NativeInv

LEMMA CompileFailsNative ==
    ASSUME FieldsOK, FilesOK, ControlInv, NativeInv, CompileFails
    PROVE  NativeInv'
<1>1. /\ UNCHANGED <<env, recipe, project, install>>
      /\ run.at = "compile" /\ run' = Idle /\ outcome' = "failed"
  BY DEF CompileFails, Fails, Abort, At
<1>2. adapter'.stamp = Empty
  BY <1>1 DEF CompileFails, FilesOK, NativeInv, StepInv, At
<1>3. ~link'.seen
  BY DEF CompileFails, FilesOK
<1>4. Has("adapter")
  BY <1>1, HasStage DEF ControlInv, At
<1>5. RecordInv'
  <2>1. ~Recorded(adapter'.stamp)
    BY <1>2, Stamps
  <2> QED BY <1>1, <1>3, <1>4, <2>1
     DEF NativeInv, RecordInv, Recorded, Missing, Empty, None, Installed, Has
<1> QED BY <1>1, <1>5, CutShort DEF NativeInv

\* What the link does concerns no other stage.
LEMMA OtherThanLink ==
    ASSUME UNCHANGED <<env, project, install, adapter>>,
           NEW s \in Stages \ {"link"}, Fine(s)
    PROVE  Fine(s)'
BY DEF Fine, Stages, Configured, NewCache, ConfigureSignature, ToolStates, None, Installed,
   CommandSignature, NewObject

LEMMA LinkSkipsNative ==
    ASSUME FieldsOK, ControlInv, NativeInv, LinkSkips
    PROVE  NativeInv'
<1>1. UNCHANGED <<env, recipe, project, install, adapter, link>> /\ Advance
  BY DEF LinkSkips, Carry
<1>2. ~At("idle") /\ Stage = "link"
  BY DEF LinkSkips, ControlInv, At
<1>3. link.stamp = CommandSignature /\ link.outputs /\ link.seen
  BY DEF LinkSkips, LinkIsUpToDate, Matches
<1>4. adapter.object # None \/ ~Has("adapter")
  <2> SUFFICES ASSUME Has("adapter")  PROVE adapter.object # None
    OBVIOUS
  <2>1. run.stage = Len(recipe) /\ Len(recipe) \in Nat
    BY <1>2, LinkIsLast, RecipesAssumption DEF ControlInv
  <2>2. Past("adapter")
    BY <1>2, <2>1 DEF Has, Past, Stage
  <2>3. Fine("adapter")
    BY <1>2, <2>2 DEF NativeInv, DeliveredInv, Stages
  <2> QED BY <2>3, Distinct DEF Fine
<1>5. link.game = LinkInputs
  BY <1>3, <1>4, Distinct DEF NativeInv, RecordInv, LinkInputs
<1>6. Fine(Stage)
  BY <1>2, <1>3, <1>5 DEF Fine, Projects
<1> QED BY <1>1, <1>2, <1>6, SkipsNative

LEMMA LinkBeginsNative ==
    ASSUME FieldsOK, FilesOK, ControlInv, NativeInv, LinkBegins
    PROVE  NativeInv'
<1>1. UNCHANGED <<env, recipe, project, install, adapter>> /\ run.at = "checklink"
  BY DEF LinkBegins, Carry, At
<1>2. /\ run'.at = "link" /\ run'.stage = run.stage /\ run'.rebuild = run.rebuild
      /\ outcome' = outcome
  BY DEF LinkBegins, Goto, FieldsOK
<1>3. Stage = "link"
  BY <1>1 DEF ControlInv
<1>4. link'.stamp = Empty /\ link'.seen
  BY DEF LinkBegins, FilesOK
<1>5. ~Unchanged
  <2> SUFFICES ASSUME Unchanged  PROVE FALSE
    OBVIOUS
  <2>1. Fine("link")
    BY <1>1, <1>3, HasStage DEF NativeInv, SettledInv, At
  <2> QED BY <2>1 DEF Fine, LinkBegins, LinkIsUpToDate, Matches, Unchanged
<1>6. Stays
  BY <1>1, <1>2 DEF Stays, At
<1>7. DeliveredInv' /\ SettledInv'
  BY <1>1, <1>3, <1>5, <1>6, OtherThanLink, Keeps DEF NativeInv
<1>8. StepInv'
  BY <1>2, <1>4 DEF StepInv, At, Empty
<1>9. RestingInv'
  BY <1>2, <1>5 DEF RestingInv, Unchanged
<1>10. RecordInv'
  <2>1. ~Recorded(link'.stamp)
    BY <1>4, Stamps
  <2> QED BY <1>1, <2>1
     DEF NativeInv, RecordInv, Recorded, Missing, Empty, None, Installed, Has
<1> QED BY <1>7, <1>8, <1>9, <1>10 DEF NativeInv

LEMMA LinkEndsNative ==
    ASSUME FieldsOK, FilesOK, ControlInv, NativeInv, LinkEnds
    PROVE  NativeInv'
<1>1. UNCHANGED <<env, recipe, project, install, adapter>> /\ run.at = "link" /\ ~At("idle")
      /\ Advance
  BY DEF LinkEnds, Carry, At
<1>2. Stage = "link" /\ ~Unchanged /\ link.seen
  BY <1>1 DEF ControlInv, NativeInv, RestingInv, StepInv, At
<1>3. /\ link'.stamp = CommandSignature /\ link'.game = LinkInputs
      /\ link'.outputs /\ link'.seen
  BY <1>2 DEF LinkEnds, FilesOK
<1>4. RecordInv'
  <2>1. link'.game = [adapter |-> adapter'.object, native |-> project'["okgf"].objects,
                      tools |-> link'.stamp]
    BY <1>1, <1>3 DEF LinkInputs
  <2> QED BY <1>1, <2>1
     DEF NativeInv, RecordInv, Recorded, Missing, Empty, None, Installed, Has
<1>5. Fine("link")'
  BY <1>1, <1>3 DEF Fine, Projects, CommandSignature, LinkInputs
<1>6. \A s \in Stages : Past(s) \/ s = Stage => Fine(s)'
  BY <1>1, <1>2, <1>5, OtherThanLink DEF NativeInv, DeliveredInv
<1> QED BY <1>1, <1>2, <1>4, <1>6, Delivers DEF NativeInv

LEMMA LinkFailsNative ==
    ASSUME FieldsOK, FilesOK, ControlInv, NativeInv, LinkFails
    PROVE  NativeInv'
<1>1. /\ UNCHANGED <<env, recipe, project, install, adapter>>
      /\ run.at = "link" /\ run' = Idle /\ outcome' = "failed"
  BY DEF LinkFails, Fails, Abort, At
<1>2. link'.stamp = Empty
  BY <1>1 DEF LinkFails, FilesOK, NativeInv, StepInv, At
<1>3. RecordInv'
  <2>1. ~Recorded(link'.stamp)
    BY <1>2, Stamps
  <2> QED BY <1>1, <2>1
     DEF NativeInv, RecordInv, Recorded, Missing, Empty, None, Installed, Has
<1> QED BY <1>1, <1>3, CutShort DEF NativeInv

LEMMA NativeStep ==
    ASSUME FieldsOK, FilesOK, ControlInv, NativeInv, Next
    PROVE  NativeInv'
<1>1. CASE ChangeEnvironment \/ EditAdapter \/ LoseOutput
  BY <1>1, EditsNative
<1>2. CASE StartBuild
  BY <1>2, StartNative
<1>3. CASE Fetches \/ Stops
  BY <1>3, FetchNative, StopsNative
<1>4. CASE Configures
  BY <1>4, ConfigureSkipsNative, ConfigureBeginsNative, ConfigureEndsNative,
     ConfigureFailsNative DEF Configures
<1>5. CASE Builds
  BY <1>5, BuildEndsNative, BuildFailsNative DEF Builds
<1>6. CASE InstallSkips \/ InstallBegins \/ InstallEnds \/ InstallFails
  BY <1>6, InstallSkipsNative, InstallBeginsNative, InstallEndsNative, InstallFailsNative
<1>7. CASE CompileSkips \/ CompileBegins \/ CompileEnds \/ CompileFails
  BY <1>7, CompileSkipsNative, CompileBeginsNative, CompileEndsNative, CompileFailsNative
<1>8. CASE LinkSkips \/ LinkBegins \/ LinkEnds \/ LinkFails
  BY <1>8, LinkSkipsNative, LinkBeginsNative, LinkEndsNative, LinkFailsNative
<1> QED
  BY <1>1, <1>2, <1>3, <1>4, <1>5, <1>6, <1>7, <1>8
     DEF Next, Fetches, Stops, Configures, Builds

LEMMA NativeStays ==
    ASSUME FieldsOK, FilesOK, ControlInv, NativeInv, UNCHANGED vars
    PROVE  FilesOK' /\ NativeInv'
<1>1. UNCHANGED <<recipe, env, project, install, adapter, link, run, outcome>>
  BY DEF vars
<1>2. FilesOK'
  BY <1>1 DEF FilesOK
<1>3. Stage' = Stage /\ Unchanged' = Unchanged
  BY <1>1 DEF Stage, Unchanged
<1>4. StepInv'
  BY <1>1 DEF NativeInv, StepInv, At, Idle, Stage, Configured, NewCache, ConfigureSignature,
     ToolStates, None, Empty, Missing
<1>5. DeliveredInv' /\ SettledInv'
  BY <1>1, FineKept DEF NativeInv, DeliveredInv, SettledInv, Unchanged, Past, Has, At, Stage
<1>6. RestingInv'
  BY <1>1 DEF NativeInv, RestingInv, Unchanged, At
<1> QED BY <1>1, <1>2, <1>4, <1>5, <1>6, RecordKept DEF NativeInv

\* What a stamp says was made, and what a build has passed, is there and made
\* from the present inputs, at every step of every build.
THEOREM NativeInductive == Spec => [](FieldsOK /\ FilesOK /\ ControlInv /\ NativeInv)
<1>1. Init => FieldsOK /\ FilesOK /\ ControlInv /\ NativeInv
  <2> SUFFICES ASSUME Init  PROVE FieldsOK /\ FilesOK /\ ControlInv /\ NativeInv
    OBVIOUS
  <2>1. run = Idle /\ run.at = "idle" /\ outcome = "none"
    BY DEF Init, Idle
  <2>2. FieldsOK /\ ControlInv
    BY DEF Init, FieldsOK, ControlInv, Idle, NewProject, At
  <2>3. FilesOK
    BY DEF Init, FilesOK
  <2>4. RecordInv
    BY Stamps DEF Init, RecordInv, NewProject, Installed
  <2>5. StepInv /\ DeliveredInv /\ SettledInv /\ RestingInv
    BY <2>1 DEF StepInv, DeliveredInv, SettledInv, RestingInv, Unchanged, At
  <2> QED BY <2>2, <2>3, <2>4, <2>5 DEF NativeInv
<1>2. ASSUME FieldsOK, FilesOK, ControlInv, NativeInv, [Next]_vars
      PROVE  FieldsOK' /\ FilesOK' /\ ControlInv' /\ NativeInv'
  <2>1. CASE Next
    BY <1>2, <2>1, FieldsStep, FilesStep, ControlStep, NativeStep
  <2>2. CASE UNCHANGED vars
    <3>1. FieldsOK' /\ ControlInv'
      BY <1>2, <2>2 DEF vars, FieldsOK, ControlInv, At, Stage
    <3> QED BY <1>2, <2>2, <3>1, NativeStays
  <2> QED BY <1>2, <2>1, <2>2
<1> QED BY <1>1, <1>2, PTL DEF Spec

\* After a successful build the configurations, the installed codecs, the
\* adapter's object and the linked game were made from the present inputs,
\* whatever was edited, lost, failed or killed before, although each step was
\* skipped or made according to its own stamp (build_support.py:211-515).
THEOREM CurrentNative == Spec => []NativeIsCurrent
<1>1. ControlInv /\ NativeInv => NativeIsCurrent
  <2> SUFFICES ASSUME NativeInv, Settled, At("idle")  PROVE NativeIsCurrent
    BY DEF NativeIsCurrent
  <2>1. run = Idle /\ ~Idle.rebuild
    BY DEF NativeInv, StepInv, Idle
  <2>2. \A s \in Stages : Has(s) => Fine(s)
    BY <2>1 DEF NativeInv, SettledInv, Unchanged, Settled
  <2> QED BY <2>2 DEF NativeIsCurrent, Fine, Configured, Stages, Projects
<1> QED BY <1>1, NativeInductive, PTL

\* Only the beginning of a step that makes something leads to one, and it
\* leaves the outcome and the options of the build.
LEMMA Making ==
    ASSUME FieldsOK, ControlInv, Next,
           run'.at \in {"configure", "install", "compile", "link"}, run'.at # run.at
    PROVE  outcome' = outcome /\ run'.rebuild = run.rebuild
<1>1. CASE ConfigureBegins \/ InstallBegins \/ CompileBegins \/ LinkBegins
  BY <1>1 DEF ConfigureBegins, InstallBegins, CompileBegins, LinkBegins, Goto, FieldsOK
<1>2. CASE ChangeEnvironment \/ EditAdapter \/ LoseOutput \/ Download
  BY <1>2 DEF ChangeEnvironment, EditAdapter, LoseOutput, Edited, Download
<1>3. CASE StartBuild
  <2>1. PICK rebuild \in BOOLEAN :
           run' = [Idle EXCEPT !.stage = 1, !.at = Entry(recipe[1]), !.rebuild = rebuild]
    BY <1>3 DEF StartBuild
  <2>2. run'.at = Entry(recipe[1]) /\ 1 \in 1 .. Len(recipe)
    BY <2>1, RecipesAssumption DEF Idle, ControlInv
  <2> QED BY <2>2, RecipeStages, Entries
<1>4. CASE SourceReady \/ ChecksumPasses \/ Extract
  BY <1>4, GotoSets DEF SourceReady, ChecksumPasses, Extract
<1>5. CASE run' = Idle
  BY <1>5 DEF Idle
<1>6. CASE \/ DownloadFails \/ ChecksumFails \/ ExtractFails \/ ConfigureFails \/ BuildFails
           \/ InstallFails \/ CompileFails \/ LinkFails
  BY <1>5, <1>6 DEF DownloadFails, ChecksumFails, ExtractFails, ConfigureFails, BuildFails,
     InstallFails, CompileFails, LinkFails, Fails, Abort
<1>7. CASE ConfigureSkips \/ ConfigureEnds
  <2>1. run'.at = "build"
    BY <1>7 DEF ConfigureSkips, ConfigureEnds, FieldsOK
  <2> QED BY <2>1
<1>8. CASE BuildEnds
  BY <1>5, <1>8, BuildSets, EntryAt DEF Builds, At
<1>9. CASE InstallSkips \/ InstallEnds \/ CompileSkips \/ CompileEnds \/ LinkSkips \/ LinkEnds
  <2>1. Advance /\ ~At("idle")
    BY <1>9 DEF InstallSkips, InstallEnds, CompileSkips, CompileEnds, LinkSkips, LinkEnds, At
  <2> QED BY <2>1, EntryAt
<1> QED
  BY <1>1, <1>2, <1>3, <1>4, <1>6, <1>7, <1>8, <1>9 DEF Next

\* A build without --rebuild after a successful one, with nothing changed, runs
\* no step but the generators' own check (build_support.py:211-456).
THEOREM NothingTwice == Spec => NothingIsMadeTwice
<1> DEFINE Inv == FieldsOK /\ FilesOK /\ ControlInv /\ NativeInv
           Once == Settled /\ ~run.rebuild /\ run'.at # run.at =>
                      run'.at \notin {"configure", "install", "compile", "link"}
<1>1. ASSUME Inv, Inv', [Next]_vars  PROVE [Once]_vars
  <2> SUFFICES ASSUME Next, Settled, ~run.rebuild, run'.at # run.at,
                      run'.at \in {"configure", "install", "compile", "link"}
               PROVE  FALSE
    BY <1>1
  <2>1. outcome' = outcome /\ run'.rebuild = run.rebuild
    BY <1>1, Making
  <2>2. Unchanged'
    BY <2>1 DEF Unchanged, Settled
  <2> QED BY <1>1, <2>2 DEF NativeInv, RestingInv
<1>2. Spec => []Inv
  BY NativeInductive
<1> HIDE DEF Inv
<1> QED BY <1>1, <1>2, PTL DEF Spec, NothingIsMadeTwice, Once

=============================================================================
