------------------------------ MODULE FpcSync ------------------------------
(***************************************************************************)
(* tools/sync_fpc.py: a local compiler checkout (upstream) is mirrored     *)
(* into the pinned submodule vendor/fpc.  A three-way comparison decides:  *)
(* a vendor file may be written if it is as the last sync left it, or, when *)
(* the sync has no record of it, as in the pinned commit.  The record,     *)
(* .local/fpc-sync.json, is written after the files.                       *)
(*                                                                         *)
(* The developer edits upstream, edits vendor by hand, and commits         *)
(* upstream and moves the pin; a sync may be killed between or in writes.  *)
(***************************************************************************)
EXTENDS Naturals, FiniteSets

CONSTANTS
    Files,          \* the source files
    Pinned,         \* those that the pinned commit has at the start
    HandEdits,      \* whether anybody edits vendor by hand
    MaxVersion,     \* versions of a file
    MaxEdits,       \* edits and changes of the pin
    MaxFailures     \* kills and failures

Gone == 0                   \* no such file
Torn == MaxVersion + 1      \* a write that was cut short
NotSynced == MaxVersion + 2 \* no entry in the record
Versions == 1 .. MaxVersion
Contents == Gone .. Torn

ASSUME FilesAssumption == IsFiniteSet(Files) /\ Pinned \subseteq Files
ASSUME LimitsAssumption ==
    HandEdits \in BOOLEAN /\
    MaxVersion \in Nat \ {0} /\ MaxEdits \in Nat /\ MaxFailures \in Nat

VARIABLES
    upstream,   \* the worktree of the local checkout
    head,       \* the commit that vendor/fpc is pinned to
    vendor,     \* the worktree of vendor/fpc
    synced,     \* .local/fpc-sync.json
    handmade,   \* history: files of vendor that were last written by hand
    sync,       \* the running sync
    edits, failures

syncVars == <<upstream, head, vendor, synced, handmade, sync, edits, failures>>

NoSync == [at |-> "idle", todo |-> {}, data |-> [f \in Files |-> Gone],
           next |-> [f \in Files |-> NotSynced], conflicts |-> {}]

SyncInit ==
    /\ upstream = [f \in Files |-> IF f \in Pinned THEN 1 ELSE Gone]
    /\ head = upstream
    /\ vendor = upstream
    /\ synced = [f \in Files |-> NotSynced]
    /\ handmade = {}
    /\ sync = NoSync
    /\ edits = 0
    /\ failures = 0

---------------------------------------------------------------------------
(* The developer *)

Edited ==
    /\ sync.at = "idle"
    /\ edits < MaxEdits
    /\ edits' = edits + 1
    /\ UNCHANGED <<synced, failures>>
    /\ sync' = NoSync

\* What the sync takes for its own in vendor
Expected(f) == IF synced[f] # NotSynced THEN synced[f] ELSE head[f]

EditUpstream(f, content) ==
    /\ Edited
    /\ content # upstream[f]
    /\ upstream' = [upstream EXCEPT ![f] = content]
    /\ UNCHANGED <<head, vendor, handmade>>

\* Restoring what the pin or the last sync had is not an edit of one's own.
EditVendor(f, content) ==
    /\ HandEdits
    /\ Edited
    /\ content # vendor[f]
    /\ vendor' = [vendor EXCEPT ![f] = content]
    /\ handmade' = IF content \in {head[f], Expected(f)}
                   THEN handmade \ {f} ELSE handmade \union {f}
    /\ UNCHANGED <<upstream, head>>

\* "Commit compiler changes in fpc_sr, then update the vendor pin": the
\* submodule is checked out at the new commit.  Files that neither commit has
\* stay as they are.
UpdatePin ==
    LET tracked == {f \in Files : head[f] # Gone \/ upstream[f] # Gone}
    IN  /\ Edited
        /\ head # upstream
        /\ head' = upstream
        /\ vendor' = [f \in Files |-> IF f \in tracked THEN upstream[f] ELSE vendor[f]]
        /\ handmade' = handmade \ tracked
        /\ UNCHANGED upstream

---------------------------------------------------------------------------
(* sync_fpc *)

\* What differs from the pin upstream or in vendor's tracked files, and what
\* was synced once and is no longer upstream
Names ==
    {f \in Files : \/ upstream[f] # head[f]
                   \/ head[f] # Gone /\ vendor[f] # head[f]
                   \/ synced[f] # NotSynced /\ upstream[f] = Gone}

Changes == {f \in Names : vendor[f] # upstream[f]}

\* Mutant: a file without a record is taken for the pinned one.
ConflictsWithTheRecord ==
    {f \in Changes : synced[f] # NotSynced /\ vendor[f] # Expected(f)}

\* What was changed in vendor since
Conflicts == {f \in Changes : vendor[f] # Expected(f)}

NextState == [f \in Files |-> IF f \in Names THEN upstream[f] ELSE NotSynced]

\* All conflicts are found before the first write.
SyncRefuses ==
    /\ sync.at = "idle" /\ Conflicts # {}
    /\ sync' = [NoSync EXCEPT !.conflicts = Conflicts]
    /\ UNCHANGED <<upstream, head, vendor, synced, handmade, edits, failures>>

SyncBegins ==
    /\ sync.at = "idle" /\ Conflicts = {}
    /\ sync' = [at |-> "writing", todo |-> Changes, data |-> upstream,
                next |-> NextState, conflicts |-> {}]
    /\ UNCHANGED <<upstream, head, vendor, synced, handmade, edits, failures>>

SyncWrites(f) ==
    /\ sync.at = "writing" /\ f \in sync.todo
    /\ vendor' = [vendor EXCEPT ![f] = sync.data[f]]
    /\ sync' = [sync EXCEPT !.todo = @ \ {f}]
    /\ UNCHANGED <<upstream, head, synced, handmade, edits, failures>>

SyncSaves ==
    /\ sync.at = "writing" /\ sync.todo = {}
    /\ synced' = sync.next
    /\ handmade' = {f \in handmade : sync.next[f] = NotSynced}
    /\ sync' = NoSync
    /\ UNCHANGED <<upstream, head, vendor, edits, failures>>

\* Killed between two writes, or in the middle of one
SyncIsKilled ==
    /\ sync.at = "writing"
    /\ failures < MaxFailures
    /\ failures' = failures + 1
    /\ \/ UNCHANGED vendor
       \/ \E f \in sync.todo : vendor' = [vendor EXCEPT ![f] = Torn]
    /\ sync' = NoSync
    /\ UNCHANGED <<upstream, head, synced, handmade, edits>>

SyncNext ==
    \/ \E f \in Files, c \in Versions \union {Gone} : EditUpstream(f, c)
    \/ \E f \in Files, c \in Versions \union {Gone} : EditVendor(f, c)
    \/ UpdatePin
    \/ SyncRefuses \/ SyncBegins \/ SyncSaves \/ SyncIsKilled
    \/ \E f \in Files : SyncWrites(f)

SyncSpec == SyncInit /\ [][SyncNext]_syncVars

---------------------------------------------------------------------------
(* Properties *)

\* A running sync never writes a vendor file that was last written by hand,
\* whatever syncs, kills and changes of the pin came before: "The sync
\* preserves Git metadata and stops on conflicting vendor edits."
HandEditsSurvive ==
    [][\A f \in handmade : sync.at = "writing" => vendor'[f] = vendor[f]]_syncVars

\* A file is reported as a "Local vendor edit" only if it was edited in vendor:
\* a developer who edits upstream and commits and pins it, as BUILDING.md
\* tells, is never stopped.
ConflictsAreLocalEdits == sync.conflicts \subseteq handmade

===========================================================================
