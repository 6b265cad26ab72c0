----------------------------- MODULE SaveWriter -----------------------------
(***************************************************************************)
(* game/aSaveLoad.pas: how a game reaches the disk and comes back.         *)
(* SaveGameToFile serialises it on the UI thread and queues it; the save   *)
(* writer (TSaver, a worker) writes save.tmp and then replaces the file    *)
(* the save is for, rotating the quick saves; a loader thread reads a file *)
(* back.  Writer and loader exclude each other with SaveLoadLock.          *)
(*                                                                         *)
(* Every operation on the disk is a step, so the program can die between   *)
(* any two, and any of them can fail.  A rename is atomic; a file that     *)
(* cannot be deleted is not replaced by a rename either.                   *)
(***************************************************************************)
EXTENDS Integers, Sequences

CONSTANTS QuickSaveExtraSlots,
          MaxSaves,     \* bound on the games saved
          MaxFaults,    \* bound on the disk operations that fail
          MaxCrashes    \* bound on the deaths of the program

ASSUME SlotsAssumption == /\ QuickSaveExtraSlots \in 0..9
                          /\ MaxSaves \in Nat /\ MaxFaults \in Nat /\ MaxCrashes \in Nat

\* The files: the automatic save, which stands for every save but the quick
\* ones, the quick saves 1 .. QuickSaveExtraSlots + 1, and save.tmp.
AutoName  == 0
QuickName == 1
TempName  == -1
Slots     == AutoName..(QuickSaveExtraSlots + 1)
Targets   == {AutoName, QuickName}

\* A file holds a game, all of it or a part.
NoFile == [game |-> 0, whole |-> TRUE]

VARIABLES
    disk,           \* file -> what it holds
    \* the UI thread and the loader it starts
    ui,             \* "menu", "playing", "queueing", "loading", "reading",
                    \* "finalizing" or "exited"
    request,        \* the save QueueSave wants to start, or the file to load
    galaxy,         \* the game a load restored, 0 when it found none
    \* the writer
    wr,             \* the next operation of TSaver.Execute, or "idle"
    FileName, Buffers, I, NewName,
    SaveLoadLock,
    \* history
    saves, targetOf,    \* number of games serialised; game -> what it was for
    written,        \* target -> the games written for it, the newest first
    broken,         \* the replacement of a file failed or was cut short
    faults, crashes

files   == <<disk>>
writer  == <<wr, FileName, Buffers, I, NewName>>
client  == <<ui, request, galaxy>>
history == <<saves, targetOf, written, broken, faults, crashes>>
vars    == <<files, client, writer, SaveLoadLock, history>>

Init == /\ disk = [f \in Slots \cup {TempName} |-> NoFile]
        /\ ui = "playing" /\ request = AutoName /\ galaxy = 0
        /\ wr = "idle" /\ FileName = AutoName /\ Buffers = 0
        /\ I = 0 /\ NewName = AutoName
        /\ SaveLoadLock = "free"
        /\ saves = 0 /\ targetOf = [s \in 1..MaxSaves |-> AutoName]
        /\ written = [t \in Targets |-> <<>>]
        /\ broken = FALSE /\ faults = 0 /\ crashes = 0

IsRunning == wr # "idle"

-----------------------------------------------------------------------------
\* UI

\* SaveGameToFile: the game is serialised before QueueSave.
SaveGameToFile(target) ==
    /\ ui = "playing" /\ saves < MaxSaves
    /\ saves' = saves + 1
    /\ targetOf' = [targetOf EXCEPT ![saves + 1] = target]
    /\ ui' = "queueing" /\ request' = target
    /\ UNCHANGED <<files, galaxy, writer, SaveLoadLock, written, broken, faults, crashes>>

AssignAndStart == /\ FileName' = request /\ Buffers' = saves
                  /\ wr' = IF IsRunning THEN wr ELSE "queued"
                  /\ ui' = "playing"
                  /\ UNCHANGED <<files, request, galaxy, I, NewName, SaveLoadLock, history>>

\* A slip: the request in progress is not waited for.
QueueSaveAtOnce == ui = "queueing" /\ AssignAndStart

\* QueueSave: WaitForIdle, then the fields and Start.
QueueSave == ui = "queueing" /\ ~IsRunning /\ AssignAndStart

\* The load screen: the galaxy is freed and the loader started.
Load(file) == /\ ui \in {"playing", "menu"}
              /\ ui' = "loading" /\ request' = file /\ galaxy' = 0
              /\ UNCHANGED <<files, writer, SaveLoadLock, history>>

\* A slip: the loader does not ask for the lock.
LoadUnlocked == /\ ui = "loading"
                /\ ui' = "reading"
                /\ UNCHANGED <<files, request, galaxy, writer, SaveLoadLock, history>>

LoadGameFromFile == /\ ui = "loading" /\ SaveLoadLock = "free"
                    /\ SaveLoadLock' = "loader"
                    /\ ui' = "reading"
                    /\ UNCHANGED <<files, request, galaxy, writer, history>>

\* The file is read; without one, or when the CRC of a part does not fit, the
\* load fails.  The lock is left either way.
Loaded == /\ ui = "reading"
          /\ galaxy' = IF disk[request].whole THEN disk[request].game ELSE 0
          /\ ui' = IF galaxy' = 0 THEN "menu" ELSE "playing"
          /\ SaveLoadLock' = "free"
          /\ UNCHANGED <<files, request, writer, history>>

\* Another game begins.
NewGame == /\ ui = "menu"
           /\ ui' = "playing"
           /\ UNCHANGED <<files, request, galaxy, writer, SaveLoadLock, history>>

Finalize == /\ ui \in {"playing", "menu"}
            /\ ui' = "finalizing"
            /\ UNCHANGED <<files, request, galaxy, writer, SaveLoadLock, history>>

\* The destructor: the shutdown event has priority over a request that waits.
DestroyWriter == /\ wr' = IF wr = "queued" THEN "dropped" ELSE wr
                 /\ ui' = "exited"
                 /\ UNCHANGED <<files, request, galaxy, FileName, Buffers, I, NewName,
                                SaveLoadLock, history>>

\* A slip: the writer is destroyed without a wait.
FinalizeAtOnce == ui = "finalizing" /\ DestroyWriter

\* FinalizeSaveWriter
FinalizeSaveWriter == ui = "finalizing" /\ ~IsRunning /\ DestroyWriter

-----------------------------------------------------------------------------
\* The writer: TSaver.Execute.

\* Its next operation; what it leaves alone.
Continue(step) == wr' = step /\ UNCHANGED <<client, FileName, Buffers, SaveLoadLock>>

NoFault == UNCHANGED <<saves, targetOf, written, broken, faults, crashes>>

\* An operation fails; spoils says that a file was about to be replaced.
Fault(spoils) == /\ faults < MaxFaults
                 /\ faults' = faults + 1
                 /\ broken' = (broken \/ spoils)
                 /\ UNCHANGED <<saves, targetOf, written, crashes>>

Execute == /\ wr = "queued" /\ SaveLoadLock = "free"
           /\ SaveLoadLock' = "writer"
           /\ wr' = "create"
           /\ UNCHANGED <<files, client, FileName, Buffers, I, NewName, history>>

\* A slip: the writer writes to the file itself.
CreateTarget ==
    /\ wr = "create"
    /\ disk' = [disk EXCEPT ![FileName] = [game |-> Buffers, whole |-> FALSE]]
    /\ Continue("write") /\ NoFault
    /\ UNCHANGED <<I, NewName>>

\* What an earlier run left in save.tmp is deleted, and a new one created.
CreateTemp ==
    /\ wr = "create"
    /\ disk' = [disk EXCEPT ![TempName] = [game |-> Buffers, whole |-> FALSE]]
    /\ Continue("write") /\ NoFault
    /\ UNCHANGED <<I, NewName>>

Rotates == FileName = QuickName /\ QuickSaveExtraSlots > 0

WriteTemp ==
    /\ wr = "write"
    /\ disk' = [disk EXCEPT ![TempName].whole = TRUE]
    /\ I' = QuickSaveExtraSlots /\ NewName' = QuickSaveExtraSlots + 1
    /\ Continue(IF Rotates THEN "rotateDelete" ELSE "delete") /\ NoFault

\* The file cannot be created, or not be written to the end.
WriteFails ==
    /\ wr \in {"create", "write"}
    /\ Continue("clean") /\ Fault(FALSE)
    /\ UNCHANGED <<files, I, NewName>>

\* DeleteFile, whose result is ignored.
Delete(file, step) ==
    /\ \/ disk' = [disk EXCEPT ![file] = NoFile] /\ NoFault
       \/ disk[file] # NoFile /\ UNCHANGED files /\ Fault(TRUE)
    /\ Continue(step)

\* RenameFile; the result says whether it worked.
Move(old, new) == /\ disk[old] # NoFile /\ disk[new] = NoFile
                  /\ disk' = [disk EXCEPT ![old] = NoFile, ![new] = disk[old]]

\* One turn of the rotation: quick save I becomes quick save I + 1.
RotateDelete == /\ wr = "rotateDelete"
                /\ Delete(NewName, "rotateRename")
                /\ UNCHANGED <<I, NewName>>

\* A slip: NewName keeps its first value.
RotateToLast == /\ NewName' = NewName
                /\ I' = I - 1
                /\ Continue(IF I > 1 THEN "rotateDelete" ELSE "delete")

\* A slip: the automatic save is rotated as well.
RotateAll == /\ NewName' = I
             /\ I' = I - 1
             /\ Continue(IF I > 0 THEN "rotateDelete" ELSE "delete")

NextRotation == /\ NewName' = I
                /\ I' = I - 1
                /\ Continue(IF I > 1 THEN "rotateDelete" ELSE "delete")

\* The result of the rename is ignored; there may be no file to rename.
RotateRename == /\ wr = "rotateRename"
                /\ \/ Move(I, NewName) /\ NoFault
                   \/ disk[I] = NoFile /\ UNCHANGED files /\ NoFault
                   \/ disk[I] # NoFile /\ disk[NewName] # NoFile /\ UNCHANGED files /\ NoFault
                   \/ disk[I] # NoFile /\ UNCHANGED files /\ Fault(TRUE)
                /\ NextRotation

DeleteTarget == /\ wr = "delete"
                /\ Delete(FileName, "rename")
                /\ UNCHANGED <<I, NewName>>

RenameTemp == /\ wr = "rename"
              /\ Move(TempName, FileName)
              /\ written' = [written EXCEPT ![FileName] = <<Buffers>> \o @]
              /\ Continue("clean")
              /\ UNCHANGED <<I, NewName, saves, targetOf, broken, faults, crashes>>

\* RaiseLastOSError: the exception is logged and, for some names, announced.
RenameFails == /\ wr = "rename"
               /\ \/ disk[FileName] # NoFile /\ NoFault
                  \/ Fault(TRUE)
               /\ Continue("clean")
               /\ UNCHANGED <<files, I, NewName>>

\* save.tmp is deleted if it is still there, the buffers are freed.
CleanUp == /\ wr = "clean"
           /\ disk' = [disk EXCEPT ![TempName] = NoFile]
           /\ SaveLoadLock' = "free"
           /\ wr' = "idle"
           /\ UNCHANGED <<client, FileName, Buffers, I, NewName, history>>

-----------------------------------------------------------------------------
\* The moments at which a name has lost its file and not got the new one yet.
Replacing == wr \in {"rotateDelete", "rotateRename", "delete", "rename"}

\* The program dies and is started again; the disk is what it left.
Crash == /\ ui # "exited" /\ crashes < MaxCrashes
         /\ crashes' = crashes + 1
         /\ broken' = (broken \/ Replacing)
         /\ ui' = "menu" /\ request' = AutoName /\ galaxy' = 0
         /\ wr' = "idle" /\ FileName' = AutoName /\ Buffers' = 0
         /\ I' = 0 /\ NewName' = AutoName
         /\ SaveLoadLock' = "free"
         /\ UNCHANGED <<files, saves, targetOf, written, faults>>

WriterProceeds == \/ Execute \/ CreateTemp \/ WriteTemp \/ RotateDelete \/ RotateRename
                  \/ DeleteTarget \/ RenameTemp \/ RenameFails \/ CleanUp

ClientProceeds == QueueSave \/ LoadGameFromFile \/ Loaded \/ FinalizeSaveWriter

Next == \/ \E t \in Targets : SaveGameToFile(t)
        \/ \E f \in Slots : Load(f)
        \/ NewGame \/ Finalize
        \/ ClientProceeds
        \/ WriterProceeds \/ WriteFails
        \/ Crash

\* The threads are scheduled; players need not do anything.  A writer that waits
\* for the lock gets it, however often the player loads a game.
Fairness == WF_vars(WriterProceeds) /\ SF_vars(Execute) /\ WF_vars(ClientProceeds)

Spec == Init /\ [][Next]_vars /\ Fairness

-----------------------------------------------------------------------------
Games == 0..MaxSaves

TypeOK ==
    /\ disk \in [Slots \cup {TempName} -> [game : Games, whole : BOOLEAN]]
    /\ ui \in {"menu", "playing", "queueing", "loading", "reading", "finalizing", "exited"}
    /\ request \in Slots /\ galaxy \in Games
    /\ wr \in {"idle", "queued", "create", "write", "rotateDelete", "rotateRename",
               "delete", "rename", "clean"}
    /\ FileName \in Targets /\ Buffers \in Games
    /\ I \in 0..QuickSaveExtraSlots /\ NewName \in Slots
    /\ SaveLoadLock \in {"free", "writer", "loader"}
    /\ saves \in Games /\ targetOf \in [1..MaxSaves -> Targets]
    /\ written \in [Targets -> Seq(Games)]
    /\ broken \in BOOLEAN
    /\ faults \in 0..MaxFaults /\ crashes \in 0..MaxCrashes

\* A file with the name of a save is complete, and holds a game that was saved
\* under that name, or under the quick save's: nothing is written in place, and
\* no request changes the fields of the one in progress (118-188, 236-249).
SavesAreWhole ==
    \A n \in Slots : disk[n] # NoFile =>
        /\ disk[n].whole
        /\ targetOf[disk[n].game] = IF n = AutoName THEN AutoName ELSE QuickName

NewestOf(t, i) == IF i <= Len(written[t]) THEN written[t][i] ELSE 0

OnDisk(s) == \E f \in DOMAIN disk : disk[f].game = s

\* Whatever fails or dies, a game leaves the disk only while save.tmp holds a
\* newer one for the same name, in full, or by the loss of save.tmp itself.
OnlyReplacedSavesAreRemoved ==
    [][\A s \in 1..MaxSaves :
          (\E n \in Slots : disk[n].game = s) /\ ~OnDisk(s)' =>
              /\ disk[TempName].whole
              /\ disk[TempName].game > s
              /\ targetOf[disk[TempName].game] = targetOf[s]]_vars

\* What the file of a slot should hold.
Expected(n) == IF n = AutoName THEN NewestOf(AutoName, 1) ELSE NewestOf(QuickName, n)

\* Unless a replacement has failed or was cut short, every save is on the disk
\* until a newer one of its name is: the quick saves are the last ones made, in
\* order.  A save that fails or dies before save.tmp is complete costs nothing
\* (lines 169-188).
SlotsHoldTheNewest == ~broken /\ ~Replacing => \A n \in Slots : disk[n].game = Expected(n)

\* A load gets the last save that was written under its name, or the quick save
\* of that age; it never meets the moment at which a file is being replaced
\* (394-555 against 118-233).
LoadFindsTheSave ==
    [][ui = "reading" /\ ui' \in {"menu", "playing"} /\ crashes' = crashes /\ ~broken =>
          galaxy' = Expected(request)]_vars

\* Every request that was accepted is carried out or reported, at the latest
\* before the program ends; nobody waits for the writer or the lock forever.
EveryRequestEnds ==
    /\ IsRunning ~> ~IsRunning
    /\ ui \in {"queueing", "loading", "finalizing"} ~> ui \in {"playing", "menu", "exited"}
=============================================================================
