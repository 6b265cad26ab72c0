-------------------------- MODULE SaveWriterProofs --------------------------
(***************************************************************************)
(* Proofs about SaveWriter for every setting of the quick-save slots and   *)
(* any number of saves, failures and crashes: its types and its four       *)
(* safety properties.  That every request ends (EveryRequestEnds) is left  *)
(* to TLC.                                                                 *)
(***************************************************************************)
EXTENDS SaveWriter, TLAPS

\* Who holds the lock.
LockInv == /\ wr \in {"idle", "queued"} <=> SaveLoadLock # "writer"
           /\ ui = "reading" <=> SaveLoadLock = "loader"

\* The request that waits for the writer, and the one it works on: the last
\* game serialised for its name.
RequestInv ==
    /\ ui = "queueing" => saves >= 1 /\ request = targetOf[saves]
    /\ IsRunning => /\ Buffers \in 1..saves
                    /\ FileName = targetOf[Buffers]
                    /\ ui = "queueing" => Buffers < saves

\* What save.tmp holds, and where the rotation is.
StepInv ==
    /\ wr = "write" => disk[TempName].game = Buffers
    /\ Replacing => disk[TempName].game = Buffers /\ disk[TempName].whole
    /\ wr \in {"rotateDelete", "rotateRename"} =>
          FileName = QuickName /\ I >= 1 /\ NewName = I + 1

\* Every save on the disk is older than the one to be written.
AgeInv ==
    \A n \in Slots :
        /\ disk[n] # NoFile => disk[n].game >= 1
        /\ disk[n].game <= saves
        /\ ui = "queueing" => disk[n].game < saves
        /\ IsRunning /\ wr # "clean" => disk[n].game < Buffers

\* In the middle of a replacement: the slots the rotation has passed have moved
\* up by one, and the file that makes room is gone.
Vacated(n) == \/ wr = "rename" /\ n = FileName
              \/ wr = "rotateRename" /\ n = NewName
              \/ wr = "rotateDelete" /\ n = NewName /\ I < QuickSaveExtraSlots
              \/ wr = "delete" /\ n = QuickName /\ Rotates

Moved(n) == \/ wr \in {"rotateDelete", "rotateRename"} /\ n > NewName
            \/ wr \in {"delete", "rename"} /\ Rotates /\ n > QuickName

SlotInv ==
    ~broken => \A n \in Slots :
        disk[n].game = IF Vacated(n) THEN 0
                       ELSE IF Moved(n) THEN Expected(n - 1) ELSE Expected(n)

\* Saves are whole and in order because each is written to save.tmp, in the
\* order in which they were asked for, by a writer that has the lock (118-249).
IInv == /\ TypeOK /\ LockInv /\ RequestInv /\ StepInv /\ AgeInv
        /\ SavesAreWhole /\ SlotInv

-----------------------------------------------------------------------------
\* What a name is, in numbers.
LEMMA Names == /\ Slots = 0..(QuickSaveExtraSlots + 1)
               /\ AutoName = 0 /\ QuickName = 1 /\ TempName = -1
               /\ AutoName \in Slots /\ QuickName \in Slots /\ TempName \notin Slots
               /\ Targets = {0, 1} /\ Targets \subseteq Slots
               /\ QuickSaveExtraSlots \in Nat
BY SlotsAssumption DEF Slots, AutoName, QuickName, TempName, Targets

\* The part of TypeOK about the history.
HistoryOK == /\ saves \in Games /\ targetOf \in [1..MaxSaves -> Targets]
             /\ written \in [Targets -> Seq(Games)]
             /\ broken \in BOOLEAN
             /\ faults \in 0..MaxFaults /\ crashes \in 0..MaxCrashes

\* An operation of the writer leaves the history well typed, failed or not.
LEMMA FaultTypes == ASSUME TypeOK, NoFault \/ Fault(TRUE) \/ Fault(FALSE)  PROVE HistoryOK'
<1>1. broken' \in BOOLEAN
  BY DEF TypeOK, NoFault, Fault
<1>2. faults' \in 0..MaxFaults
  BY SlotsAssumption DEF TypeOK, NoFault, Fault
<1>3. UNCHANGED <<saves, targetOf, written, crashes>>
  BY DEF NoFault, Fault
<1>4. QED
  BY <1>1, <1>2, <1>3 DEF TypeOK, HistoryOK

\* The part of TypeOK about the disk.
DiskOK == disk \in [Slots \cup {TempName} -> [game : Games, whole : BOOLEAN]]

\* A deletion keeps the types of the disk and the history (179-186).
LEMMA DeleteTypes == ASSUME TypeOK, NEW file \in Slots, NEW step, Delete(file, step)
                     PROVE  DiskOK' /\ HistoryOK'
<1>1. NoFile \in [game : Games, whole : BOOLEAN]
  BY SlotsAssumption DEF NoFile, Games
<1>2. disk' = [disk EXCEPT ![file] = NoFile] \/ disk' = disk
  BY DEF Delete, files
<1>3. DiskOK'
  BY <1>1, <1>2 DEF TypeOK, DiskOK
<1>4. HistoryOK'
  BY FaultTypes DEF Delete
<1>5. QED
  BY <1>3, <1>4

\* A rename keeps the type of the disk (181-188).
LEMMA MoveTypes == ASSUME TypeOK, NEW old \in Slots \cup {TempName}, NEW new \in Slots,
                          Move(old, new)
                   PROVE  DiskOK'
<1>1. NoFile \in [game : Games, whole : BOOLEAN]
  BY SlotsAssumption DEF NoFile, Games
<1>2. QED
  BY <1>1 DEF Move, TypeOK, DiskOK

\* A file that is written to its end is still a file.
LEMMA CompleteTypes == \A r \in [game : Games, whole : BOOLEAN] :
                          [r EXCEPT !.whole = TRUE] \in [game : Games, whole : BOOLEAN]
OBVIOUS

\* Every variable keeps its type (the whole of TSaver and its callers).
LEMMA TypeStep == ASSUME TypeOK, RequestInv, StepInv, [Next]_vars  PROVE TypeOK'
<1> USE SlotsAssumption, Names DEF TypeOK, Games, NoFile, Continue, NoFault, Fault, IsRunning
<1>1. ASSUME NEW t \in Targets, SaveGameToFile(t)  PROVE TypeOK'
  BY <1>1 DEF SaveGameToFile, files, writer
<1>2. ASSUME NEW f \in Slots, Load(f)  PROVE TypeOK'
  BY <1>2 DEF Load, files, writer, history
<1>3. CASE NewGame
  BY <1>3 DEF NewGame, files, writer, history
<1>4. CASE Finalize
  BY <1>4 DEF Finalize, files, writer, history
<1>5. CASE QueueSave
  BY <1>5 DEF QueueSave, AssignAndStart, files, history, RequestInv
<1>6. CASE LoadGameFromFile
  BY <1>6 DEF LoadGameFromFile, files, writer, history
<1>7. CASE Loaded
  BY <1>7 DEF Loaded, files, writer, history
<1>8. CASE FinalizeSaveWriter
  BY <1>8 DEF FinalizeSaveWriter, DestroyWriter, files, history
<1>9. CASE Execute
  BY <1>9 DEF Execute, files, client, history
<1>10. CASE CreateTemp
  BY <1>10 DEF CreateTemp, client
<1>11. CASE WriteTemp
  <2>1. [disk[TempName] EXCEPT !.whole = TRUE] \in [game : Games, whole : BOOLEAN]
    BY CompleteTypes
  <2>2. disk' = [disk EXCEPT ![TempName] = [disk[TempName] EXCEPT !.whole = TRUE]]
    BY <1>11 DEF WriteTemp
  <2>3. DiskOK'
    BY <2>1, <2>2 DEF DiskOK
  <2>4. HistoryOK'
    BY <1>11, FaultTypes DEF WriteTemp
  <2>5. wr' \in {"rotateDelete", "delete"} /\ I' = QuickSaveExtraSlots
        /\ NewName' = QuickSaveExtraSlots + 1
        /\ UNCHANGED <<client, FileName, Buffers, SaveLoadLock>>
    BY <1>11 DEF WriteTemp
  <2>6. QED
    BY <2>3, <2>4, <2>5 DEF client, DiskOK, HistoryOK
<1>12. CASE WriteFails
  BY <1>12 DEF WriteFails, files, client
<1>13. CASE RotateDelete
  <2>1. DiskOK' /\ HistoryOK'
    BY <1>13, DeleteTypes DEF RotateDelete
  <2>2. QED
    BY <1>13, <2>1 DEF RotateDelete, Delete, client, DiskOK, HistoryOK
<1>14. CASE RotateRename
  <2>1. I \in Slots /\ I >= 1
    BY <1>14 DEF RotateRename, StepInv
  <2>2. DiskOK' /\ HistoryOK'
    <3>1. (Move(I, NewName) \/ UNCHANGED files) /\ (NoFault \/ Fault(TRUE))
      BY <1>14 DEF RotateRename
    <3>2. HistoryOK'
      BY <3>1, FaultTypes
    <3>3. DiskOK'
      BY <3>1, <2>1, MoveTypes DEF files, DiskOK
    <3>4. QED
      BY <3>2, <3>3
  <2>3. QED
    BY <1>14, <2>1, <2>2 DEF RotateRename, NextRotation, client, DiskOK, HistoryOK
<1>15. CASE DeleteTarget
  <2>1. DiskOK' /\ HistoryOK'
    BY <1>15, DeleteTypes DEF DeleteTarget
  <2>2. QED
    BY <1>15, <2>1 DEF DeleteTarget, Delete, client, DiskOK, HistoryOK
<1>16. CASE RenameTemp
  <2>1. DiskOK'
    BY <1>16, MoveTypes DEF RenameTemp
  <2>2. written' \in [Targets -> Seq(Games)]
    <3>1. <<Buffers>> \o written[FileName] \in Seq(Games)
      OBVIOUS
    <3>2. QED
      BY <1>16, <3>1 DEF RenameTemp
  <2>3. QED
    BY <1>16, <2>1, <2>2 DEF RenameTemp, client, DiskOK
<1>17. CASE RenameFails
  <2>1. HistoryOK'
    BY <1>17, FaultTypes DEF RenameFails
  <2>2. QED
    BY <1>17, <2>1 DEF RenameFails, files, client, HistoryOK
<1>18. CASE CleanUp
  BY <1>18 DEF CleanUp, client, history
<1>19. CASE Crash
  BY <1>19 DEF Crash, files
<1>20. CASE UNCHANGED vars
  BY <1>20 DEF vars, files, client, writer, history
<1>21. QED
  BY <1>1, <1>2, <1>3, <1>4, <1>5, <1>6, <1>7, <1>8, <1>9, <1>10, <1>11, <1>12, <1>13,
     <1>14, <1>15, <1>16, <1>17, <1>18, <1>19, <1>20
     DEF Next, ClientProceeds, WriterProceeds

\* The lock is held by the writer from Execute on and by the loader while it
\* reads (lines 125, 406).
LEMMA LockStep == ASSUME TypeOK, LockInv, [Next]_vars  PROVE LockInv'
<1> USE DEF LockInv, Continue, IsRunning
<1>1. ASSUME NEW t \in Targets, SaveGameToFile(t)  PROVE LockInv'
  BY <1>1 DEF SaveGameToFile, writer
<1>2. ASSUME NEW f \in Slots, Load(f)  PROVE LockInv'
  BY <1>2 DEF Load, writer
<1>3. CASE NewGame \/ Finalize \/ QueueSave \/ FinalizeSaveWriter
  BY <1>3 DEF NewGame, Finalize, QueueSave, AssignAndStart, FinalizeSaveWriter, DestroyWriter,
     writer
<1>4. CASE LoadGameFromFile
  BY <1>4 DEF LoadGameFromFile, writer
<1>5. CASE Loaded
  BY <1>5 DEF Loaded, writer
<1>6. CASE Execute \/ CleanUp
  BY <1>6 DEF Execute, CleanUp, client
<1>7. CASE CreateTemp \/ WriteTemp \/ WriteFails \/ RotateDelete \/ RotateRename
           \/ DeleteTarget \/ RenameTemp \/ RenameFails
  BY <1>7 DEF CreateTemp, WriteTemp, WriteFails, RotateDelete, RotateRename, NextRotation,
     DeleteTarget, Delete, RenameTemp, RenameFails, client
<1>8. CASE Crash \/ UNCHANGED vars
  BY <1>8 DEF Crash, vars, client, writer
<1>9. QED
  BY <1>1, <1>2, <1>3, <1>4, <1>5, <1>6, <1>7, <1>8 DEF Next, ClientProceeds, WriterProceeds

\* The request in progress keeps its fields: QueueSave waits for it (236-249).
LEMMA RequestStep == ASSUME TypeOK, RequestInv, [Next]_vars  PROVE RequestInv'
<1> USE SlotsAssumption DEF RequestInv, Continue, IsRunning, TypeOK, Games, NoFault, Fault
<1>1. ASSUME NEW t \in Targets, SaveGameToFile(t)  PROVE RequestInv'
  BY <1>1 DEF SaveGameToFile, writer
<1>2. ASSUME NEW f \in Slots, Load(f)  PROVE RequestInv'
  BY <1>2 DEF Load, writer, history
<1>3. CASE QueueSave
  BY <1>3 DEF QueueSave, AssignAndStart, history
<1>4. CASE NewGame \/ Finalize \/ LoadGameFromFile \/ Loaded
  BY <1>4 DEF NewGame, Finalize, LoadGameFromFile, Loaded, writer, history
<1>5. CASE FinalizeSaveWriter
  BY <1>5 DEF FinalizeSaveWriter, DestroyWriter, history
<1>6. CASE Execute \/ CleanUp
  BY <1>6 DEF Execute, CleanUp, client, history
<1>7. CASE CreateTemp \/ WriteTemp \/ WriteFails \/ RotateDelete \/ RotateRename
           \/ DeleteTarget \/ RenameTemp \/ RenameFails
  <2>1. wr # "idle" /\ UNCHANGED <<client, FileName, Buffers, saves, targetOf>>
    BY <1>7 DEF CreateTemp, WriteTemp, WriteFails, RotateDelete, RotateRename, NextRotation,
       DeleteTarget, Delete, RenameTemp, RenameFails
  <2>2. QED
    BY <2>1 DEF client
<1>8. CASE Crash \/ UNCHANGED vars
  BY <1>8 DEF Crash, vars, client, writer, history
<1>9. QED
  BY <1>1, <1>2, <1>3, <1>4, <1>5, <1>6, <1>7, <1>8 DEF Next, ClientProceeds, WriterProceeds

\* What leaves the disk and the writer alone.
Elsewhere == /\ wr' = wr \/ (wr = "idle" /\ wr' = "queued") \/ (wr = "queued" /\ wr' = "create")
             /\ UNCHANGED disk
             /\ wr # "idle" => UNCHANGED <<FileName, Buffers, I, NewName>>

\* The steps of the UI, the loader and Execute's start do not touch the disk.
LEMMA ClientSteps == ASSUME \/ \E t \in Targets : SaveGameToFile(t)
                            \/ \E f \in Slots : Load(f)
                            \/ NewGame \/ Finalize \/ ClientProceeds \/ Execute
                            \/ UNCHANGED vars
                     PROVE  Elsewhere /\ UNCHANGED <<written, broken>>
BY DEF SaveGameToFile, Load, NewGame, Finalize, ClientProceeds, QueueSave, AssignAndStart,
   LoadGameFromFile, Loaded, FinalizeSaveWriter, DestroyWriter, Execute, IsRunning,
   Elsewhere, vars, files, writer, client, history

\* save.tmp is whole before anything is replaced, and the rotation counts down.
LEMMA StepStep == ASSUME TypeOK, StepInv, [Next]_vars  PROVE StepInv'
<1> USE SlotsAssumption, Names DEF StepInv, Continue, TypeOK, Replacing
<1>1. CASE \/ \E t \in Targets : SaveGameToFile(t)
           \/ \E f \in Slots : Load(f)
           \/ NewGame \/ Finalize \/ ClientProceeds \/ Execute \/ UNCHANGED vars
  BY <1>1, ClientSteps DEF Elsewhere
<1>2. CASE CreateTemp
  BY <1>2 DEF CreateTemp
<1>3. CASE WriteTemp
  <2>1. disk[TempName].game = Buffers
    BY <1>3 DEF WriteTemp
  <2>2. disk'[TempName] = [disk[TempName] EXCEPT !.whole = TRUE]
    BY <1>3 DEF WriteTemp
  <2>3. disk'[TempName].game = Buffers /\ disk'[TempName].whole
    BY <2>1, <2>2
  <2>4. QED
    BY <1>3, <2>3 DEF WriteTemp, Rotates
<1>4. CASE WriteFails \/ RenameFails \/ RenameTemp
  BY <1>4 DEF WriteFails, RenameFails, RenameTemp
<1>5. CASE RotateDelete
  BY <1>5 DEF RotateDelete, Delete, files
<1>6. CASE RotateRename
  <2>1. I \in Slots /\ I >= 1 /\ NewName = I + 1 /\ FileName = QuickName
        /\ disk[TempName].game = Buffers /\ disk[TempName].whole
    BY <1>6 DEF RotateRename
  <2>2. disk'[TempName] = disk[TempName]
    BY <1>6, <2>1 DEF RotateRename, Move, files
  <2>3. /\ wr' = IF I > 1 THEN "rotateDelete" ELSE "delete"
        /\ NewName' = I /\ I' = I - 1 /\ UNCHANGED <<FileName, Buffers>>
    BY <1>6 DEF RotateRename, NextRotation
  <2>4. QED
    BY <2>1, <2>2, <2>3
<1>7. CASE DeleteTarget
  <2>1. disk'[TempName] = disk[TempName]
    <3>1. FileName # TempName
      OBVIOUS
    <3>2. disk' = [disk EXCEPT ![FileName] = NoFile] \/ disk' = disk
      BY <1>7 DEF DeleteTarget, Delete, files
    <3>3. QED
      BY <3>1, <3>2
  <2>2. wr = "delete" /\ wr' = "rename" /\ UNCHANGED <<Buffers, I, NewName, FileName>>
    BY <1>7 DEF DeleteTarget, Delete
  <2>3. QED
    BY <2>1, <2>2
<1>8. CASE CleanUp \/ Crash
  BY <1>8 DEF CleanUp, Crash, files
<1>9. QED
  BY <1>1, <1>2, <1>3, <1>4, <1>5, <1>6, <1>7, <1>8 DEF Next, WriterProceeds

\* The writer works on the newest game: what it deletes and moves is older.
LEMMA AgeStep == ASSUME TypeOK, RequestInv, StepInv, AgeInv, [Next]_vars  PROVE AgeInv'
<1> USE SlotsAssumption, Names DEF AgeInv, Continue, TypeOK, Games, IsRunning, NoFile
<1>1. ASSUME NEW t \in Targets, SaveGameToFile(t)  PROVE AgeInv'
  BY <1>1 DEF SaveGameToFile, files, writer
<1>2. ASSUME NEW f \in Slots, Load(f)  PROVE AgeInv'
  BY <1>2 DEF Load, files, writer, history
<1>3. CASE QueueSave
  BY <1>3 DEF QueueSave, AssignAndStart, files, history
<1>4. CASE NewGame \/ Finalize \/ LoadGameFromFile \/ Loaded
  BY <1>4 DEF NewGame, Finalize, LoadGameFromFile, Loaded, files, writer, history
<1>5. CASE FinalizeSaveWriter
  BY <1>5 DEF FinalizeSaveWriter, DestroyWriter, files, history
<1>6. CASE Execute
  BY <1>6 DEF Execute, files, client, history
<1>7. ASSUME /\ IsRunning /\ wr # "clean" /\ UNCHANGED <<client, Buffers, saves>>
             /\ wr' # "idle"
             /\ \A n \in Slots : disk'[n] = disk[n] \/ disk'[n] = NoFile
                                 \/ \E k \in Slots : disk'[n] = disk[k]
      PROVE  AgeInv'
  <2> SUFFICES ASSUME NEW n \in Slots
               PROVE  /\ disk'[n] # NoFile => disk'[n].game >= 1
                      /\ disk'[n].game <= saves
                      /\ ui = "queueing" => disk'[n].game < saves
                      /\ disk'[n].game < Buffers
    BY <1>7 DEF client
  <2>1. Buffers \in 1..saves
    BY <1>7 DEF RequestInv
  <2>2. CASE \E k \in Slots : disk'[n] = disk[k]
    BY <1>7, <2>2
  <2>3. CASE disk'[n] = NoFile
    BY <1>7, <2>1, <2>3
  <2>4. QED
    BY <1>7, <2>2, <2>3
<1>8. CASE CreateTemp \/ WriteTemp \/ WriteFails \/ RenameFails
  <2>1. /\ IsRunning /\ wr # "clean" /\ UNCHANGED <<client, Buffers, saves>> /\ wr' # "idle"
        /\ \A n \in Slots : disk'[n] = disk[n]
    BY <1>8 DEF CreateTemp, WriteTemp, WriteFails, RenameFails, NoFault, Fault, files
  <2>2. QED
    BY <2>1, <1>7
<1>9. CASE RotateDelete \/ DeleteTarget
  <2>1. /\ IsRunning /\ wr # "clean" /\ UNCHANGED <<client, Buffers, saves>> /\ wr' # "idle"
        /\ \A n \in Slots : disk'[n] = disk[n] \/ disk'[n] = NoFile
    BY <1>9 DEF RotateDelete, DeleteTarget, Delete, NoFault, Fault, files
  <2>2. QED
    BY <2>1, <1>7
<1>10. CASE RotateRename
  <2>1. I \in Slots /\ NewName \in Slots
    BY <1>10 DEF RotateRename, StepInv
  <2>2. /\ IsRunning /\ wr # "clean" /\ UNCHANGED <<client, Buffers, saves>> /\ wr' # "idle"
    BY <1>10 DEF RotateRename, NextRotation, NoFault, Fault
  <2>3. \A n \in Slots : disk'[n] = disk[n] \/ disk'[n] = NoFile
                         \/ \E k \in Slots : disk'[n] = disk[k]
    BY <1>10, <2>1 DEF RotateRename, Move, files
  <2>4. QED
    BY <2>2, <2>3, <1>7
<1>11. CASE RenameTemp
  <2>1. disk[TempName].game = Buffers /\ Buffers \in 1..saves
        /\ (ui = "queueing" => Buffers < saves)
    BY <1>11 DEF RenameTemp, StepInv, Replacing, RequestInv
  <2>2. \A n \in Slots : disk'[n] = disk[n] \/ disk'[n] = disk[TempName]
    BY <1>11 DEF RenameTemp, Move
  <2>3. wr = "rename" /\ wr' = "clean" /\ UNCHANGED <<client, Buffers, saves>>
    BY <1>11 DEF RenameTemp
  <2> SUFFICES ASSUME NEW n \in Slots
               PROVE  /\ disk'[n] # NoFile => disk'[n].game >= 1
                      /\ disk'[n].game <= saves
                      /\ ui = "queueing" => disk'[n].game < saves
    BY <2>3 DEF client
  <2>4. CASE disk'[n] = disk[n]
    BY <2>4
  <2>5. CASE disk'[n] = disk[TempName]
    BY <2>1, <2>5
  <2>6. QED
    BY <2>2, <2>4, <2>5
<1>12. CASE CleanUp
  BY <1>12 DEF CleanUp, client, history
<1>13. CASE Crash \/ UNCHANGED vars
  BY <1>13 DEF Crash, vars, files, client, writer, history
<1>14. QED
  BY <1>1, <1>2, <1>3, <1>4, <1>5, <1>6, <1>8, <1>9, <1>10, <1>11, <1>12, <1>13
     DEF Next, ClientProceeds, WriterProceeds

\* Nothing is written in place, and a slot's file moves to a slot of its kind.
LEMMA WholeStep == ASSUME TypeOK, RequestInv, StepInv, AgeInv, SavesAreWhole, [Next]_vars
                   PROVE  SavesAreWhole'
<1> USE SlotsAssumption, Names DEF Continue, TypeOK, Games
<1> DEFINE Right(r, n, t) == r # NoFile =>
               r.whole /\ t[r.game] = IF n = AutoName THEN AutoName ELSE QuickName
<1>1. \A n \in Slots : Right(disk[n], n, targetOf)
  BY DEF SavesAreWhole
<1>2. SUFFICES \A n \in Slots : Right(disk'[n], n, targetOf')
  BY DEF SavesAreWhole
<1>3. ASSUME NEW t \in Targets, SaveGameToFile(t)
      PROVE  \A n \in Slots : Right(disk'[n], n, targetOf')
  <2> SUFFICES ASSUME NEW n \in Slots  PROVE Right(disk[n], n, targetOf')
    BY <1>3 DEF SaveGameToFile, files
  <2>1. ASSUME disk[n] # NoFile  PROVE targetOf'[disk[n].game] = targetOf[disk[n].game]
    <3>1. disk[n].game \in 1..saves /\ saves + 1 \in 1..MaxSaves
      BY <1>3, <2>1 DEF SaveGameToFile, AgeInv
    <3>2. targetOf' = [targetOf EXCEPT ![saves + 1] = t]
      BY <1>3 DEF SaveGameToFile
    <3>3. QED
      BY <3>1, <3>2
  <2>2. QED
    BY <1>1, <2>1
<1>4. ASSUME UNCHANGED targetOf, \A n \in Slots : disk'[n] = disk[n] \/ disk'[n] = NoFile
      PROVE  \A n \in Slots : Right(disk'[n], n, targetOf')
  BY <1>1, <1>4
<1>5. CASE \/ \E f \in Slots : Load(f)
           \/ NewGame \/ Finalize \/ ClientProceeds \/ Execute \/ Crash \/ UNCHANGED vars
  <2>1. UNCHANGED <<disk, targetOf>>
    BY <1>5 DEF Load, NewGame, Finalize, ClientProceeds, QueueSave, AssignAndStart,
       LoadGameFromFile, Loaded, FinalizeSaveWriter, DestroyWriter, Execute, Crash, vars,
       files, history
  <2>2. QED
    BY <1>4, <2>1
<1>6. CASE CreateTemp \/ WriteTemp \/ CleanUp
  <2>1. UNCHANGED targetOf /\ \A n \in Slots : disk'[n] = disk[n]
    BY <1>6 DEF CreateTemp, WriteTemp, CleanUp, NoFault, history
  <2>2. QED
    BY <1>4, <2>1
<1>7. CASE WriteFails \/ RenameFails
  <2>1. UNCHANGED <<disk, targetOf>>
    BY <1>7 DEF WriteFails, RenameFails, NoFault, Fault, files
  <2>2. QED
    BY <1>4, <2>1
<1>8. CASE RotateDelete \/ DeleteTarget
  <2>1. UNCHANGED targetOf
    BY <1>8 DEF RotateDelete, DeleteTarget, Delete, NoFault, Fault
  <2>2. \A n \in Slots : disk'[n] = disk[n] \/ disk'[n] = NoFile
    BY <1>8 DEF RotateDelete, DeleteTarget, Delete, files
  <2>3. QED
    BY <1>4, <2>1, <2>2
<1>9. CASE RotateRename
  <2>1. I \in Slots /\ I # AutoName /\ NewName \in Slots /\ NewName # AutoName
    BY <1>9 DEF RotateRename, StepInv
  <2>2. UNCHANGED targetOf
    BY <1>9 DEF RotateRename, NoFault, Fault
  <2>3. disk' = [disk EXCEPT ![I] = NoFile, ![NewName] = disk[I]] \/ disk' = disk
    BY <1>9 DEF RotateRename, Move, files
  <2>4. \A n \in Slots : \/ disk'[n] = disk[n] \/ disk'[n] = NoFile
                         \/ n = NewName /\ disk'[n] = disk[I]
    BY <2>1, <2>3
  <2>5. QED
    BY <1>1, <2>1, <2>2, <2>4
<1>10. CASE RenameTemp
  <2>1. disk[TempName].whole /\ targetOf[disk[TempName].game] = FileName
    BY <1>10 DEF RenameTemp, StepInv, Replacing, RequestInv, IsRunning
  <2>2. UNCHANGED targetOf
    BY <1>10 DEF RenameTemp
  <2>3. \A n \in Slots : disk'[n] = disk[n] \/ (n = FileName /\ disk'[n] = disk[TempName])
    BY <1>10 DEF RenameTemp, Move
  <2>4. Right(disk[TempName], FileName, targetOf)
    <3>1. FileName = IF FileName = AutoName THEN AutoName ELSE QuickName
      OBVIOUS
    <3>2. QED
      BY <2>1, <3>1
  <2>5. ASSUME NEW n \in Slots  PROVE Right(disk'[n], n, targetOf')
    <3>1. CASE disk'[n] = disk[n]
      BY <1>1, <2>2, <3>1
    <3>2. CASE n = FileName /\ disk'[n] = disk[TempName]
      BY <2>2, <2>4, <3>2
    <3>3. QED
      BY <2>3, <3>1, <3>2
  <2>6. QED
    BY <2>5
<1>11. QED
  BY <1>3, <1>5, <1>6, <1>7, <1>8, <1>9, <1>10 DEF Next, WriterProceeds

\* Outside a replacement, what the slots hold does not depend on the writer.
LEMMA SlotsAtRest == ASSUME TypeOK, SlotInv, broken => broken', ~Replacing \/ broken',
                            ~Replacing', UNCHANGED written,
                            \A n \in Slots : disk'[n] = disk[n]
                     PROVE  SlotInv'
BY DEF SlotInv, Vacated, Moved, Expected, NewestOf, Replacing, Rotates

\* A game that is written becomes the newest of its name, the others follow.
LEMMA WrittenShifts ==
    ASSUME TypeOK, UNCHANGED FileName,
           written' = [written EXCEPT ![FileName] = <<Buffers>> \o @]
    PROVE  /\ Expected(FileName)' = Buffers
           /\ FileName = AutoName => \A n \in Slots \ {AutoName} : Expected(n)' = Expected(n)
           /\ FileName = QuickName =>
                 /\ Expected(AutoName)' = Expected(AutoName)
                 /\ \A n \in Slots \ {AutoName, QuickName} : Expected(n)' = Expected(n - 1)
<1> DEFINE old == written[FileName]
           new == written'[FileName]
<1>1. FileName \in Targets /\ old \in Seq(Games) /\ Buffers \in Games
  BY DEF TypeOK
<1>2. new = <<Buffers>> \o old
  BY <1>1 DEF TypeOK
<1>3. Len(new) = Len(old) + 1 /\ new[1] = Buffers
      /\ \A i \in 2..Len(new) : new[i] = old[i - 1]
  BY <1>1, <1>2
<1>4. \A t \in Targets \ {FileName} : written'[t] = written[t]
  BY <1>1 DEF TypeOK
<1>5. NewestOf(FileName, 1)' = Buffers
  BY <1>1, <1>3 DEF NewestOf
<1>6. \A i \in Nat \ {0, 1} : NewestOf(FileName, i)' = NewestOf(FileName, i - 1)
  <2> SUFFICES ASSUME NEW i \in Nat \ {0, 1}
               PROVE  NewestOf(FileName, i)' = NewestOf(FileName, i - 1)
    OBVIOUS
  <2>1. i \in Nat /\ i >= 2 /\ Len(old) \in Nat
    BY <1>1
  <2>2. CASE i <= Len(new)
    BY <1>3, <2>1, <2>2 DEF NewestOf
  <2>3. CASE ~(i <= Len(new))
    BY <1>3, <2>1, <2>3 DEF NewestOf
  <2>4. QED
    BY <2>2, <2>3
<1>7. \A t \in Targets \ {FileName} : \A i : NewestOf(t, i)' = NewestOf(t, i)
  BY <1>4 DEF NewestOf
<1>8. ASSUME FileName = AutoName, NEW n \in Slots \ {AutoName}  PROVE Expected(n)' = Expected(n)
  <2>1. QuickName \in Targets \ {FileName}
    BY <1>8, Names
  <2>2. QED
    BY <1>7, <1>8, <2>1 DEF Expected
<1>9. ASSUME FileName = QuickName  PROVE Expected(AutoName)' = Expected(AutoName)
  <2>1. AutoName \in Targets \ {FileName}
    BY <1>9, Names
  <2>2. QED
    BY <1>7, <2>1 DEF Expected
<1>10. ASSUME FileName = QuickName, NEW n \in Slots \ {AutoName, QuickName}
       PROVE  Expected(n)' = Expected(n - 1)
  <2>1. n \in Nat \ {0, 1} /\ n # AutoName /\ n - 1 # AutoName
    BY Names
  <2>2. QED
    BY <1>6, <1>10, <2>1 DEF Expected
<1>11. Expected(FileName)' = Buffers
  BY <1>1, <1>5, Names DEF Expected
<1>12. QED
  BY <1>8, <1>9, <1>10, <1>11

\* The rotation keeps the slots in order, and the rename completes it (169-188).
LEMMA SlotStep == ASSUME TypeOK, RequestInv, StepInv, AgeInv, SlotInv, [Next]_vars
                  PROVE  SlotInv'
<1> USE SlotsAssumption, Names DEF Continue, TypeOK, Games
<1>1. CASE \/ \E t \in Targets : SaveGameToFile(t)
           \/ \E f \in Slots : Load(f)
           \/ NewGame \/ Finalize \/ ClientProceeds \/ Execute \/ UNCHANGED vars
  <2>1. Elsewhere /\ UNCHANGED <<written, broken>>
    BY <1>1, ClientSteps
  <2>2. CASE Replacing
    <3>1. UNCHANGED <<disk, wr, FileName, I, NewName, written, broken>>
      BY <2>1, <2>2 DEF Elsewhere, Replacing
    <3>2. QED
      BY <3>1 DEF SlotInv, Vacated, Moved, Expected, NewestOf, Rotates
  <2>3. CASE ~Replacing
    <3>1. ~Replacing'
      BY <2>1, <2>3 DEF Elsewhere, Replacing
    <3>2. QED
      BY <2>1, <2>3, <3>1, SlotsAtRest DEF Elsewhere
  <2>4. QED
    BY <2>2, <2>3
<1>2. CASE CreateTemp \/ CleanUp
  <2>1. /\ ~Replacing /\ ~Replacing' /\ UNCHANGED <<written, broken>>
        /\ \A n \in Slots : disk'[n] = disk[n]
    BY <1>2 DEF CreateTemp, CleanUp, Replacing, NoFault, history
  <2>2. QED
    BY <2>1, SlotsAtRest
<1>3. CASE WriteFails
  <2>1. /\ ~Replacing /\ ~Replacing' /\ UNCHANGED <<written, disk>>
        /\ broken => broken'
    BY <1>3 DEF WriteFails, Replacing, Fault, files
  <2>2. QED
    BY <2>1, SlotsAtRest
<1>4. CASE Crash
  <2>1. /\ ~Replacing \/ broken'
        /\ ~Replacing' /\ UNCHANGED <<written, disk>>
        /\ broken => broken'
    BY <1>4 DEF Crash, Replacing, files
  <2>2. QED
    BY <2>1, SlotsAtRest
<1>5. CASE WriteTemp
  <2>1. /\ wr = "write" /\ \A n \in Slots : disk'[n] = disk[n]
        /\ UNCHANGED <<written, broken, FileName>>
        /\ I' = QuickSaveExtraSlots /\ NewName' = QuickSaveExtraSlots + 1
        /\ wr' = "rotateDelete" \/ (wr' = "delete" /\ ~Rotates)
    BY <1>5 DEF WriteTemp, NoFault
  <2>2. QED
    BY <2>1 DEF SlotInv, Vacated, Moved, Expected, NewestOf, Rotates
<1>6. CASE RotateDelete
  <2>1. CASE broken'
    BY <2>1 DEF SlotInv
  <2>2. CASE ~broken'
    <3>1. /\ wr = "rotateDelete" /\ wr' = "rotateRename" /\ ~broken
          /\ disk' = [disk EXCEPT ![NewName] = NoFile]
          /\ UNCHANGED <<written, FileName, I, NewName>>
      BY <1>6, <2>2 DEF RotateDelete, Delete, NoFault, Fault
    <3>2. QED
      BY <3>1 DEF SlotInv, Vacated, Moved, Expected, NewestOf, NoFile
  <2>3. QED
    BY <2>1, <2>2
<1>7. CASE RotateRename
  <2>1. CASE broken'
    BY <2>1 DEF SlotInv
  <2>2. CASE ~broken'
    <3>1. /\ wr = "rotateRename" /\ ~broken /\ UNCHANGED <<written, FileName>>
          /\ wr' = IF I > 1 THEN "rotateDelete" ELSE "delete"
          /\ NewName' = I /\ I' = I - 1
      BY <1>7, <2>2 DEF RotateRename, NextRotation, NoFault, Fault
    <3>2. I \in Slots /\ I >= 1 /\ NewName = I + 1 /\ FileName = QuickName
      BY <3>1 DEF StepInv
    <3>3. /\ disk[NewName].game = 0 /\ disk[I].game = Expected(I)
          /\ \A n \in Slots : n < I => disk[n].game = Expected(n)
          /\ \A n \in Slots : n > NewName => disk[n].game = Expected(n - 1)
      BY <3>1, <3>2 DEF SlotInv, Vacated, Moved
    <3>4. disk[NewName] = NoFile
      BY <3>3 DEF AgeInv
    <3>5. \/ disk' = [disk EXCEPT ![I] = NoFile, ![NewName] = disk[I]]
          \/ disk[I] = NoFile /\ disk' = disk
      BY <1>7, <2>2, <3>4 DEF RotateRename, Move, files, Fault
    <3>6. /\ disk'[I].game = 0 /\ disk'[NewName].game = disk[I].game
          /\ \A n \in Slots \ {I, NewName} : disk'[n] = disk[n]
      <4>1. NoFile.game = 0 /\ I # NewName /\ I \in DOMAIN disk /\ NewName \in DOMAIN disk
        BY <3>2 DEF NoFile
      <4>2. CASE disk' = [disk EXCEPT ![I] = NoFile, ![NewName] = disk[I]]
        BY <4>1, <4>2
      <4>3. CASE disk[I] = NoFile /\ disk' = disk
        BY <3>4, <4>1, <4>3
      <4>4. QED
        BY <3>5, <4>2, <4>3
    <3>7. \A n : Expected(n)' = Expected(n)
      BY <3>1 DEF Expected, NewestOf
    <3>8. \A n \in Slots : /\ Vacated(n)' <=> n = I
                           /\ Moved(n)' <=> n > I
      BY <3>1, <3>2 DEF Vacated, Moved, Rotates
    <3>9. ASSUME NEW n \in Slots
          PROVE  disk'[n].game = IF n = I THEN 0
                                 ELSE IF n > I THEN Expected(n - 1) ELSE Expected(n)
      <4>1. CASE n = I
        BY <3>6, <4>1
      <4>2. CASE n = NewName
        <5>1. n > I /\ n - 1 = I /\ n # I
          BY <3>2, <4>2
        <5>2. QED
          BY <3>3, <3>6, <4>2, <5>1
      <4>3. CASE n < I
        BY <3>2, <3>3, <3>6, <4>3
      <4>4. CASE n > NewName
        BY <3>2, <3>3, <3>6, <4>4
      <4>5. QED
        BY <3>2, <4>1, <4>2, <4>3, <4>4
    <3>10. QED
      BY <3>7, <3>8, <3>9 DEF SlotInv
  <2>3. QED
    BY <2>1, <2>2
<1>8. CASE DeleteTarget
  <2>1. CASE broken'
    BY <2>1 DEF SlotInv
  <2>2. CASE ~broken'
    <3>1. /\ wr = "delete" /\ wr' = "rename" /\ ~broken
          /\ disk' = [disk EXCEPT ![FileName] = NoFile]
          /\ UNCHANGED <<written, FileName, I, NewName>>
      BY <1>8, <2>2 DEF DeleteTarget, Delete, NoFault, Fault
    <3>2. QED
      BY <3>1 DEF SlotInv, Vacated, Moved, Expected, NewestOf, NoFile, Rotates
  <2>3. QED
    BY <2>1, <2>2
<1>9. CASE RenameTemp
  <2>1. /\ wr = "rename" /\ wr' = "clean" /\ UNCHANGED <<broken, FileName>>
        /\ disk' = [disk EXCEPT ![TempName] = NoFile, ![FileName] = disk[TempName]]
        /\ written' = [written EXCEPT ![FileName] = <<Buffers>> \o @]
    BY <1>9 DEF RenameTemp, Move
  <2>2. disk[TempName].game = Buffers
    BY <2>1 DEF StepInv, Replacing
  <2>3. /\ disk'[FileName].game = Buffers
        /\ \A n \in Slots \ {FileName} : disk'[n] = disk[n]
    BY <2>1, <2>2
  <2>4. SUFFICES ASSUME ~broken, NEW n \in Slots  PROVE disk'[n].game = Expected(n)'
    BY <2>1 DEF SlotInv, Vacated, Moved
  <2>5. CASE n = FileName
    BY <2>1, <2>3, <2>5, WrittenShifts
  <2>6. CASE n # FileName /\ Rotates /\ n > QuickName
    <3>1. disk[n].game = Expected(n - 1)
      BY <2>1, <2>4, <2>6 DEF SlotInv, Vacated, Moved
    <3>2. FileName = QuickName /\ n \in Slots \ {AutoName, QuickName}
      BY <2>6 DEF Rotates
    <3>3. Expected(n)' = Expected(n - 1)
      BY <2>1, <3>2, WrittenShifts
    <3>4. QED
      BY <2>3, <2>6, <3>1, <3>3
  <2>7. CASE n # FileName /\ ~(Rotates /\ n > QuickName)
    <3>1. disk[n].game = Expected(n)
      BY <2>1, <2>4, <2>7 DEF SlotInv, Vacated, Moved
    <3>2. FileName = AutoName \/ n = AutoName
      BY <2>7 DEF Rotates
    <3>3. Expected(n)' = Expected(n)
      BY <2>1, <2>7, <3>2, WrittenShifts
    <3>4. QED
      BY <2>3, <2>7, <3>1, <3>3
  <2>8. QED
    BY <2>5, <2>6, <2>7
<1>10. CASE RenameFails
  <2>1. CASE broken'
    BY <2>1 DEF SlotInv
  <2>2. CASE ~broken'
    <3>1. wr = "rename" /\ ~broken /\ disk[FileName] # NoFile
      BY <1>10, <2>2 DEF RenameFails, NoFault, Fault
    <3>2. disk[FileName].game = 0
      BY <3>1 DEF SlotInv, Vacated
    <3>3. QED
      BY <3>1, <3>2 DEF AgeInv
  <2>3. QED
    BY <2>1, <2>2
<1>11. QED
  BY <1>1, <1>2, <1>3, <1>4, <1>5, <1>6, <1>7, <1>8, <1>9, <1>10 DEF Next, WriterProceeds

-----------------------------------------------------------------------------
\* Every variable of the save writer keeps its type, and saves stay whole and in
\* order: the inductive invariant holds in every reachable state (118-249).
THEOREM Inductive == Spec => []IInv
<1>1. ASSUME Init  PROVE IInv
  <2> USE <1>1, SlotsAssumption, Names DEF Init, NoFile
  <2>1. TypeOK
    <3>1. NoFile \in [game : Games, whole : BOOLEAN]
      BY DEF Games
    <3>2. written \in [Targets -> Seq(Games)]
      OBVIOUS
    <3>3. broken \in BOOLEAN
      OBVIOUS
    <3>4. disk \in [Slots \cup {TempName} -> [game : Games, whole : BOOLEAN]]
      BY <3>1
    <3>5. targetOf \in [1..MaxSaves -> Targets]
      OBVIOUS
    <3>6. QED
      BY <3>2, <3>3, <3>4, <3>5 DEF TypeOK, Games
  <2>2. LockInv /\ RequestInv /\ StepInv
    BY DEF LockInv, RequestInv, StepInv, IsRunning, Replacing
  <2>3. \A n \in Slots : disk[n] = NoFile
    OBVIOUS
  <2>4. AgeInv /\ SavesAreWhole
    BY <2>3 DEF AgeInv, SavesAreWhole, IsRunning
  <2>5. \A n \in Slots : Expected(n) = 0
    <3>1. \A t \in Targets : written[t] = <<>> /\ Len(written[t]) = 0
      OBVIOUS
    <3>2. QED
      BY <3>1 DEF Expected, NewestOf
  <2>6. SlotInv
    BY <2>3, <2>5 DEF SlotInv, Vacated, Moved
  <2>7. QED
    BY <2>1, <2>2, <2>4, <2>6 DEF IInv
<1>2. ASSUME IInv, [Next]_vars  PROVE IInv'
  BY <1>2, TypeStep, LockStep, RequestStep, StepStep, AgeStep, WholeStep, SlotStep DEF IInv
<1>3. QED
  BY <1>1, <1>2, PTL DEF Spec

\* The variables keep their types, for any setting of slots, saves, failures and
\* crashes.
THEOREM TypeCorrect == Spec => []TypeOK
<1>1. IInv => TypeOK
  BY DEF IInv
<1>2. QED
  BY <1>1, Inductive, PTL

\* No crash or failure leaves a torn file under the name of a save, nor a game
\* under another name than it was saved for (139-188).
THEOREM Whole == Spec => []SavesAreWhole
<1>1. IInv => SavesAreWhole
  BY DEF IInv
<1>2. QED
  BY <1>1, Inductive, PTL

\* The slots hold the newest saves, in order, unless a replacement was cut short
\* (169-188).
THEOREM Newest == Spec => []SlotsHoldTheNewest
<1>1. IInv => SlotsHoldTheNewest
  BY DEF IInv, SlotInv, SlotsHoldTheNewest, Vacated, Moved, Replacing
<1>2. QED
  BY <1>1, Inductive, PTL

\* A load that meets no failed replacement restores the newest save of its name:
\* it cannot meet a replacement half done (394-555).
THEOREM LoadFinds == Spec => LoadFindsTheSave
<1>1. ASSUME IInv, Next, ui = "reading", ui' \in {"menu", "playing"}, crashes' = crashes, ~broken
      PROVE  galaxy' = Expected(request)
  <2> USE <1>1 DEF IInv
  <2>1. Loaded
    <3>1. ~(WriterProceeds \/ WriteFails)
      BY DEF WriterProceeds, WriteFails, Execute, CreateTemp, WriteTemp, RotateDelete,
         RotateRename, NextRotation, DeleteTarget, Delete, RenameTemp, RenameFails, CleanUp,
         Continue, client
    <3>2. ~Crash
      <4>1. crashes \in Nat
        BY SlotsAssumption DEF TypeOK
      <4>2. QED
        BY <4>1 DEF Crash
    <3>3. QED
      BY <3>1, <3>2 DEF Next, SaveGameToFile, Load, NewGame, Finalize, ClientProceeds,
         QueueSave, AssignAndStart, LoadGameFromFile, FinalizeSaveWriter, DestroyWriter
  <2>2. request \in Slots
    BY DEF TypeOK
  <2>3. wr \in {"idle", "queued"}
    BY DEF LockInv
  <2>4. disk[request].game = Expected(request)
    BY <2>2, <2>3 DEF SlotInv, Vacated, Moved
  <2>5. disk[request].whole
    BY <2>2 DEF SavesAreWhole, NoFile
  <2>6. QED
    BY <2>1, <2>4, <2>5 DEF Loaded
<1>2. IInv /\ [Next]_vars =>
        [ui = "reading" /\ ui' \in {"menu", "playing"} /\ crashes' = crashes /\ ~broken =>
            galaxy' = Expected(request)]_vars
  BY <1>1
<1>3. QED
  BY <1>2, Inductive, PTL DEF Spec, LoadFindsTheSave

\* A game leaves the disk only when save.tmp holds a newer one for its name: no
\* failure and no crash costs a save that was not about to be replaced (185-188).
THEOREM Replaced == Spec => OnlyReplacedSavesAreRemoved
<1> DEFINE Removed(s) == (\E n \in Slots : disk[n].game = s) /\ ~OnDisk(s)'
           Newer(s) == /\ disk[TempName].whole
                       /\ disk[TempName].game > s
                       /\ targetOf[disk[TempName].game] = targetOf[s]
<1>1. ASSUME IInv, Next, NEW s \in 1..MaxSaves, Removed(s)  PROVE Newer(s)
  <2> USE <1>1, SlotsAssumption, Names DEF IInv, TypeOK
  <2>1. PICK n \in Slots : disk[n].game = s
    OBVIOUS
  <2>2. DOMAIN disk' = DOMAIN disk /\ n \in DOMAIN disk
    BY TypeStep
  <2>3. disk'[n].game # s /\ \A f \in DOMAIN disk : disk'[f].game # s
    BY <2>2 DEF OnDisk
  <2>4. ASSUME NEW file \in Slots, Replacing, targetOf[Buffers] = targetOf[s], file = n
        PROVE  Newer(s)
    BY <2>1, <2>4 DEF StepInv, AgeInv, Replacing, IsRunning
  <2>5. disk[n] # NoFile /\ targetOf[s] = IF n = AutoName THEN AutoName ELSE QuickName
    BY <2>1 DEF NoFile, SavesAreWhole
  <2>6. CASE RotateDelete
    <3>1. disk' = [disk EXCEPT ![NewName] = NoFile] \/ disk' = disk
      BY <2>6 DEF RotateDelete, Delete, files
    <3>2. n = NewName
      BY <2>1, <2>2, <2>3, <3>1
    <3>3. wr = "rotateDelete" /\ NewName # AutoName /\ targetOf[Buffers] = QuickName
      BY <2>6 DEF RotateDelete, StepInv, RequestInv, IsRunning
    <3>4. QED
      BY <2>4, <2>5, <3>2, <3>3 DEF Replacing
  <2>7. CASE DeleteTarget
    <3>1. disk' = [disk EXCEPT ![FileName] = NoFile] \/ disk' = disk
      BY <2>7 DEF DeleteTarget, Delete, files
    <3>2. n = FileName
      BY <2>1, <2>2, <2>3, <3>1
    <3>3. wr = "delete" /\ targetOf[Buffers] = FileName
      BY <2>7 DEF DeleteTarget, RequestInv, IsRunning
    <3>4. QED
      BY <2>4, <2>5, <3>2, <3>3 DEF Replacing
  <2>8. CASE RotateRename
    <3>1. I \in Slots /\ NewName \in Slots /\ I # NewName
      BY <2>8 DEF RotateRename, StepInv
    <3>2. \/ disk' = disk
          \/ disk[NewName] = NoFile /\ disk' = [disk EXCEPT ![I] = NoFile, ![NewName] = disk[I]]
      BY <2>8 DEF RotateRename, Move, files
    <3>3. disk'[n] = disk[n] \/ (n = I /\ disk'[NewName] = disk[n])
      BY <2>5, <3>1, <3>2
    <3>4. QED
      BY <2>1, <2>3, <3>1, <3>3
  <2>9. CASE RenameTemp
    <3>1. disk[FileName] = NoFile
          /\ disk' = [disk EXCEPT ![TempName] = NoFile, ![FileName] = disk[TempName]]
      BY <2>9 DEF RenameTemp, Move
    <3>2. disk'[n] = disk[n]
      BY <2>5, <3>1
    <3>3. QED
      BY <2>1, <2>3, <3>2
  <2>10. CASE CreateTemp \/ WriteTemp \/ CleanUp
    <3>1. disk'[n] = disk[n]
      BY <2>10 DEF CreateTemp, WriteTemp, CleanUp
    <3>2. QED
      BY <2>1, <2>3, <3>1
  <2>11. CASE UNCHANGED disk
    BY <2>1, <2>3, <2>11
  <2>12. QED
    BY <2>6, <2>7, <2>8, <2>9, <2>10, <2>11
       DEF Next, SaveGameToFile, Load, NewGame, Finalize, ClientProceeds, QueueSave,
       AssignAndStart, LoadGameFromFile, Loaded, FinalizeSaveWriter, DestroyWriter,
       WriterProceeds, Execute, RenameFails, WriteFails, Crash, files
<1>2. IInv /\ [Next]_vars => [\A s \in 1..MaxSaves : Removed(s) => Newer(s)]_vars
  BY <1>1
<1>3. QED
  BY <1>2, Inductive, PTL DEF Spec, OnlyReplacedSavesAreRemoved
=============================================================================
