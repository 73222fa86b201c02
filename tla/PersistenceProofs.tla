-------------------------- MODULE PersistenceProofs --------------------------
(***************************************************************************)
(* Theorems about Persistence, for any number of processes, writes,        *)
(* pieces, faults and kills.                                               *)
(*                                                                         *)
(* The invariant has three parts.  Processes holds without condition; it   *)
(* says what a process in a given place may own.  Alone holds until a      *)
(* server stops or starts beside a saving child, and gives .tmp one        *)
(* writer.  Snapshots builds on both: it follows the pieces of the one     *)
(* snapshot being written up to the rename.                                *)
(***************************************************************************)
EXTENDS Persistence, TLAPS

Writing(p) == pc[p] \in {"write", "rename"}

\* Where a process is once it has created its file and has its data in one.
Begun == {"write", "rename"} \cup Ended

Processes ==
    /\ \A p \in Pid : pc[p] = "serving" => p = main
    /\ main # NONE => pc[main] \in SavePc \cup {"serving"}
    /\ \A p \in Pid : Writing(p) => fd[p] # NONE
    /\ \A p \in Pid : ~ Writing(p) => written[p] = 0
    /\ \A f \in File, c \in Chunk : content[f][c] # NONE => pc[content[f][c]] \in Begun
    /\ tmp # NONE => pc[tmp] \in Begun
    /\ db # NONE => pc[db] \in Begun
    /\ tmp # NONE => tmp # db
    /\ stopped = "saved" => main = NONE

Alone ==
    ~ raced =>
        /\ \A p, q \in Savers : p = q
        /\ \A p \in Savers : p = main \/ p = chilld_pid
        /\ stopped = "saved" => Savers = {}
        /\ \A p \in Pid : Writing(p) => fd[p] = tmp

\* The pieces a saver has been through are its own.
Pieces ==
    /\ \A p \in Pid : pc[p] = "write" =>
          \A c \in Chunk : c <= written[p] => content[fd[p]][c] = p
    /\ \A p \in Pid : pc[p] = "rename" => \A c \in Chunk : content[fd[p]][c] = p

\* Snapshots only grow: from the disk to what is being saved, to the memory.
Growing ==
    /\ main # NONE => Saved \subseteq mem
    /\ main # NONE /\ pc[main] \in SavePc => snap[main] = mem
    /\ \A p \in Savers : Saved \subseteq snap[p]
    /\ main # NONE => \A p \in Savers : snap[p] \subseteq mem
    /\ stopped = "saved" => Saved = mem

Snapshots ==
    ~ raced /\ ~ dropped => Pieces /\ Growing /\ (db # NONE => Complete(db))

IInv == TypeOK /\ Processes /\ Alone /\ Snapshots

USE ChunkAssumption, SlotAssumption, NoneAssumption, BoundAssumption DEF Ended

-----------------------------------------------------------------------------
(* Types.                                                                   *)

\* A process that returns from SaveToFile leaves the types as they are.
LEMMA ReturnTypes ==
    ASSUME TypeOK, NEW p \in Pid,
           NEW r \in Ended, Return(p, r)
    PROVE  /\ pc' \in [Pid -> SavePc \cup Ended \cup {"unused", "serving"}]
           /\ fd' \in [Pid -> File \cup {NONE}]
           /\ written' \in [Pid -> 0..NChunks]
           /\ main' \in Pid \cup {NONE}
           /\ stopped' \in Ended \cup {"no"}
    BY DEF TypeOK, Return, File

\* Opening .tmp leaves the files in their types.
LEMMA TruncateTypes ==
    ASSUME TypeOK, NEW p \in Pid, Truncate(p)
    PROVE  /\ content' \in [File -> [Chunk -> Pid \cup {NONE}]]
           /\ tmp' \in File /\ db' \in File \cup {NONE}
    BY DEF TypeOK, Truncate, TmpFile, File

\* Every step keeps every variable in its type.
LEMMA TypeStep == TypeOK /\ Processes /\ [Next]_vars => TypeOK'
<1> SUFFICES ASSUME TypeOK, Processes, [Next]_vars PROVE TypeOK'
    OBVIOUS
<1>1. ASSUME NEW p \in Pid, Start(p) PROVE TypeOK'
    BY <1>1 DEF TypeOK, Start, disk
<1>2. ASSUME NEW w \in Write, Set(w) PROVE TypeOK'
    BY <1>2 DEF TypeOK, Set, saving, disk, history
<1>3. CASE TimePasses
    BY <1>3 DEF TypeOK, TimePasses, saving, disk, history
<1>4. ASSUME NEW p \in Pid, OnIdle(p) PROVE TypeOK'
    BY <1>4 DEF TypeOK, OnIdle, SavePc, disk, history
<1>5. CASE OnTick
    BY <1>5 DEF TypeOK, OnTick, saving, disk, history
<1>6. CASE OnExit
    BY <1>6 DEF TypeOK, OnExit, SavePc, server, disk
<1>7. ASSUME NEW p \in Pid, OpenTmp(p) PROVE TypeOK'
    BY <1>7, TruncateTypes DEF TypeOK, OpenTmp, TmpFile, SavePc, File, server, history
<1>8. ASSUME NEW p \in Pid, OpenFails(p) PROVE TypeOK'
  <2>1. /\ content' \in [File -> [Chunk -> Pid \cup {NONE}]]
        /\ tmp' \in File \cup {NONE} /\ db' \in File \cup {NONE}
      BY <1>8, TruncateTypes DEF OpenFails, TypeOK, disk
  <2> QED
      BY <1>8, <2>1, ReturnTypes DEF TypeOK, OpenFails, Fault
<1>9. ASSUME NEW p \in Pid, WriteRecords(p) PROVE TypeOK'
  <2>1. fd[p] \in File /\ written[p] + 1 \in Chunk
      BY <1>9 DEF WriteRecords, TypeOK, Processes, Writing, Chunk
  <2>2. written' \in [Pid -> 0..NChunks]
      BY <1>9, <2>1 DEF WriteRecords, TypeOK, Chunk
  <2>3. [content[fd[p]] EXCEPT ![written[p] + 1] = p] \in [Chunk -> Pid \cup {NONE}]
      BY <2>1 DEF TypeOK
  <2>4. content' \in [File -> [Chunk -> Pid \cup {NONE}]]
      BY <1>9, <2>1, <2>3 DEF WriteRecords, TypeOK
  <2> QED
      BY <1>9, <2>2, <2>4 DEF WriteRecords, TypeOK, server, history
<1>10. ASSUME NEW p \in Pid, WriteFails(p) PROVE TypeOK'
  <2>1. written' \in [Pid -> 0..NChunks]
      BY <1>10 DEF WriteFails, TypeOK
  <2> QED
      BY <1>10, <2>1 DEF WriteFails, Fault, TypeOK, server, disk
<1>11. ASSUME NEW p \in Pid, Sync(p) PROVE TypeOK'
    BY <1>11 DEF TypeOK, Sync, SavePc, server, disk, history
<1>12. ASSUME NEW p \in Pid, SyncFails(p) PROVE TypeOK'
    BY <1>12, ReturnTypes DEF TypeOK, SyncFails, Fault, disk
<1>13. ASSUME NEW p \in Pid, Rename(p) PROVE TypeOK'
    BY <1>13, ReturnTypes DEF TypeOK, Rename
<1>14. ASSUME NEW p \in Pid, RenameFails(p) PROVE TypeOK'
    BY <1>14, ReturnTypes DEF TypeOK, RenameFails, Fault
<1>15. ASSUME NEW p \in Pid, Kill(p) PROVE TypeOK'
    BY <1>15, ReturnTypes DEF TypeOK, Kill, disk
<1>16. CASE UNCHANGED vars
    BY <1>16 DEF TypeOK, vars, server, saving, disk, history
<1> QED
    BY <1>1, <1>2, <1>3, <1>4, <1>5, <1>6, <1>7, <1>8, <1>9, <1>10, <1>11,
       <1>12, <1>13, <1>14, <1>15, <1>16 DEF Next, SaveStep

\* The initial state satisfies the whole invariant.
LEMMA InitIInv == Init => IInv
<1> SUFFICES ASSUME Init PROVE IInv
    OBVIOUS
<1>1. TypeOK
  <2>1. /\ written \in [Pid -> 0..NChunks]
        /\ faults \in 0..MaxFaults /\ kills \in 0..MaxKills
      BY DEF Init
  <2> QED
      BY <2>1 DEF Init, TypeOK, File
<1>2. Processes
    BY DEF Init, Processes, Writing, Begun, File
<1>3. Savers = {}
    BY DEF Init, Savers, SavePc
<1>4. Alone /\ Snapshots
    BY <1>3 DEF Init, Alone, Snapshots, Pieces, Growing, Writing
<1> QED
    BY <1>1, <1>2, <1>4 DEF IInv

-----------------------------------------------------------------------------
(* What a process owns.                                                     *)

\* A process that returns from SaveToFile owns nothing.
LEMMA ReturnProcesses ==
    ASSUME TypeOK, Processes, NEW p \in Pid, pc[p] \in SavePc \cup {"serving"},
           NEW r \in Ended, Return(p, r),
           \A f \in File, c \in Chunk : content'[f][c] \in {content[f][c], NONE},
           tmp' = NONE \/ tmp' = tmp \/ (pc[p] = "open" /\ tmp' = p),
           db' = db \/ (pc[p] = "rename" /\ db' = tmp /\ tmp' = NONE)
    PROVE  Processes'
<1>1. /\ \A q \in Pid : pc'[q] = IF q = p THEN r ELSE pc[q]
      /\ \A q \in Pid : fd'[q] = IF q = p THEN NONE ELSE fd[q]
      /\ \A q \in Pid : written'[q] = IF q = p THEN 0 ELSE written[q]
    BY DEF TypeOK, Return
<1>2. /\ \A q \in Pid : pc'[q] = "serving" => q = main'
      /\ main' # NONE => pc'[main'] \in SavePc \cup {"serving"}
      /\ stopped' = "saved" => main' = NONE
    BY <1>1 DEF Processes, TypeOK, Return
<1>3. /\ \A q \in Pid : Writing(q)' => fd'[q] # NONE
      /\ \A q \in Pid : ~ Writing(q)' => written'[q] = 0
    BY <1>1 DEF Processes, Writing
<1>4. \A f \in File, c \in Chunk : content'[f][c] # NONE => pc'[content'[f][c]] \in Begun
    BY <1>1 DEF Processes, Begun, TypeOK
<1>5. /\ tmp' # NONE => pc'[tmp'] \in Begun
      /\ db' # NONE => pc'[db'] \in Begun
    BY <1>1 DEF Processes, Begun, TypeOK, File
<1>6. tmp' # NONE => tmp' # db'
    BY DEF Processes, Begun, TypeOK
<1> QED
    BY <1>2, <1>3, <1>4, <1>5, <1>6 DEF Processes, Writing

\* A process that saves owns the file it opened; data in a file are those of a
\* process that has begun to write.
LEMMA ProcessesStep == TypeOK /\ Processes /\ [Next]_vars => Processes'
<1> SUFFICES ASSUME TypeOK, Processes, [Next]_vars PROVE Processes'
    OBVIOUS
<1> USE DEF TypeOK, Processes, Writing, Begun, SavePc, File, Chunk
<1>1. ASSUME NEW p \in Pid, Start(p) PROVE Processes'
    BY <1>1 DEF Start, disk
<1>2. ASSUME NEW w \in Write, Set(w) PROVE Processes'
    BY <1>2 DEF Set, saving, disk, history
<1>3. CASE TimePasses
    BY <1>3 DEF TimePasses, saving, disk, history
<1>4. ASSUME NEW p \in Pid, OnIdle(p) PROVE Processes'
    BY <1>4 DEF OnIdle, Serving, disk, history
<1>5. CASE OnTick
    BY <1>5 DEF OnTick, saving, disk, history
<1>6. CASE OnExit
    BY <1>6 DEF OnExit, Serving, server, disk
<1>7. ASSUME NEW p \in Pid, OpenTmp(p) PROVE Processes'
    BY <1>7 DEF OpenTmp, Truncate, TmpFile, server, history
<1>8. ASSUME NEW p \in Pid, OpenFails(p) PROVE Processes'
  <2>1. \A f \in File, c \in Chunk : content'[f][c] \in {content[f][c], NONE}
    <3>1. CASE UNCHANGED disk
        BY <3>1 DEF disk
    <3>2. CASE Truncate(p)
        BY <3>2 DEF Truncate
    <3> QED
        BY <1>8, <3>1, <3>2 DEF OpenFails
  <2>2. (tmp' = tmp \/ (tmp = NONE /\ tmp' = p)) /\ db' = db
      BY <1>8 DEF OpenFails, Truncate, TmpFile, disk
  <2>3. pc[p] = "open" /\ Return(p, "unsaved")
      BY <1>8 DEF OpenFails
  <2> QED
      BY <2>1, <2>2, <2>3, ReturnProcesses
<1>9. ASSUME NEW p \in Pid, WriteRecords(p) PROVE Processes'
    BY <1>9 DEF WriteRecords, server, history
<1>10. ASSUME NEW p \in Pid, WriteFails(p) PROVE Processes'
    BY <1>10 DEF WriteFails, server, disk
<1>11. ASSUME NEW p \in Pid, Sync(p) PROVE Processes'
    BY <1>11 DEF Sync, server, disk, history
<1>12. ASSUME NEW p \in Pid, SyncFails(p) PROVE Processes'
    BY <1>12, ReturnProcesses DEF SyncFails, disk
<1>13. ASSUME NEW p \in Pid, Rename(p) PROVE Processes'
    BY <1>13, ReturnProcesses DEF Rename
<1>14. ASSUME NEW p \in Pid, RenameFails(p) PROVE Processes'
    BY <1>14, ReturnProcesses DEF RenameFails
<1>15. ASSUME NEW p \in Pid, Kill(p) PROVE Processes'
    BY <1>15, ReturnProcesses DEF Kill, disk
<1>16. CASE UNCHANGED vars
    BY <1>16 DEF vars, server, saving, disk, history
<1> QED
    BY <1>1, <1>2, <1>3, <1>4, <1>5, <1>6, <1>7, <1>8, <1>9, <1>10, <1>11,
       <1>12, <1>13, <1>14, <1>15, <1>16 DEF Next, SaveStep

-----------------------------------------------------------------------------
(* One writer of .tmp.                                                      *)

\* Where a process is decides whether it is a saver.
LEMMA SaverIff == \A p \in Pid : p \in Savers <=> pc[p] \in SavePc
    BY DEF Savers

LEMMA SaverIffNext == \A p \in Pid : p \in Savers' <=> pc'[p] \in SavePc
    BY DEF Savers

\* A process that returns from SaveToFile, or that served, leaves one saver less.
LEMMA ReturnAlone ==
    ASSUME TypeOK, Processes, Alone, NEW p \in Pid, pc[p] \in SavePc \cup {"serving"},
           NEW r \in Ended, Return(p, r),
           r = "saved" => pc[p] \in SavePc,
           chilld_pid' = chilld_pid, raced' = raced,
           tmp' = tmp \/ pc[p] \in SavePc
    PROVE  Alone'
<1> SUFFICES ASSUME ~ raced PROVE Alone'
    BY DEF Alone
<1>1. \A q \in Pid : pc'[q] = IF q = p THEN r ELSE pc[q]
    BY DEF TypeOK, Return
<1>2. Savers' = Savers \ {p}
    BY <1>1 DEF Savers, SavePc
<1>3. \A q \in Savers' : q = main' \/ q = chilld_pid'
    BY <1>2 DEF Alone, Return
<1>4. stopped' = "saved" => Savers' = {}
    BY <1>2, SaverIff DEF Alone, Return
<1>5. \A q \in Pid : Writing(q)' => fd'[q] = tmp'
    BY <1>1, SaverIff DEF Alone, Return, Writing, SavePc, TypeOK
<1> QED
    BY <1>2, <1>3, <1>4, <1>5 DEF Alone, Writing

\* A server forks only when it has no child and starts to save by itself only
\* when it stops; a history without a race leaves one saver at a time.
LEMMA AloneStep == TypeOK /\ Processes /\ Alone /\ [Next]_vars => Alone'
<1> SUFFICES ASSUME TypeOK, Processes, Alone, [Next]_vars PROVE Alone'
    OBVIOUS
<1> USE SaverIff, SaverIffNext DEF TypeOK, SavePc
<1>1. ASSUME NEW p \in Pid, Start(p) PROVE Alone'
  <2>1. Savers' = Savers
      BY <1>1 DEF Start, Savers
  <2> QED
      BY <1>1, <2>1 DEF Start, Alone, Writing
<1>2. ASSUME NEW w \in Write, Set(w) PROVE Alone'
    BY <1>2 DEF Set, Alone, Writing, Savers, saving, disk, history
<1>3. CASE TimePasses
    BY <1>3 DEF TimePasses, Alone, Writing, Savers, saving, disk, history
<1>4. ASSUME NEW p \in Pid, OnIdle(p) PROVE Alone'
  <2> SUFFICES ASSUME ~ raced PROVE Alone'
      BY <1>4 DEF OnIdle, history, Alone
  <2>1. Savers = {}
      BY <1>4 DEF OnIdle, Serving, MayFork, Alone, Savers
  <2>2. Savers' = {p}
    <3>1. \A q \in Pid : pc'[q] = IF q = p THEN "open" ELSE pc[q]
        BY <1>4 DEF OnIdle
    <3> QED
        BY <2>1, <3>1 DEF Savers
  <2>3. stopped' # "saved"
      BY <1>4 DEF OnIdle, Serving, Processes, history
  <2> QED
      BY <1>4, <2>2, <2>3 DEF OnIdle, Alone, Writing, disk, history
<1>5. CASE OnTick
  <2>1. chilld_pid' = chilld_pid
      BY <1>5 DEF OnTick, Wait3, SigChldIgnored
  <2> QED
      BY <1>5, <2>1 DEF OnTick, Alone, Writing, Savers, saving, disk, history
<1>6. CASE OnExit
  <2> SUFFICES ASSUME ~ raced' PROVE Alone'
      BY DEF Alone
  <2>1. Savers = {} /\ main \in Pid /\ stopped # "saved"
      BY <1>6 DEF OnExit, Serving, Processes
  <2>2. Savers' = {main}
    <3>1. \A q \in Pid : pc'[q] = IF q = main THEN "open" ELSE pc[q]
        BY <1>6 DEF OnExit
    <3> QED
        BY <2>1, <3>1 DEF Savers
  <2> QED
      BY <1>6, <2>1, <2>2 DEF OnExit, Alone, Writing, server, disk
<1>7. ASSUME NEW p \in Pid, OpenTmp(p) PROVE Alone'
  <2>1. Savers' = Savers
      BY <1>7 DEF OpenTmp, Savers
  <2>2. ~ raced => Savers = {p}
      BY <1>7 DEF OpenTmp, Alone, Savers
  <2> QED
      BY <1>7, <2>1, <2>2 DEF OpenTmp, Truncate, Alone, Writing, server, history
<1>8. ASSUME NEW p \in Pid, OpenFails(p) PROVE Alone'
    BY <1>8, ReturnAlone DEF OpenFails
<1>9. ASSUME NEW p \in Pid, WriteRecords(p) PROVE Alone'
    BY <1>9 DEF WriteRecords, Alone, Writing, Savers, server, history
<1>10. ASSUME NEW p \in Pid, WriteFails(p) PROVE Alone'
    BY <1>10 DEF WriteFails, Alone, Writing, Savers, server, disk
<1>11. ASSUME NEW p \in Pid, Sync(p) PROVE Alone'
  <2>1. Savers' = Savers
      BY <1>11 DEF Sync, Savers
  <2> QED
      BY <1>11, <2>1 DEF Sync, Alone, Writing, server, disk, history
<1>12. ASSUME NEW p \in Pid, SyncFails(p) PROVE Alone'
    BY <1>12, ReturnAlone DEF SyncFails, disk
<1>13. ASSUME NEW p \in Pid, Rename(p) PROVE Alone'
    BY <1>13, ReturnAlone DEF Rename
<1>14. ASSUME NEW p \in Pid, RenameFails(p) PROVE Alone'
    BY <1>14, ReturnAlone DEF RenameFails
<1>15. ASSUME NEW p \in Pid, Kill(p) PROVE Alone'
    BY <1>15, ReturnAlone DEF Kill, disk
<1>16. CASE UNCHANGED vars
    BY <1>16 DEF vars, server, saving, disk, history, Alone, Writing, Savers
<1> QED
    BY <1>1, <1>2, <1>3, <1>4, <1>5, <1>6, <1>7, <1>8, <1>9, <1>10, <1>11,
       <1>12, <1>13, <1>14, <1>15, <1>16 DEF Next, SaveStep

-----------------------------------------------------------------------------
(* What is on disk.                                                         *)

\* A file whose pieces are all of one process gives back its snapshot.
LEMMA LoadedWhole ==
    ASSUME TypeOK, NEW f \in File, NEW q \in Pid, \A c \in Chunk : content[f][c] = q
    PROVE  Complete(f) /\ Loaded(f, NChunks) = snap[q]
    BY DEF Loaded, Complete, TypeOK, Chunk

\* What is on disk stays while the file and the snapshots in it stay.
LEMMA SavedKept ==
    ASSUME TypeOK, db' = db, db # NONE => content'[db] = content[db],
           \A f \in File, c \in Chunk :
              content[f][c] # NONE => snap'[content[f][c]] = snap[content[f][c]]
    PROVE  /\ Saved' = Saved
           /\ db # NONE => Complete(db)' = Complete(db)
<1>1. CASE db = NONE
    BY <1>1 DEF Saved
<1>2. CASE db \in File
  <2>1. Loaded(db, NChunks)' = Loaded(db, NChunks)
    <3>1. \A w \in Write : Slot[w] \in Chunk
        BY DEF Chunk
    <3>2. db # NONE
        BY <1>2 DEF File
    <3> QED
        BY <1>2, <3>1, <3>2 DEF Loaded
  <2> QED
      BY <1>2, <2>1 DEF Saved, Complete
<1> QED
    BY <1>1, <1>2 DEF TypeOK

\* A process that returns from SaveToFile with nothing renamed changes nothing
\* on disk.
LEMMA ReturnSnapshots ==
    ASSUME TypeOK, Processes, Alone, Snapshots, NEW p \in Pid,
           pc[p] \in SavePc \cup {"serving"},
           NEW r \in {"unsaved", "killed"}, Return(p, r),
           content' = content \/ pc[p] \in SavePc,
           db' = db, db # NONE => content'[db] = content[db],
           UNCHANGED <<mem, snap, raced, dropped>>
    PROVE  Snapshots'
<1> SUFFICES ASSUME ~ raced, ~ dropped PROVE Snapshots'
    BY DEF Snapshots
<1> USE SaverIff, SaverIffNext
<1>1. /\ \A q \in Pid : pc'[q] = IF q = p THEN r ELSE pc[q]
      /\ \A q \in Pid : fd'[q] = IF q = p THEN NONE ELSE fd[q]
      /\ \A q \in Pid : written'[q] = IF q = p THEN 0 ELSE written[q]
    BY DEF TypeOK, Return
<1>2. Saved' = Saved /\ (db # NONE => Complete(db)' = Complete(db))
    BY SavedKept
<1>3. Savers' = Savers \ {p}
    BY <1>1 DEF Savers, SavePc
<1>4. Pieces'
    BY <1>1 DEF Snapshots, Pieces, Alone, SavePc
<1>5. Growing'
    BY <1>1, <1>2, <1>3 DEF Snapshots, Growing, Return, TypeOK, SavePc
<1> QED
    BY <1>2, <1>4, <1>5 DEF Snapshots

\* SaveToFile renames only what it wrote whole, and what it writes is what the
\* last server holds.
LEMMA SnapshotsStep ==
    TypeOK /\ Processes /\ Alone /\ Snapshots /\ Alone' /\ [Next]_vars => Snapshots'
<1> SUFFICES ASSUME TypeOK, Processes, Alone, Snapshots, Alone', [Next]_vars,
                    ~ raced', ~ dropped'
             PROVE  Snapshots'
    BY DEF Snapshots
<1> USE SaverIff, SaverIffNext
<1>1. ASSUME NEW p \in Pid, Start(p) PROVE Snapshots'
  <2>1. /\ ~ raced /\ ~ dropped /\ Savers = {} /\ Savers' = {}
        /\ \A q \in Pid : pc'[q] = IF q = p THEN "serving" ELSE pc[q]
      BY <1>1 DEF Start, Savers, SavePc, TypeOK
  <2>2. Saved' = Saved /\ (db # NONE => Complete(db)' = Complete(db))
      BY <1>1, SavedKept DEF Start, disk
  <2>3. mem' = Saved
      BY <1>1, <2>1 DEF Start, CheckDbFileAndLoad, Saved, Snapshots
  <2>4. Pieces'
      BY <1>1, <2>1 DEF Start, Snapshots, Pieces, disk
  <2>5. Growing'
      BY <1>1, <2>1, <2>2, <2>3 DEF Start, Growing, SavePc, TypeOK
  <2> QED
      BY <1>1, <2>1, <2>2, <2>4, <2>5 DEF Snapshots, Start, disk
<1>2. ASSUME NEW w \in Write, Set(w) PROVE Snapshots'
  <2>1. Saved' = Saved /\ (db # NONE => Complete(db)' = Complete(db))
      BY <1>2, SavedKept DEF Set, saving, disk
  <2>2. Pieces' /\ ~ raced /\ ~ dropped /\ stopped' # "saved"
      BY <1>2 DEF Set, Serving, Processes, Pieces, Snapshots, saving, disk, history
  <2>3. Growing'
      BY <1>2, <2>1, <2>2 DEF Set, Serving, Growing, Savers, Snapshots, SavePc, saving, disk
  <2> QED
      BY <1>2, <2>1, <2>2, <2>3 DEF Snapshots, Set, disk
<1>3. CASE TimePasses
  <2>1. Saved' = Saved /\ (db # NONE => Complete(db)' = Complete(db))
      BY <1>3, SavedKept DEF TimePasses, saving, disk
  <2> QED
      BY <1>3, <2>1 DEF TimePasses, Snapshots, Pieces, Growing, Savers, saving, disk, history
<1>4. ASSUME NEW p \in Pid, OnIdle(p) PROVE Snapshots'
  <2>1. /\ ~ raced /\ ~ dropped /\ pc[p] = "unused"
        /\ \A q \in Pid : pc'[q] = IF q = p THEN "open" ELSE pc[q]
        /\ \A q \in Pid : snap'[q] = IF q = p THEN mem ELSE snap[q]
      BY <1>4 DEF OnIdle, TypeOK, history
  <2>2. Saved' = Saved /\ (db # NONE => Complete(db)' = Complete(db))
      BY <1>4, <2>1, SavedKept DEF OnIdle, Processes, Begun, TypeOK, disk
  <2>3. Pieces'
      BY <1>4, <2>1 DEF OnIdle, Snapshots, Pieces, disk
  <2>4. Growing'
      BY <1>4, <2>1, <2>2 DEF OnIdle, Serving, Processes, Snapshots, Growing, SavePc, Savers, history
  <2> QED
      BY <1>4, <2>2, <2>3, <2>4 DEF OnIdle, Snapshots, disk, history
<1>5. CASE OnTick
  <2>1. Saved' = Saved /\ (db # NONE => Complete(db)' = Complete(db))
      BY <1>5, SavedKept DEF OnTick, saving, disk
  <2> QED
      BY <1>5, <2>1 DEF OnTick, Snapshots, Pieces, Growing, Savers, saving, disk, history
<1>6. CASE OnExit
  <2>1. /\ ~ raced /\ ~ dropped /\ main \in Pid /\ pc[main] = "serving"
        /\ \A q \in Pid : pc'[q] = IF q = main THEN "open" ELSE pc[q]
        /\ \A q \in Pid : snap'[q] = IF q = main THEN mem ELSE snap[q]
      BY <1>6 DEF OnExit, Serving, TypeOK
  <2>2. Saved' = Saved /\ (db # NONE => Complete(db)' = Complete(db))
      BY <1>6, <2>1, SavedKept DEF OnExit, Processes, Begun, TypeOK, disk
  <2>3. Pieces'
      BY <1>6, <2>1 DEF OnExit, Snapshots, Pieces, disk
  <2>4. Growing'
      BY <1>6, <2>1, <2>2 DEF OnExit, Processes, Snapshots, Growing, SavePc, Savers, server
  <2> QED
      BY <1>6, <2>1, <2>2, <2>3, <2>4 DEF OnExit, Snapshots, disk
<1>7. ASSUME NEW p \in Pid, OpenTmp(p) PROVE Snapshots'
  <2>1. /\ ~ raced /\ ~ dropped /\ Savers = {p} /\ Savers' = {p}
        /\ pc[p] = "open" /\ written' = written /\ written[p] = 0
        /\ \A q \in Pid : pc'[q] = IF q = p THEN "write" ELSE pc[q]
    <3>1. ~ raced /\ ~ dropped /\ p \in Savers /\ Savers' = Savers
        BY <1>7 DEF OpenTmp, Savers, SavePc, TypeOK, history
    <3> QED
        BY <1>7, <3>1 DEF OpenTmp, Alone, Processes, Writing, SavePc, TypeOK
  <2>2. db # NONE => content'[db] = content[db]
      BY <1>7 DEF OpenTmp, Truncate, TmpFile, Processes, Begun, TypeOK
  <2>3. Saved' = Saved /\ (db # NONE => Complete(db)' = Complete(db))
      BY <1>7, <2>2, SavedKept DEF OpenTmp, Truncate
  <2>4. Pieces'
    <3>1. \A q \in Pid : q # p => pc'[q] \notin SavePc
        BY <2>1
    <3>2. \A c \in Chunk : ~ (c <= written'[p])
        BY <2>1 DEF Chunk
    <3> QED
        BY <2>1, <3>1, <3>2 DEF Pieces, SavePc
  <2>5. Growing'
      BY <1>7, <2>1, <2>3 DEF OpenTmp, Snapshots, Growing, SavePc, server, history, TypeOK
  <2> QED
      BY <1>7, <2>1, <2>3, <2>4, <2>5 DEF OpenTmp, Truncate, Snapshots
<1>8. ASSUME NEW p \in Pid, OpenFails(p) PROVE Snapshots'
  <2>1. db' = db /\ (db # NONE => content'[db] = content[db])
      BY <1>8 DEF OpenFails, Truncate, TmpFile, Processes, Begun, TypeOK, disk
  <2> QED
      BY <1>8, <2>1, ReturnSnapshots DEF OpenFails, SavePc
<1>9. ASSUME NEW p \in Pid, WriteRecords(p) PROVE Snapshots'
  <2>1. /\ ~ raced /\ ~ dropped /\ Savers = {p} /\ Savers' = {p}
        /\ pc' = pc /\ pc[p] = "write" /\ fd' = fd /\ fd[p] \in File /\ fd[p] = tmp
        /\ written[p] + 1 \in Chunk /\ written'[p] = written[p] + 1
      BY <1>9 DEF WriteRecords, Alone, Processes, Writing, Savers, SavePc, TypeOK,
                  Chunk, history
  <2>2. db' = db /\ (db # NONE => content'[db] = content[db])
      BY <1>9, <2>1 DEF WriteRecords, Processes, TypeOK
  <2>3. Saved' = Saved /\ (db # NONE => Complete(db)' = Complete(db))
      BY <1>9, <2>2, SavedKept DEF WriteRecords
  <2>4. Pieces'
    <3>1. \A c \in Chunk : content'[fd[p]][c] = IF c = written[p] + 1 THEN p ELSE content[fd[p]][c]
        BY <1>9, <2>1 DEF WriteRecords, TypeOK
    <3>2. ASSUME NEW c \in Chunk, c <= written[p] + 1 PROVE content'[fd[p]][c] = p
      <4>1. c = written[p] + 1 \/ c <= written[p]
          BY <3>2 DEF Chunk, TypeOK
      <4>2. c <= written[p] => content[fd[p]][c] = p
          BY <2>1 DEF Snapshots, Pieces
      <4> QED
          BY <3>1, <4>1, <4>2
    <3>3. \A q \in Pid : q # p => pc[q] \notin SavePc
        BY <2>1
    <3> QED
        BY <2>1, <3>2, <3>3 DEF Pieces, SavePc
  <2>5. Growing'
      BY <1>9, <2>1, <2>3 DEF WriteRecords, Snapshots, Growing, server, history
  <2> QED
      BY <2>1, <2>2, <2>3, <2>4, <2>5 DEF Snapshots
<1>10. ASSUME NEW p \in Pid, WriteFails(p) PROVE Snapshots'
    BY <1>10 DEF WriteFails
<1>11. ASSUME NEW p \in Pid, Sync(p) PROVE Snapshots'
  <2>1. /\ ~ raced /\ ~ dropped /\ Savers' = Savers
        /\ pc[p] = "write" /\ written[p] = NChunks
        /\ \A q \in Pid : pc'[q] = IF q = p THEN "rename" ELSE pc[q]
      BY <1>11 DEF Sync, Savers, SavePc, TypeOK, history
  <2>2. Saved' = Saved /\ (db # NONE => Complete(db)' = Complete(db))
      BY <1>11, SavedKept DEF Sync, disk
  <2>3. Pieces'
    <3>1. \A c \in Chunk : content[fd[p]][c] = p
        BY <2>1 DEF Snapshots, Pieces, Chunk
    <3> QED
        BY <1>11, <2>1, <3>1 DEF Sync, Snapshots, Pieces, disk
  <2>4. Growing'
      BY <1>11, <2>1, <2>2 DEF Sync, Snapshots, Growing, SavePc, server, history, TypeOK
  <2> QED
      BY <1>11, <2>1, <2>2, <2>3, <2>4 DEF Sync, Snapshots, disk
<1>12. ASSUME NEW p \in Pid, SyncFails(p) PROVE Snapshots'
    BY <1>12, ReturnSnapshots DEF SyncFails, SavePc, disk
<1>13. ASSUME NEW p \in Pid, Rename(p) PROVE Snapshots'
  <2>1. /\ ~ raced /\ ~ dropped /\ Savers = {p} /\ Savers' = {}
        /\ pc[p] = "rename" /\ fd[p] = tmp /\ tmp \in File
        /\ \A q \in Pid : pc'[q] = IF q = p THEN "saved" ELSE pc[q]
    <3>1. /\ ~ raced /\ ~ dropped /\ p \in Savers /\ fd[p] = tmp /\ tmp \in File
          /\ \A q \in Pid : pc'[q] = IF q = p THEN "saved" ELSE pc[q]
        BY <1>13 DEF Rename, Return, Alone, Writing, SavePc, TypeOK
    <3> QED
        BY <1>13, <3>1 DEF Rename, Alone, Savers, SavePc
  <2>2. Complete(tmp) /\ Loaded(tmp, NChunks) = snap[p]
      BY <2>1, LoadedWhole DEF Snapshots, Pieces
  <2>3. Complete(db)' /\ Saved' = snap[p]
    <3>1. Loaded(db, NChunks)' = Loaded(tmp, NChunks)
        BY <1>13 DEF Rename, Loaded
    <3>2. db' = tmp /\ db' # NONE
        BY <1>13 DEF Rename
    <3> QED
        BY <1>13, <2>2, <3>1, <3>2 DEF Rename, Saved, Complete
  <2>4. Pieces'
      BY <2>1 DEF Pieces, SavePc
  <2>5. Growing'
      BY <1>13, <2>1, <2>3 DEF Rename, Return, Snapshots, Growing, Alone, SavePc, TypeOK
  <2> QED
      BY <2>3, <2>4, <2>5 DEF Snapshots
<1>14. ASSUME NEW p \in Pid, RenameFails(p) PROVE Snapshots'
    BY <1>14, ReturnSnapshots DEF RenameFails, SavePc
<1>15. ASSUME NEW p \in Pid, Kill(p) PROVE Snapshots'
    BY <1>15, ReturnSnapshots DEF Kill, disk
<1>16. CASE UNCHANGED vars
  <2>1. Saved' = Saved /\ (db # NONE => Complete(db)' = Complete(db))
      BY <1>16, SavedKept DEF vars, server, saving, disk
  <2> QED
      BY <1>16, <2>1 DEF vars, server, saving, disk, history, Snapshots, Pieces, Growing, Savers
<1> QED
    BY <1>1, <1>2, <1>3, <1>4, <1>5, <1>6, <1>7, <1>8, <1>9, <1>10, <1>11,
       <1>12, <1>13, <1>14, <1>15, <1>16 DEF Next, SaveStep

\* Only a rename changes what is on disk, to a snapshot that has it.
LEMMA SavedStep ==
    ASSUME TypeOK, Processes, Alone, Snapshots, Next, ~ raced', ~ dropped'
    PROVE  Saved \subseteq Saved'
<1>1. ASSUME NEW p \in Pid, Start(p) PROVE Saved' = Saved
    BY <1>1, SavedKept DEF Start, disk
<1>2. ASSUME NEW w \in Write, Set(w) PROVE Saved' = Saved
    BY <1>2, SavedKept DEF Set, saving, disk
<1>3. CASE TimePasses \/ OnTick
    BY <1>3, SavedKept DEF TimePasses, OnTick, saving, disk
<1>4. ASSUME NEW p \in Pid, OnIdle(p) PROVE Saved' = Saved
    BY <1>4, SavedKept DEF OnIdle, Processes, Begun, TypeOK, disk
<1>5. CASE OnExit
    BY <1>5, SavedKept DEF OnExit, Serving, Processes, Begun, TypeOK, disk
<1>6. ASSUME NEW p \in Pid, OpenTmp(p) PROVE Saved' = Saved
  <2>1. db' = db /\ (db # NONE => content'[db] = content[db])
      BY <1>6 DEF OpenTmp, Truncate, TmpFile, Processes, Begun, TypeOK
  <2> QED
      BY <1>6, <2>1, SavedKept DEF OpenTmp
<1>7. ASSUME NEW p \in Pid, OpenFails(p) PROVE Saved' = Saved
  <2>1. db' = db /\ (db # NONE => content'[db] = content[db])
      BY <1>7 DEF OpenFails, Truncate, TmpFile, Processes, Begun, TypeOK, disk
  <2> QED
      BY <1>7, <2>1, SavedKept DEF OpenFails
<1>8. ASSUME NEW p \in Pid, WriteRecords(p) PROVE Saved' = Saved
  <2>1. db' = db /\ (db # NONE => content'[db] = content[db])
      BY <1>8 DEF WriteRecords, Alone, Processes, Writing, TypeOK, history
  <2> QED
      BY <1>8, <2>1, SavedKept DEF WriteRecords
<1>9. ASSUME NEW p \in Pid, Sync(p) \/ SyncFails(p) \/ RenameFails(p) \/ Kill(p)
      PROVE  Saved' = Saved
    BY <1>9, SavedKept DEF Sync, SyncFails, RenameFails, Kill, disk
<1>10. ASSUME NEW p \in Pid, Rename(p) PROVE Saved \subseteq Saved'
  <2>1. /\ ~ raced /\ ~ dropped /\ p \in Savers /\ pc[p] = "rename"
        /\ fd[p] = tmp /\ tmp \in File
      BY <1>10 DEF Rename, Alone, Writing, Savers, SavePc, TypeOK
  <2>2. Loaded(tmp, NChunks) = snap[p]
      BY <2>1, LoadedWhole DEF Snapshots, Pieces
  <2>3. Saved' = snap[p]
      BY <1>10, <2>2 DEF Rename, Saved, Loaded
  <2> QED
      BY <2>1, <2>3 DEF Snapshots, Growing
<1> QED
    BY <1>1, <1>2, <1>3, <1>4, <1>5, <1>6, <1>7, <1>8, <1>9, <1>10
    DEF Next, SaveStep, WriteFails

-----------------------------------------------------------------------------
(* The theorems.                                                            *)

\* The invariant holds in every behaviour.
LEMMA Invariant == Spec => []IInv
<1>1. Init => IInv
    BY InitIInv
<1>2. IInv /\ [Next]_vars => IInv'
    BY TypeStep, ProcessesStep, AloneStep, SnapshotsStep DEF IInv
<1> QED
    BY <1>1, <1>2, PTL DEF Spec

\* Every variable keeps its type.
THEOREM PersistenceTypes == Spec => []TypeOK
<1>1. IInv => TypeOK
    BY DEF IInv
<1> QED
    BY <1>1, Invariant, PTL

\* Whatever fails, is killed or restarts, .tmp has one writer until a server
\* stops or starts beside a saving child.
THEOREM OneSaver == Spec => []SaverAlone
<1>1. IInv => SaverAlone
    BY DEF IInv, Alone, SaverAlone
<1> QED
    BY <1>1, Invariant, PTL

\* And until then the name of the database leads to one whole snapshot.
THEOREM DbFileWhole == Spec => []DbFileComplete
<1>1. IInv => DbFileComplete
    BY DEF IInv, Snapshots, DbFileComplete
<1> QED
    BY <1>1, Invariant, PTL

\* A server whose last save was good left every acknowledged write on disk.
THEOREM StopIsSafe == Spec => []StopSavesAll
<1>1. IInv => StopSavesAll
    BY DEF IInv, Snapshots, Growing, StopSavesAll
<1> QED
    BY <1>1, Invariant, PTL

\* A write that reached the disk is in every later file.
THEOREM SavedNeverLost == Spec => SavedGrows
<1>1. IInv /\ [Next]_vars => [~ raced' /\ ~ dropped' => Saved \subseteq Saved']_vars
    BY SavedStep DEF IInv
<1> QED
    BY <1>1, Invariant, PTL DEF Spec, SavedGrows
=============================================================================
