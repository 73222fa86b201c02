----------------------------- MODULE Persistence -----------------------------
(***************************************************************************)
(* How bis/src/server keeps its tables on disk: db::SaveToFile, run by a   *)
(* forked child (db::BgSaveDb, from Server::OnIdle) or by the server       *)
(* itself when it stops (Server::OnExit); Server::WaitChilen, which looks  *)
(* for the child's end; and db::CheckDbFileAndLoad when a server starts.   *)
(*                                                                         *)
(* Every process goes through SaveToFile one system call at a time, so     *)
(* that two of them interleave as the kernel lets them, on one .tmp file.  *)
(* What the server stores is abstracted to the set of writes it has        *)
(* acknowledged; a snapshot is written as NChunks pieces, and write w is   *)
(* in piece Slot[w] of every snapshot that has it.                         *)
(***************************************************************************)
EXTENDS Integers

CONSTANTS
    Pid,        \* process ids; one is used for each start and each fork
    Write,      \* the writes clients can make
    NChunks,    \* pieces in which a snapshot reaches the file
    Slot,       \* the piece of a snapshot that holds a write
    NONE,       \* no process, no file, no data
    MaxFaults,  \* bound on the system calls that fail
    MaxKills    \* bound on the processes killed

ASSUME ChunkAssumption == NChunks \in Nat \ {0}
ASSUME SlotAssumption == Slot \in [Write -> 1..NChunks]
ASSUME NoneAssumption == NONE \notin Pid
ASSUME BoundAssumption == MaxFaults \in Nat /\ MaxKills \in Nat

VARIABLES
    main,       \* the server process, NONE while there is none
    chilld_pid, \* Server::chilld_pid, NONE for -1
    due,        \* now - uiLastSaveTime > persistend_time_
    mem,        \* the writes in the memory of the last server
    pc,         \* where each process is
    snap,       \* the writes each process saves: its memory since the fork
    fd,         \* the file each process has open for writing
    written,    \* the number of pieces it has been through
    content,    \* content[f][c] is the process whose piece c is in file f
    tmp,        \* the file named db_file_.tmp
    db,         \* the file named db_file_
    faults, kills

server == <<main, chilld_pid, due, mem>>
saving == <<pc, snap, fd, written>>
disk   == <<content, tmp, db>>

VARIABLES
    raced,      \* history: a server stopped or started beside a saving child
    dropped,    \* history: a record was not written and the save went on
    stopped     \* history: how the last server ended

history == <<raced, dropped, stopped>>

vars == <<server, saving, disk, faults, kills, history>>

Chunk == 1..NChunks

\* A file is named after the process that created it.
File == Pid

SavePc == {"open", "write", "rename"}

\* How a process ended: as a server or a child whose SaveToFile went well, or
\* did not, or by a signal.
Ended == {"saved", "unsaved", "killed"}

Savers == {p \in Pid : pc[p] \in SavePc}

Serving == main # NONE /\ pc[main] = "serving"

TypeOK ==
    /\ main \in Pid \cup {NONE} /\ chilld_pid \in Pid \cup {NONE}
    /\ due \in BOOLEAN /\ mem \in SUBSET Write
    /\ pc \in [Pid -> SavePc \cup Ended \cup {"unused", "serving"}]
    /\ snap \in [Pid -> SUBSET Write]
    /\ fd \in [Pid -> File \cup {NONE}]
    /\ written \in [Pid -> 0..NChunks]
    /\ content \in [File -> [Chunk -> Pid \cup {NONE}]]
    /\ tmp \in File \cup {NONE} /\ db \in File \cup {NONE}
    /\ faults \in 0..MaxFaults /\ kills \in 0..MaxKills
    /\ raced \in BOOLEAN /\ dropped \in BOOLEAN
    /\ stopped \in Ended \cup {"no"}

-----------------------------------------------------------------------------
(* The server.                                                              *)

\* What a file gives back up to piece k: the tables of the records there.
Loaded(f, k) ==
    {w \in Write : /\ Slot[w] <= k
                   /\ content[f][Slot[w]] # NONE
                   /\ w \in snap[content[f][Slot[w]]]}

Complete(f) == \A c, d \in Chunk : content[f][c] # NONE /\ content[f][c] = content[f][d]

\* The writes that are on disk under the name of the database.
Saved == IF db = NONE THEN {} ELSE Loaded(db, NChunks)

LoadNothing(contents) == contents = {}

\* CheckDbFileAndLoad: without a file, nothing; a broken file is read up to
\* some record that does not parse, or with what it lacks left out.
CheckDbFileAndLoad(contents) ==
    IF db = NONE THEN contents = {}
    ELSE \E k \in (IF Complete(db) THEN {NChunks} ELSE 0..NChunks) :
            contents = Loaded(db, k)

\* Init and OnInit of a new process.  The bind of its queue address fails while
\* another server lives, so the new one comes after the end of the old.
Start(p) ==
    /\ main = NONE /\ pc[p] = "unused"
    /\ main' = p
    /\ pc' = [pc EXCEPT ![p] = "serving"]
    /\ mem' \in SUBSET Write /\ CheckDbFileAndLoad(mem')
    /\ due' = FALSE /\ chilld_pid' = NONE
    /\ stopped' = "no"
    /\ raced' = (raced \/ Savers # {})
    /\ UNCHANGED <<snap, fd, written, disk, faults, kills, dropped>>

\* ProcessDbSet, for one write.
Set(w) ==
    /\ Serving /\ w \notin mem
    /\ mem' = mem \cup {w}
    /\ UNCHANGED <<main, chilld_pid, due, saving, disk, faults, kills, history>>

\* The save period runs out.
TimePasses ==
    /\ Serving /\ ~ due
    /\ due' = TRUE
    /\ UNCHANGED <<main, chilld_pid, mem, saving, disk, faults, kills, history>>

MayForkAlways == TRUE

MayForkInverted == chilld_pid # NONE

\* The test of BgSaveDb.
MayFork == chilld_pid = NONE

\* OnIdle, BgSaveDb: p is the child, which has the memory of its parent.
OnIdle(p) ==
    /\ Serving /\ due /\ MayFork
    /\ pc[p] = "unused"
    /\ pc' = [pc EXCEPT ![p] = "open"]
    /\ snap' = [snap EXCEPT ![p] = mem]
    /\ chilld_pid' = p
    /\ UNCHANGED <<main, due, mem, fd, written, disk, faults, kills, history>>

\* InitSigHandler ignores SIGCHLD: the kernel discards a child that ends, and
\* wait3 has nothing to return.
SigChldIgnored == TRUE

\* The status wait3 has for WaitChilen, "no" where it returns 0 or an error.
Wait3 == IF SigChldIgnored \/ pc[chilld_pid] \notin Ended THEN "no" ELSE pc[chilld_pid]

\* OnTick, WaitChilen: a child that ended is forgotten, a good save restarts
\* the period, and what a killed one was writing is removed.
OnTick ==
    /\ Serving /\ chilld_pid # NONE
    /\ chilld_pid' = IF Wait3 = "no" THEN chilld_pid ELSE NONE
    /\ due' = (due /\ Wait3 # "saved")
    /\ tmp' = IF Wait3 = "killed" THEN NONE ELSE tmp
    /\ UNCHANGED <<main, mem, saving, content, db, faults, kills, history>>

ExitWithoutSave ==
    /\ Serving
    /\ main' = NONE
    /\ pc' = [pc EXCEPT ![main] = "saved"]
    /\ snap' = [snap EXCEPT ![main] = mem]
    /\ stopped' = "saved"
    /\ raced' = (raced \/ Savers # {})
    /\ UNCHANGED <<chilld_pid, due, mem, fd, written, disk, faults, kills, dropped>>

\* The loop finds is_exit_ set (a signal, or a second server starting) and
\* OnExit begins to save.
OnExit ==
    /\ Serving
    /\ pc' = [pc EXCEPT ![main] = "open"]
    /\ snap' = [snap EXCEPT ![main] = mem]
    /\ raced' = (raced \/ Savers # {})
    /\ UNCHANGED <<server, fd, written, disk, faults, kills, dropped, stopped>>

-----------------------------------------------------------------------------
(* SaveToFile.                                                              *)

\* SaveToFile returns in p: a child exits, a server that stops ends.
Return(p, result) ==
    /\ pc' = [pc EXCEPT ![p] = result]
    /\ fd' = [fd EXCEPT ![p] = NONE]
    /\ written' = [written EXCEPT ![p] = 0]
    /\ main' = IF p = main THEN NONE ELSE main
    /\ stopped' = IF p = main THEN result ELSE stopped

Fault == faults < MaxFaults /\ faults' = faults + 1

TmpFile(p) == IF tmp = NONE THEN p ELSE tmp

\* fopen(tmp, "w"): a file that is there is truncated, whoever has it open.
Truncate(p) ==
    /\ tmp' = TmpFile(p)
    /\ content' = [content EXCEPT ![TmpFile(p)] = [c \in Chunk |-> NONE]]
    /\ UNCHANGED db

\* The file is opened and the VERSION and DB records are written.
OpenTmp(p) ==
    /\ pc[p] = "open"
    /\ Truncate(p)
    /\ fd' = [fd EXCEPT ![p] = TmpFile(p)]
    /\ pc' = [pc EXCEPT ![p] = "write"]
    /\ UNCHANGED <<server, snap, written, faults, kills, history>>

\* fopen fails, or a record after it.
OpenFails(p) ==
    /\ pc[p] = "open"
    /\ UNCHANGED disk \/ Truncate(p)
    /\ Fault /\ Return(p, "unsaved")
    /\ UNCHANGED <<chilld_pid, due, mem, snap, kills, raced, dropped>>

WritePastEnd(p) ==
    /\ pc[p] = "write" /\ written[p] <= NChunks
    /\ written' = [written EXCEPT ![p] = @ + 1]
    /\ UNCHANGED <<server, pc, snap, fd, disk, faults, kills, history>>

\* The TABLE and KEY records of one piece.
WriteRecords(p) ==
    /\ pc[p] = "write" /\ written[p] < NChunks
    /\ written' = [written EXCEPT ![p] = @ + 1]
    /\ content' = [content EXCEPT ![fd[p]][written[p] + 1] = p]
    /\ UNCHANGED <<server, pc, snap, fd, tmp, db, faults, kills, history>>

\* A record that cannot be written is logged and the save goes on.
WriteFails(p) ==
    /\ pc[p] = "write" /\ written[p] < NChunks
    /\ written' = [written EXCEPT ![p] = @ + 1]
    /\ Fault
    /\ dropped' = TRUE
    /\ UNCHANGED <<server, pc, snap, fd, disk, kills, raced, stopped>>

SyncEarly(p) ==
    /\ pc[p] = "write"
    /\ pc' = [pc EXCEPT ![p] = "rename"]
    /\ UNCHANGED <<server, snap, fd, written, disk, faults, kills, history>>

\* FileFlush, FileFsync, FileClose.
Sync(p) ==
    /\ pc[p] = "write" /\ written[p] = NChunks
    /\ pc' = [pc EXCEPT ![p] = "rename"]
    /\ UNCHANGED <<server, snap, fd, written, disk, faults, kills, history>>

\* One of the three fails.
SyncFails(p) ==
    /\ pc[p] = "write" /\ written[p] = NChunks
    /\ Fault /\ Return(p, "unsaved")
    /\ UNCHANGED <<chilld_pid, due, mem, snap, disk, kills, raced, dropped>>

\* rename(tmp, db_file_) moves whatever file has the name .tmp by now.
Rename(p) ==
    /\ pc[p] = "rename" /\ tmp # NONE
    /\ db' = tmp /\ tmp' = NONE
    /\ Return(p, "saved")
    /\ UNCHANGED <<chilld_pid, due, mem, snap, content, faults, kills, raced, dropped>>

\* rename fails, for want of the file or otherwise, and .tmp is removed.
RenameFails(p) ==
    /\ pc[p] = "rename"
    /\ IF tmp = NONE THEN UNCHANGED faults ELSE Fault
    /\ tmp' = NONE
    /\ Return(p, "unsaved")
    /\ UNCHANGED <<chilld_pid, due, mem, snap, content, db, kills, raced, dropped>>

\* A process is killed.
Kill(p) ==
    /\ kills < MaxKills /\ kills' = kills + 1
    /\ pc[p] \in SavePc \cup {"serving"}
    /\ Return(p, "killed")
    /\ UNCHANGED <<chilld_pid, due, mem, snap, disk, faults, raced, dropped>>

-----------------------------------------------------------------------------
Init ==
    /\ main = NONE /\ chilld_pid = NONE /\ due = FALSE /\ mem = {}
    /\ pc = [p \in Pid |-> "unused"]
    /\ snap = [p \in Pid |-> {}]
    /\ fd = [p \in Pid |-> NONE]
    /\ written = [p \in Pid |-> 0]
    /\ content = [f \in File |-> [c \in Chunk |-> NONE]]
    /\ tmp = NONE /\ db = NONE
    /\ faults = 0 /\ kills = 0
    /\ raced = FALSE /\ dropped = FALSE /\ stopped = "no"

SaveStep(p) ==
    \/ OpenTmp(p) \/ OpenFails(p) \/ WriteRecords(p) \/ WriteFails(p)
    \/ Sync(p) \/ SyncFails(p) \/ Rename(p) \/ RenameFails(p)

Next ==
    \/ \E p \in Pid : Start(p) \/ OnIdle(p) \/ SaveStep(p) \/ Kill(p)
    \/ \E w \in Write : Set(w)
    \/ TimePasses \/ OnTick \/ OnExit

\* Time passes, Run reaches OnTick, and OnIdle whenever traffic pauses for
\* idle_count_ rounds (the writes are finite); a process that saves is
\* scheduled.  Nobody has to write, to start or to stop a server.
Fairness ==
    /\ WF_vars(TimePasses) /\ WF_vars(OnTick)
    /\ WF_vars(\E p \in Pid : OnIdle(p))
    /\ \A p \in Pid : WF_vars(SaveStep(p))

Spec == Init /\ [][Next]_vars

FairSpec == Spec /\ Fairness

-----------------------------------------------------------------------------
(* Properties.                                                              *)

\* The test of chilld_pid keeps a server from forking a second child, so that
\* .tmp has one writer, as long as no server stopped or started beside a child
\* that was saving.
SaverAlone == ~ raced => \A p, q \in Savers : p = q

\* While that is so and every record was written, the name of the database
\* leads to one whole snapshot, whatever failed or was killed on the way:
\* SaveToFile renames only what it flushed.
DbFileComplete == ~ raced /\ ~ dropped /\ db # NONE => Complete(db)

\* A server that stopped by itself, with its save reported good, left on disk
\* every write it had acknowledged.
StopSavesAll == stopped = "saved" /\ ~ raced /\ ~ dropped => Saved = mem

\* What is once on disk is in every later file, across stops, kills, failed
\* saves and restarts.
SavedGrows == [][~ raced' /\ ~ dropped' => Saved \subseteq Saved']_vars

\* A write acknowledged before a server forks its first child reaches the disk
\* if the server stays up: the period runs out, OnIdle forks, the child saves.
FirstSaveReachesDisk ==
    \A w \in Write : (w \in mem /\ Serving /\ chilld_pid = NONE) ~> (w \in Saved)

\* The comment in OnIdle: saved when idle.  The last writes of a server that
\* stays up reach the disk.
SavedWhenIdle == \A w \in Write : (w \in mem /\ Serving) ~> (w \in Saved)

\* The comments at SaveToFile, that it is to be called in a forked child and
\* that all data in memory gets to disk before the rename: the database is
\* always one whole snapshot.
DbFileAlwaysComplete == db # NONE => Complete(db)
=============================================================================
