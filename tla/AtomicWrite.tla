----------------------------- MODULE AtomicWrite -----------------------------
(***************************************************************************)
(* atomic_write (src/recursor/anchor.rs) down to the file system: create   *)
(* or truncate the temporary sibling, write it, fsync it, rename it over   *)
(* the live path, fsync the directory.  Names point to inodes and a file   *)
(* handle keeps its inode through a rename, so two writers that share the  *)
(* one temporary name of tmp_sibling can meet in one inode.                *)
(*                                                                         *)
(* A version of the file is Blocks blocks of that version.  write_all      *)
(* moves one block per step.  The file system keeps unsynced data and      *)
(* unsynced directory entries in memory, and a power loss keeps or loses   *)
(* them.                                                                   *)
(***************************************************************************)
EXTENDS Naturals, Sequences

CONSTANTS Writer, Version, Inode, None, Torn, Blocks

ASSUME AtomicWriteAssumption ==
    /\ Blocks \in Nat \ {0}
    /\ None \notin Inode \cup Version
    /\ Torn \notin Version \cup {None}

VARIABLES
    current,  \* inode of the live path
    tmp,      \* inode of <path>.tmp
    data,     \* inode contents as processes see them
    disk,     \* inode contents on stable storage
    diskLive, \* the live path on stable storage
    doing,    \* progress of each writer
    fd,       \* the writer's open handle
    off,      \* the handle's offset
    ver,      \* the version being written
    rfd,      \* the reader's open handle
    rbuf      \* what the reader has read so far

writers  == <<doing, fd, off, ver>>
reader   == <<rfd, rbuf>>
fileVars == <<current, tmp, data, disk, diskLive, writers, reader>>

Whole(v) == [n \in 1..Blocks |-> v]

\* The version a content is, if it is a whole one.
VersionOf(c) == IF \E v \in Version : c = Whole(v)
                THEN CHOOSE v \in Version : c = Whole(v) ELSE Torn

Free(i) == i \notin {current, tmp, diskLive, rfd} \cup {fd[w] : w \in Writer}

\* A block written at an offset past the end leaves a hole before it.
PutBlock(c, n, v) ==
    [m \in 1..(IF n > Len(c) THEN n ELSE Len(c)) |->
        IF m = n THEN v ELSE IF m <= Len(c) THEN c[m] ELSE None]

FileInit ==
    /\ current = None /\ tmp = None /\ diskLive = None
    /\ data = [i \in Inode |-> <<>>] /\ disk = [i \in Inode |-> <<>>]
    /\ doing = [w \in Writer |-> "idle"] /\ fd = [w \in Writer |-> None]
    /\ off = [w \in Writer |-> 0] /\ ver = [w \in Writer |-> None]
    /\ rfd = None /\ rbuf = <<>>

(***************************************************************************)
(* The writer.                                                             *)
(***************************************************************************)
\* Mutant: the live path itself is opened and truncated.
Create_InPlace(w) ==
    /\ doing[w] = "idle"
    /\ \E i \in Inode, v \in Version :
          /\ IF current = None THEN Free(i) ELSE i = current
          /\ current' = i
          /\ data' = [data EXCEPT ![i] = <<>>]
          /\ fd' = [fd EXCEPT ![w] = i]
          /\ ver' = [ver EXCEPT ![w] = v]
    /\ off' = [off EXCEPT ![w] = 0]
    /\ doing' = [doing EXCEPT ![w] = "write"]
    /\ UNCHANGED <<tmp, disk, diskLive, reader>>

\* File::create: truncate the existing temporary file or make a new one.
Create(w) ==
    /\ doing[w] = "idle"
    /\ \E i \in Inode, v \in Version :
          /\ IF tmp = None THEN Free(i) ELSE i = tmp
          /\ tmp' = i
          /\ data' = [data EXCEPT ![i] = <<>>]
          /\ fd' = [fd EXCEPT ![w] = i]
          /\ ver' = [ver EXCEPT ![w] = v]
    /\ off' = [off EXCEPT ![w] = 0]
    /\ doing' = [doing EXCEPT ![w] = "write"]
    /\ UNCHANGED <<current, disk, diskLive, reader>>

\* write_all, one block.
WriteBlock(w) ==
    /\ doing[w] = "write"
    /\ data' = [data EXCEPT ![fd[w]] = PutBlock(@, off[w] + 1, ver[w])]
    /\ off' = [off EXCEPT ![w] = @ + 1]
    /\ doing' = [doing EXCEPT ![w] = IF off'[w] = Blocks THEN "sync" ELSE "write"]
    /\ UNCHANGED <<current, tmp, disk, diskLive, fd, ver, reader>>

\* Mutant: the file is closed without fsync.
Sync_Skipped(w) ==
    /\ doing[w] = "sync"
    /\ fd' = [fd EXCEPT ![w] = None]
    /\ doing' = [doing EXCEPT ![w] = "rename"]
    /\ UNCHANGED <<current, tmp, data, disk, diskLive, off, ver, reader>>

\* sync_all, and the end of the scope closes the handle.
Sync(w) ==
    /\ doing[w] = "sync"
    /\ disk' = [disk EXCEPT ![fd[w]] = data[fd[w]]]
    /\ fd' = [fd EXCEPT ![w] = None]
    /\ doing' = [doing EXCEPT ![w] = "rename"]
    /\ UNCHANGED <<current, tmp, data, diskLive, off, ver, reader>>

\* rename(tmp, path); the temporary name must still be there.
Rename(w) ==
    /\ doing[w] = "rename"
    /\ tmp # None
    /\ current' = tmp /\ tmp' = None
    /\ doing' = [doing EXCEPT ![w] = "dirsync"]
    /\ UNCHANGED <<data, disk, diskLive, fd, off, ver, reader>>

\* The best-effort fsync of the directory, whose failure is ignored.
DirSync(w) ==
    /\ doing[w] = "dirsync"
    /\ diskLive' \in {current, diskLive}
    /\ doing' = [doing EXCEPT ![w] = "idle"]
    /\ UNCHANGED <<current, tmp, data, disk, fd, off, ver, reader>>

\* An error from any of the steps up to the rename returns at once; the
\* temporary file stays behind.
WriteFails(w) ==
    /\ doing[w] \in {"write", "sync", "rename"}
    /\ doing' = [doing EXCEPT ![w] = "idle"]
    /\ fd' = [fd EXCEPT ![w] = None]
    /\ UNCHANGED <<current, tmp, data, disk, diskLive, off, ver, reader>>

(***************************************************************************)
(* The reader: read_to_string in load_state and load_from_file.            *)
(***************************************************************************)
Open ==
    /\ rfd = None /\ current # None
    /\ rfd' = current /\ rbuf' = <<>>
    /\ UNCHANGED <<current, tmp, data, disk, diskLive, writers>>

ReadBlock ==
    /\ rfd # None
    /\ Len(rbuf) < Len(data[rfd])
    /\ rbuf' = Append(rbuf, data[rfd][Len(rbuf) + 1])
    /\ UNCHANGED <<current, tmp, data, disk, diskLive, writers, rfd>>

AtEnd == rfd # None /\ Len(rbuf) >= Len(data[rfd])

Close ==
    /\ AtEnd
    /\ rfd' = None /\ rbuf' = <<>>
    /\ UNCHANGED <<current, tmp, data, disk, diskLive, writers>>

(***************************************************************************)
(* The machine.                                                            *)
(***************************************************************************)
Reset ==
    /\ doing' = [w \in Writer |-> "idle"] /\ fd' = [w \in Writer |-> None]
    /\ off' = [w \in Writer |-> 0] /\ ver' = [w \in Writer |-> None]
    /\ rfd' = None /\ rbuf' = <<>>

\* The process is killed; the file system is not affected.
Kill == Reset /\ UNCHANGED <<current, tmp, data, disk, diskLive>>

\* The machine loses power.  Every file keeps its synced content, or what was
\* written since, or nothing of it; the last rename is kept or lost.
PowerLoss ==
    /\ Reset
    /\ LET dirty == {i \in Inode : data[i] # disk[i]}
       IN  \E kept, lost \in SUBSET dirty :
             data' = [i \in Inode |-> IF i \in lost THEN <<>>
                                      ELSE IF i \in kept THEN data[i] ELSE disk[i]]
    /\ disk' = data'
    /\ current' \in {current, diskLive}
    /\ diskLive' = current'
    /\ tmp' = IF current' = current THEN tmp ELSE current

FileNext ==
    \/ \E w \in Writer : \/ Create(w) \/ WriteBlock(w) \/ Sync(w)
                         \/ Rename(w) \/ DirSync(w) \/ WriteFails(w)
    \/ Open \/ ReadBlock \/ Close \/ Kill \/ PowerLoss

FileSpec == FileInit /\ [][FileNext]_fileVars

(***************************************************************************)
(* Properties.                                                             *)
(***************************************************************************)
\* A load that opens the live file and reads it while it is being replaced
\* gets one whole version (load_state, load_from_file).
ReadsAreWhole == AtEnd => VersionOf(rbuf) # Torn

\* The refinement mapping: the path's content, and the disk's, as versions.
Abstract == INSTANCE AtomicFile WITH
    Missing <- None,
    val     <- IF current = None THEN None ELSE VersionOf(data[current]),
    durable <- IF diskLive = None THEN None ELSE VersionOf(disk[diskLive])

\* atomic_write implements the atomic file of AtomicFile.
AtomicSpec == Abstract!Spec
=============================================================================
