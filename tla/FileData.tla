------------------------------ MODULE FileData ------------------------------
(***************************************************************************)
(* read, write and lseek on files (fs/fd.cpp), down to the bytes on the    *)
(* disk: fs_do_readwrite moves whole chunks of sectors through fs_buffer   *)
(* and changes the part of them that was asked for.                        *)
(*                                                                         *)
(* task_fs does one request after the other and nobody else writes the     *)
(* sectors of files, so a request is one step.  Offsets count from the     *)
(* first sector of files; the disk has some sectors behind the last file,  *)
(* for the code reads and writes back more than it was asked for.          *)
(***************************************************************************)
EXTENDS Integers, Sequences

CONSTANTS
    HD_SECTOR_SIZE,
    FS_BUFFER_SECTORS,           \* FS_BUFFER_SIZE >> HD_SECTOR_SIZE_SHIFT
    DiskSectors,
    File, start_sector, num_sectors,   \* the i-nodes
    Fd, inode,                         \* the descriptors and their i-nodes
    Counts, Offsets,             \* the numbers that requests are made with
    MaxRequests                  \* bound on the number of requests

Byte   == Nat
Offset == 0..DiskSectors * HD_SECTOR_SIZE - 1
Whence == {"SET", "CUR", "END", "other"}

FirstByte(f) == start_sector[f] * HD_SECTOR_SIZE
Capacity(f)  == num_sectors[f] * HD_SECTOR_SIZE

ASSUME FileDataAssumption ==
    /\ HD_SECTOR_SIZE \in Nat \ {0} /\ FS_BUFFER_SECTORS \in Nat \ {0}
    /\ start_sector \in [File -> Nat] /\ num_sectors \in [File -> Nat \ {0}]
    /\ inode \in [Fd -> File]
    /\ Counts \subseteq Nat /\ Offsets \subseteq Int /\ MaxRequests \in Nat
    /\ DiskSectors \in Nat
    \* Files do not overlap (smap), and the disk does not end with the answer.
    /\ \A f, g \in File : f # g =>
          \/ start_sector[f] + num_sectors[f] <= start_sector[g]
          \/ start_sector[g] + num_sectors[g] <= start_sector[f]
    /\ \A f \in File :
          start_sector[f] + num_sectors[f] + 2 * FS_BUFFER_SECTORS <= DiskSectors

VARIABLES
    disk,
    size, saved,      \* the sizes of files: in fs_inode_table, on the disk
    position,         \* of the descriptors
    requests,         \* how many there were; the data written has its number
    answer            \* the last request and what came of it

vars == <<disk, size, saved, position, requests, answer>>

NoRequest == [type |-> "none"]

TypeOK ==
    /\ disk \in [Offset -> Byte]
    /\ size \in [File -> Nat] /\ saved \in [File -> Nat]
    /\ position \in [Fd -> Nat]
    /\ requests \in 0..MaxRequests

\* Files are new; what their sectors hold is what was there before.
Init ==
    /\ disk = [o \in Offset |-> o]
    /\ size = [f \in File |-> 0] /\ saved = [f \in File |-> 0]
    /\ position = [d \in Fd |-> 0]
    /\ requests = 0 /\ answer = NoRequest

-----------------------------------------------------------------------------
(* fs_do_readwrite.                                                        *)

Least(a, b) == IF a < b THEN a ELSE b

\* The bytes that a process writes, unlike those of any other request.
Data(i) == 100 * (requests + 1) + i

\* How often the loop goes round.
Turns(sector_min, sector_max, chunk) ==
    IF sector_max < sector_min THEN 0 ELSE (sector_max - sector_min) \div chunk + 1

\* Variant: the whole chunk is taken from the memory of the process.
UnitSizeOfChunk(state, chunk) == chunk * HD_SECTOR_SIZE - state.offset

UnitSize(state, chunk) ==
    Least(state.bytes_left, chunk * HD_SECTOR_SIZE - state.offset)

\* One turn: a chunk is read, and changed and written back if it is a write.
Turn(state, i, chunk, type) ==
    LET from == i * HD_SECTOR_SIZE + state.offset
        unit_size == UnitSize(state, chunk)
    IN  [offset |-> 0, bytes_left |-> state.bytes_left - unit_size,
         bytes_done |-> state.bytes_done + unit_size,
         memory |-> IF type = "READ"
                    THEN state.memory \o [k \in 1..unit_size |-> state.disk[from + k - 1]]
                    ELSE state.memory,
         disk |-> IF type = "READ" THEN state.disk
                  ELSE [o \in Offset |-> IF o \in from..from + unit_size - 1
                            THEN Data(state.bytes_done + o - from)
                            ELSE state.disk[o]]]

\* Variant: the sectors are counted from the position and not from its sector.
SectorMaxOfCount(f, pos, pos_end) ==
    start_sector[f] + pos \div HD_SECTOR_SIZE + (pos_end - pos - 1) \div HD_SECTOR_SIZE

SectorMax(f, pos, pos_end) == start_sector[f] + pos_end \div HD_SECTOR_SIZE

\* The states of the loop, from turn to turn.
Loop(begin, sector_min, chunk, turns, type) ==
    LET state[n \in 0..turns] ==
            IF n = 0 THEN begin
            ELSE Turn(state[n - 1], sector_min + (n - 1) * chunk, chunk, type)
    IN  state

\* What the loop makes of the disk and of the memory of the process.
Moves(f, pos, count, type) ==
    LET pos_end    == Least(pos + count, IF type = "READ" THEN size[f] ELSE Capacity(f))
        sector_min == start_sector[f] + pos \div HD_SECTOR_SIZE
        sector_max == SectorMax(f, pos, pos_end)
        chunk      == Least(sector_max - sector_min + 1, FS_BUFFER_SECTORS)
        turns      == Turns(sector_min, sector_max, chunk)
        begin      == [offset |-> pos % HD_SECTOR_SIZE, bytes_left |-> count,
                       bytes_done |-> 0, memory |-> <<>>, disk |-> disk]
    IN  Loop(begin, sector_min, chunk, turns, type)[turns]

\* Variant: a larger size is kept in memory until the i-node is put.
SetSizeUnsaved(f, pos) ==
    IF pos > size[f]
    THEN size' = [size EXCEPT ![f] = pos] /\ UNCHANGED saved
    ELSE UNCHANGED <<size, saved>>

\* A file that is larger now is so on the disk as well (fs_write_inode).
SetSize(f, pos) ==
    IF pos > size[f]
    THEN size' = [size EXCEPT ![f] = pos] /\ saved' = [saved EXCEPT ![f] = pos]
    ELSE UNCHANGED <<size, saved>>

fs_do_readwrite(d, type, count) ==
    LET moved == Moves(inode[d], position[d], count, type) IN
    /\ disk' = moved.disk
    /\ position' = [position EXCEPT ![d] = @ + moved.bytes_done]
    /\ SetSize(inode[d], position'[d])
    /\ answer' = [type |-> type, fd |-> d, pos |-> position[d], count |-> count,
                done |-> moved.bytes_done, memory |-> moved.memory]

-----------------------------------------------------------------------------
\* fs_do_lseek's new position.
Sought(d, whence, off) ==
    LET to == CASE whence = "SET"   -> off
                [] whence = "CUR"   -> position[d] + off
                [] whence = "END"   -> size[inode[d]] + off
                [] whence = "other" -> position[d]
    IN  IF to < 0 THEN 0 ELSE to

fs_do_lseek(d, whence, off) ==
    /\ position' = [position EXCEPT ![d] = Sought(d, whence, off)]
    /\ answer' = [type |-> "LSEEK", fd |-> d,
                done |-> IF whence = "other" THEN -1 ELSE position'[d]]
    /\ UNCHANGED <<disk, size, saved>>

\* Bound: the disk of the model ends not far behind the files.
PositionBound(d) == position[d] <= Capacity(inode[d])

Next ==
    /\ requests < MaxRequests /\ requests' = requests + 1
    /\ \E d \in Fd :
          \/ \E type \in {"READ", "WRITE"}, count \in Counts :
                /\ PositionBound(d)
                /\ fs_do_readwrite(d, type, count)
          \/ \E whence \in Whence, off \in Offsets : fs_do_lseek(d, whence, off)

Spec == Init /\ [][Next]_vars

-----------------------------------------------------------------------------
(* Properties.                                                             *)

\* The place on the disk of the i-th byte of the request just done.
AddressOf(i) == FirstByte(inode[answer.fd]) + answer.pos + i - 1

\* A read that ends before the end of the file returns its bytes at the
\* position, and a write that ends in the sectors of the file puts its bytes
\* there, however the loop cuts them into chunks (fd.cpp:219-249).
MovesWhatWasAsked ==
    [][LET end == answer'.pos + answer'.count IN
       /\ answer'.type = "READ" /\ end <= size[inode[answer'.fd]] =>
             /\ answer'.done = answer'.count
             /\ answer'.memory = [i \in 1..answer'.count |-> disk[AddressOf(i)']]
       /\ answer'.type = "WRITE" /\ end <= Capacity(inode[answer'.fd]) =>
             /\ answer'.done = answer'.count
             /\ \A i \in 1..answer'.count : disk'[AddressOf(i)'] = Data(i - 1)]_vars

\* The bytes of the disk that a request changes are at most those it names,
\* although whole chunks of sectors are read and written back, with sectors of
\* the next file among them; and only a write changes any.
ChangesOnlyItsRange ==
    [][\A o \in Offset : disk'[o] # disk[o] =>
          /\ answer'.type = "WRITE"
          /\ o - FirstByte(inode[answer'.fd]) - answer'.pos \in 0..answer'.count - 1]_vars

\* Positions and sizes are never negative, and what read and write have been
\* through is inside the file, and would still be so after a restart: the size on
\* the disk is never behind (fd.cpp:251-256).
ReachedIsSaved ==
    /\ TypeOK
    /\ answer.type \in {"READ", "WRITE"} =>
          position[answer.fd] <= saved[inode[answer.fd]]
=============================================================================
