----------------------------- MODULE FileSystem -----------------------------
(***************************************************************************)
(* The names, inodes and descriptors of the file system: the requests      *)
(* open, close, unlink and stat of fs/fd.cpp with the helpers of           *)
(* fs/core.cpp, on the disk that mkfs (fs/main.cpp) formats at every       *)
(* start.  The first start finds a blank disk.  Of the inodes and of the   *)
(* root directory mkfs writes only the first sector, so a later start      *)
(* finds what the one before has left in the others.                       *)
(*                                                                         *)
(* task_fs serves one request at a time and waits for the driver of the    *)
(* disk by name, so a request is one step.  A cached inode is written      *)
(* through (fs_write_inode), so its mode and its sectors are kept once, in *)
(* disk_inode.  Paths are names of the one directory, as fs_strip_path     *)
(* makes them: as long as the field of an entry, or shorter.               *)
(***************************************************************************)
EXTENDS SectorMap, Sequences

CONSTANTS
    Proc,               \* the processes that make requests
    File,               \* the names of files that are created
    LongName,           \* those that fill the field: FS_MAX_FILENAME characters
    Device,             \* the sequence of the names dev_tty0, dev_tty1, ...
    RootPath, Dot,      \* "/" and "."
    NoName, MixedName,  \* the field is zero, or holds parts of two names
    FS_NUM_FILES,       \* slots of fd_table in a process
    NUM_PROCS,          \* how far fs_do_open looks for a free one
    FS_NUM_FD, FS_NUM_INODE,
    FS_DIRENTRY_PER_SECTOR, FS_INODE_PER_SECTOR,
    MaxRef,             \* bound: unlink is not asked for when a count is there
    RestartIn           \* bound: the values of leftover in which there is a restart

DeviceName == {Device[k] : k \in DOMAIN Device}
Name == File \cup DeviceName \cup {Dot}
Path == Name \cup {RootPath}

NumDevice == Len(Device)
FS_INODE_INVALID == 0
FS_INODE_ROOT == 1
Inode == 1 .. (1 + NumDevice + NumExtent)
\* num_sectors of the root as an inode number: no file gets it, and mkfs does
\* not format the sector of the inodes where it is.
Unformatted == FS_DEFAULT_FILE_SECTORS
MaxEntry == 1 + NumDevice + NumExtent
None == -1

ASSUME FileSystemAssumption ==
    /\ IsFiniteSet(Proc) /\ Device \in Seq(DeviceName)
    /\ FS_NUM_FILES \in Nat /\ NUM_PROCS \in 1..FS_NUM_FILES
    /\ FS_NUM_FD \in Nat /\ FS_NUM_INODE \in Nat \ {0}
    \* mkfs writes its entries and inodes in one sector each.
    /\ FS_DIRENTRY_PER_SECTOR \in Nat /\ 1 + NumDevice <= FS_DIRENTRY_PER_SECTOR
    /\ FS_INODE_PER_SECTOR \in Nat /\ 1 + NumDevice <= FS_INODE_PER_SECTOR
    /\ NumExtent \in Nat /\ MaxRef \in Nat /\ Unformatted \notin Inode
    /\ LongName \subseteq File
    /\ RootPath \notin Name /\ {NoName, MixedName} \cap Path = {} /\ Dot \notin File \cup DeviceName
    /\ File \cap DeviceName = {}

VARIABLES
    fd_table,      \* process -> fd -> descriptor or None
    f_desc,        \* fs_file_descriptor_table: the inode slot, or None
    inode_table,   \* fs_inode_table: index and ref_count of each slot
    imap,          \* the inodes whose bit is set
    smap,          \* the map of the sectors
    disk_inode,    \* mode and start_sector, from num_first_sector, of each inode
    dir,           \* the entries of the root directory
    dir_size,      \* fs_inode_root->size, in entries
    leftover,      \* history: entries of an earlier start are "none", or may lie
                   \* "behind" the directory, or it has "reached" their sectors
    panicked       \* why the system has stopped, or "no"

memory == <<fd_table, f_desc, inode_table>>
disk == <<imap, smap, disk_inode, dir, dir_size, leftover>>
vars == <<memory, disk, panicked>>

Fd == 0 .. (FS_NUM_FILES - 1)
Desc == 0 .. (FS_NUM_FD - 1)
Slot == 0 .. (FS_NUM_INODE - 1)
Mode == {"free", "regular", "directory", "char"}
FreeEntry == [inode |-> FS_INODE_INVALID, name |-> NoName]
FreeInode == [mode |-> "free", start_sector |-> 0]

\* Every table has its type, and the directory stays in its sectors.
TypeOK ==
    /\ fd_table \in [Proc -> [Fd -> Desc \cup {None}]]
    /\ f_desc \in [Desc -> Slot \cup {None}]
    /\ inode_table \in [Slot -> [index : Inode \cup {FS_INODE_INVALID},
                                 ref_count : Nat]]
    /\ imap \subseteq Inode
    /\ smap \subseteq Bit
    /\ disk_inode \in [Inode -> [mode : Mode, start_sector : Bit]]
    /\ dir \in [0..MaxEntry -> [inode : Inode \cup {FS_INODE_INVALID},
                                name : Name \cup {NoName, MixedName}]]
    /\ dir_size \in 0..MaxEntry
    /\ leftover \in {"none", "behind", "reached"}
    /\ panicked \in {"no", "no available fd", "no access flag", "no reference",
                     "inode is not allocated", "inode table is full",
                     "no free sectors", "not a regular file", "no entry",
                     "stat is not implemented"}

-----------------------------------------------------------------------------
(* A start: init_fs and mkfs.                                              *)

NoFds == [p \in Proc |-> [i \in Fd |-> None]]
NoDescs == [d \in Desc |-> None]
\* init_fs gets the root inode.
RootGotten == [s \in Slot |->
    [index     |-> IF s = 0 THEN FS_INODE_ROOT ELSE FS_INODE_INVALID,
     ref_count |-> IF s = 0 THEN 1 ELSE 0]]

FormattedMap == 1 .. (1 + NumDevice)

\* The inodes on a disk that was blank: the root is 1, the devices follow.
RootInodes == [i \in Inode |->
    CASE i = FS_INODE_ROOT -> [mode |-> "directory", start_sector |-> 0]
      [] i \in FormattedMap \ {FS_INODE_ROOT} -> [mode |-> "char", start_sector |-> 0]
      [] OTHER -> FreeInode]

\* mkfs writes the first sector of them.
FormattedInodes(old) ==
    [i \in Inode |-> IF i <= FS_INODE_PER_SECTOR THEN RootInodes[i] ELSE old[i]]

\* The entries on a disk that was blank: "." and the devices.
RootEntries == [k \in 0..MaxEntry |->
    CASE k = 0 -> [inode |-> FS_INODE_ROOT, name |-> Dot]
      [] k \in 1..NumDevice -> [inode |-> k + 1, name |-> Device[k]]
      [] OTHER -> FreeEntry]

\* Variant: the entries are written over the first sector without clearing it.
FormattedOver(old) ==
    [k \in 0..MaxEntry |-> IF k <= NumDevice THEN RootEntries[k] ELSE old[k]]

\* mkfs writes the first sector of them.
FormattedEntries(old) ==
    [k \in 0..MaxEntry |-> IF k < FS_DIRENTRY_PER_SECTOR THEN RootEntries[k] ELSE old[k]]

\* Variant: only the first sector of the map is written.
FormattedSectorsFirst(old) == RootBits \cup {n \in old : n >= Position(1, 0, 0)}

\* The map of the sectors is written as a whole.
FormattedSectors(old) == RootBits

\* The first start.
Init ==
    /\ fd_table = NoFds /\ f_desc = NoDescs /\ inode_table = RootGotten
    /\ imap = FormattedMap /\ smap = RootBits
    /\ disk_inode = RootInodes /\ dir = RootEntries /\ dir_size = 1 + NumDevice
    /\ leftover = "none"
    /\ panicked = "no"

-----------------------------------------------------------------------------
(* Helpers of fs/core.cpp.                                                 *)

\* The entries that fs_search_file compares: those of the directory and, in
\* the same sector, the one behind them, for m is compared after the name.
Scanned ==
    LET blocks == (dir_size + FS_DIRENTRY_PER_SECTOR - 1) \div FS_DIRENTRY_PER_SECTOR
    IN {k \in 0..MaxEntry : k <= dir_size /\ k < blocks * FS_DIRENTRY_PER_SECTOR}

\* The inode of a path, or FS_INODE_INVALID.  For "/" it is num_sectors.
fs_search_file(path) ==
    LET hits == {k \in Scanned : dir[k].name = path}
    IN CASE path = RootPath -> Unformatted
         [] path # RootPath /\ hits # {} -> dir[First(hits)].inode
         [] OTHER -> FS_INODE_INVALID

Cached(i) == {s \in Slot : inode_table[s].ref_count > 0 /\ inode_table[s].index = i}
FreeSlot == {s \in Slot : inode_table[s].ref_count = 0}

\* Variant: the first free slot is taken before the search is over.
SlotOfEarly(i) == First(Cached(i) \cup FreeSlot)

\* The slot that fs_get_inode returns for inode i.
SlotOf(i) == First(IF Cached(i) # {} THEN Cached(i) ELSE FreeSlot)
TableIsFull(i) == Cached(i) = {} /\ FreeSlot = {}

\* Variant: a cached inode is shared without being counted.
GottenUncounted(i) ==
    [inode_table EXCEPT ![SlotOf(i)] =
        [index |-> i, ref_count |-> IF Cached(i) # {} THEN @.ref_count ELSE 1]]

\* fs_inode_table after fs_get_inode(i).
Gotten(i) ==
    [inode_table EXCEPT ![SlotOf(i)] = [index |-> i, ref_count |-> @.ref_count + 1]]

Panic(why) == panicked' = why /\ UNCHANGED <<memory, disk>>

\* The calling process is not stopped, and task_fs is not.
Request == panicked = "no"

-----------------------------------------------------------------------------
(* open                                                                    *)

FreeFd(p) == {i \in 0 .. (NUM_PROCS - 1) : fd_table[p][i] = None}
FreeDesc == {d \in Desc : f_desc[d] = None}

\* No slot for the descriptor, in the process or in the system.
OpenNoFd(p) ==
    /\ Request
    /\ FreeFd(p) = {} \/ FreeDesc = {}
    /\ Panic("no available fd")

CanOpen(p) == Request /\ FreeFd(p) # {} /\ FreeDesc # {}

\* Neither O_CREAT nor O_RDWR.
OpenNoFlag(p) == CanOpen(p) /\ Panic("no access flag")

\* The file exists and O_CREAT is given, or it does not and O_RDWR alone is.
OpenFails(p, path, creat) ==
    /\ CanOpen(p)
    /\ creat <=> fs_search_file(path) # FS_INODE_INVALID
    /\ UNCHANGED vars

\* Inode i, in its slot of inode_table', becomes the first free descriptor.
Describe(p, i) ==
    LET d == First(FreeDesc) IN
        /\ f_desc' = [f_desc EXCEPT ![d] = SlotOf(i)]
        /\ fd_table' = [fd_table EXCEPT ![p][First(FreeFd(p))] = d]

\* What has the mode of no file: "/", and an inode that is named by an entry
\* of an earlier start and was formatted or removed since.
NotAFile(i) == i \in Inode => disk_inode[i].mode = "free"

\* fs_do_open with O_RDWR alone.  The asserted mode is that of the inode on the
\* disk; opening a device also asks its driver, which always answers.
OpenExisting(p, path) ==
    LET i == fs_search_file(path) IN
    /\ CanOpen(p) /\ i # FS_INODE_INVALID
    /\ \/ TableIsFull(i) /\ Panic("inode table is full")
       \/ ~TableIsFull(i) /\ NotAFile(i) /\ Panic("not a regular file")
       \/ /\ ~TableIsFull(i) /\ ~NotAFile(i)
          /\ inode_table' = Gotten(i)
          /\ Describe(p, i)
          /\ UNCHANGED <<disk, panicked>>

\* Variant: an entry is free if the one behind it is.
NewEntryBefore ==
    LET free == {k \in 0 .. (dir_size - 1) : dir[k + 1].inode = FS_INODE_INVALID}
    IN IF free # {} THEN First(free) ELSE dir_size

\* The entry that fd_new_dir_entry fills: a free one, or a new one at the end.
NewEntry ==
    LET free == {k \in 0 .. (dir_size - 1) : dir[k].inode = FS_INODE_INVALID}
    IN IF free # {} THEN First(free) ELSE dir_size

\* strcpy over what the entry holds: behind a shorter name, the end of a longer
\* one stays, and no path is equal to that.
NameIn(k, path) ==
    IF dir[k].name \in LongName \cup {MixedName} /\ path \notin LongName
    THEN MixedName ELSE path

\* The zero behind a name that fills its field is the low byte, here all, of the
\* next inode_index, as far as that is in the same sector.
RunsOver(k, path) ==
    /\ path \in LongName
    /\ (k + 1) % FS_DIRENTRY_PER_SECTOR # 0 /\ k + 1 \in DOMAIN dir

\* The inodes with a new file, in the sectors that are free.
NewInodes(i) ==
    [disk_inode EXCEPT ![i] = [mode |-> "regular", start_sector |-> StartOf(smap)]]

\* The directory with the new entry k.
EntryNamed(k, i, path) ==
    [j \in DOMAIN dir |->
        CASE j = k -> [inode |-> i, name |-> NameIn(k, path)]
          [] j = k + 1 /\ RunsOver(k, path) -> [dir[j] EXCEPT !.inode = FS_INODE_INVALID]
          [] OTHER -> dir[j]]

\* fs_do_open with O_CREAT, fd_create_file and the functions it calls.
OpenCreate(p, path) ==
    LET i == First(Inode \ imap) IN
    /\ CanOpen(p) /\ fs_search_file(path) = FS_INODE_INVALID
    /\ \/ MapIsFull(smap) /\ Panic("no free sectors")
       \/ ~MapIsFull(smap) /\ TableIsFull(i) /\ Panic("inode table is full")
       \/ /\ ~MapIsFull(smap) /\ ~TableIsFull(i)
          /\ imap' = imap \cup {i}
          /\ smap' = smap \cup Wanted(smap)
          /\ disk_inode' = NewInodes(i)
          /\ dir' = EntryNamed(NewEntry, i, path)
          /\ dir_size' = IF NewEntry = dir_size THEN dir_size + 1 ELSE dir_size
          /\ leftover' = IF leftover = "behind" /\ dir_size' > FS_DIRENTRY_PER_SECTOR
                         THEN "reached" ELSE leftover
          /\ inode_table' = [Gotten(i) EXCEPT ![SlotOf(i)].ref_count = 1]
          /\ Describe(p, i)
          /\ UNCHANGED panicked

-----------------------------------------------------------------------------
(* close                                                                   *)

\* fs_do_close, for a descriptor that the process has open.  fs_put_inode asserts
\* that there is a reference.
Close(p, fd) ==
    LET d == fd_table[p][fd] IN
    /\ Request /\ d # None
    /\ \/ inode_table[f_desc[d]].ref_count = 0 /\ Panic("no reference")
       \/ /\ inode_table[f_desc[d]].ref_count > 0
          /\ inode_table' = [inode_table EXCEPT ![f_desc[d]].ref_count = @ - 1]
          /\ f_desc' = [f_desc EXCEPT ![d] = None]
          /\ fd_table' = [fd_table EXCEPT ![p][fd] = None]
          /\ UNCHANGED <<disk, panicked>>

-----------------------------------------------------------------------------
(* unlink                                                                  *)

CanUnlink(path) ==
    /\ Request
    /\ path # RootPath /\ fs_search_file(path) # FS_INODE_INVALID
    /\ \A s \in Slot : inode_table[s].ref_count < MaxRef

\* "/" and names that are not found.
UnlinkFails(path) ==
    /\ Request
    /\ path = RootPath \/ fs_search_file(path) = FS_INODE_INVALID
    /\ UNCHANGED vars

\* Variant: an open file may be removed.
RemovableOpen(i) == disk_inode[i].mode = "regular"

\* A regular file that nobody else has open.
Removable(i) == disk_inode[i].mode = "regular" /\ Cached(i) = {}

\* Returns -1 after fs_get_inode: the reference is kept.
UnlinkRefused(path) ==
    LET i == fs_search_file(path) IN
    /\ CanUnlink(path)
    /\ \/ TableIsFull(i) /\ Panic("inode table is full")
       \/ /\ ~TableIsFull(i) /\ ~Removable(i)
          /\ inode_table' = Gotten(i)
          /\ UNCHANGED <<fd_table, f_desc, disk, panicked>>

\* The entry of inode i; the directory gets shorter when it was the last one,
\* by the number of free entries before it too.
EntryOf(i) == {k \in 0 .. (dir_size - 1) : dir[k].inode = i}
InUseBefore(k) == {j \in 0 .. (k - 1) : dir[j].inode # FS_INODE_INVALID}

\* What unlink gives back of the map.
SectorsOf(i) == Given(disk_inode[i].start_sector)

\* Variant: only the name of the entry is cleared.
ClearedName(k) == [dir EXCEPT ![k].name = NoName]

\* The directory without its entry k.
Cleared(k) == [dir EXCEPT ![k] = FreeEntry]

\* The inodes without a file.
ClearedInodes(i) == [disk_inode EXCEPT ![i] = FreeInode]

CanRemove(path) ==
    LET i == fs_search_file(path)
    IN  CanUnlink(path) /\ ~TableIsFull(i) /\ Removable(i)

\* A file that an entry of an earlier start names: assert on its bit of the map.
UnlinkUnallocated(path) ==
    /\ CanRemove(path) /\ fs_search_file(path) \notin imap
    /\ Panic("inode is not allocated")

\* The reference that unlink gets itself is put back.  Its slot, which was
\* free, has no index that counts.
Unlink(path) ==
    LET i == fs_search_file(path) IN
    /\ CanRemove(path) /\ i \in imap
    /\ imap' = imap \ {i}
    /\ smap' = smap \ SectorsOf(i)
    /\ disk_inode' = ClearedInodes(i)
    /\ \/ /\ EntryOf(i) = {}
          /\ panicked' = "no entry"
          /\ UNCHANGED <<dir, dir_size>>
       \/ /\ EntryOf(i) # {}
          /\ LET k == First(EntryOf(i)) IN
                /\ dir' = Cleared(k)
                /\ dir_size' = IF k + 1 = dir_size
                               THEN Cardinality(InUseBefore(k)) ELSE dir_size
          /\ UNCHANGED panicked
    /\ UNCHANGED <<memory, leftover>>

-----------------------------------------------------------------------------
\* The request is there, what it does is not.
fs_do_stat == Request /\ Panic("stat is not implemented")

-----------------------------------------------------------------------------
(* The machine stops, at any time or after a panic, and is started again.  *)

\* What may be in the inodes then: a creation writes its inode before its
\* entry, and unlink clears both in that order.
LastInodes ==
    {disk_inode}
        \cup (IF panicked = "no" /\ ~MapIsFull(smap)
              THEN {NewInodes(First(Inode \ imap))} ELSE {})
        \cup {ClearedInodes(fs_search_file(path)) :
                 path \in {q \in Path : CanRemove(q) /\ fs_search_file(q) \in imap}}

Restart ==
    /\ leftover \in RestartIn
    /\ fd_table' = NoFds /\ f_desc' = NoDescs /\ inode_table' = RootGotten
    /\ imap' = FormattedMap /\ smap' = FormattedSectors(smap)
    /\ \E old \in LastInodes : disk_inode' = FormattedInodes(old)
    /\ dir' = FormattedEntries(dir)
    /\ dir_size' = 1 + NumDevice
    /\ leftover' = "behind"
    /\ panicked' = "no"

-----------------------------------------------------------------------------
Next ==
    \/ \E p \in Proc :
          \/ OpenNoFd(p) \/ OpenNoFlag(p)
          \/ \E path \in Path :
                \/ \E creat \in BOOLEAN : OpenFails(p, path, creat)
                \/ OpenExisting(p, path)
          \/ \E path \in File : OpenCreate(p, path)
          \/ \E fd \in Fd : Close(p, fd)
    \/ \E path \in Path : UnlinkFails(path) \/ UnlinkRefused(path)
                            \/ UnlinkUnallocated(path) \/ Unlink(path)
    \/ fs_do_stat
    \/ Restart

Spec == Init /\ [][Next]_vars

-----------------------------------------------------------------------------
(* Properties.                                                             *)

UsersOf(s) == {d \in Desc : f_desc[d] = s}
\* fs_inode_root is one more user of the inode in the first slot.
Sharers(s) == Cardinality(UsersOf(s)) + (IF s = 0 THEN 1 ELSE 0)

\* No inode is given up too early: the slot of an inode that somebody has open
\* is never taken for another one, and the assertion of fs_put_inode holds
\* (core.cpp:55-96, 111-115; fd.cpp:138-147), as long as the directory has not
\* reached entries of an earlier start.
RefCountCovers ==
    leftover # "reached" =>
        /\ panicked # "no reference"
        /\ \A s \in Slot : inode_table[s].ref_count >= Sharers(s)

\* What is open exists: unlink never removes a file that is open, through
\* whichever descriptor of whichever process, no name opens or removes what is
\* not there (fd.cpp:311-315, 326), as long as the directory has not reached
\* entries of an earlier start (main.cpp:219-249, core.cpp:139-142).
OpenFilesExist ==
    leftover # "reached" =>
        /\ panicked # "inode is not allocated"
        /\ \A d \in Desc : f_desc[d] # None =>
              LET i == inode_table[f_desc[d]].index
              IN i \in imap /\ disk_inode[i].mode # "free"

\* An inode is in the table once, so that all its users see one size, and two
\* open files never share a descriptor (core.cpp:62-83, fd.cpp:49-72).
NoAliases ==
    /\ \A i \in Inode : Cardinality(Cached(i)) <= 1
    /\ \A p, q \in Proc, x, y \in Fd :
          fd_table[p][x] = fd_table[q][y] /\ fd_table[p][x] # None
              => p = q /\ x = y

RegularFile == {i \in imap : disk_inode[i].mode = "regular"}

\* The sectors that inode i says it has.
Extent(i) == (disk_inode[i].start_sector + 1)
                 .. (disk_inode[i].start_sector + FS_DEFAULT_FILE_SECTORS)

\* No two files share sectors, the map has the sectors of the root and of the
\* files that exist and no others, through whole bytes, parts of bytes and the
\* ends of sectors, the assertions on its bits hold (fd.cpp:344, 358, 371, 595),
\* and no file is refused while there is room for one.
SectorsExact ==
    /\ smap = RootBits \cup UNION {Extent(i) : i \in RegularFile}
    /\ \A i, j \in RegularFile : i # j => Extent(i) \cap Extent(j) = {}
    /\ MapIsFull(smap) \/ Wanted(smap) \cap smap = {}
    /\ \A i \in RegularFile : SectorsOf(i) \subseteq smap
    /\ panicked = "no free sectors" => Cardinality(RegularFile) = NumExtent

\* The entries that this start has written, or found to be free: all of a blank
\* disk, later those of the sector that mkfs writes, and of the directory.
Own == {k \in 0..MaxEntry :
           \/ leftover = "none"
           \/ leftover = "behind" /\ k < FS_DIRENTRY_PER_SECTOR
           \/ k < dir_size}

\* The tables are well typed, and every entry of this start, those behind the
\* end of the directory included, stands for an allocated inode that no other
\* one stands for (fd.cpp:387-430, 632-675; main.cpp:238-249).
EntriesAreFiles ==
    /\ TypeOK
    /\ panicked = "no" =>
          \A j, k \in Own : dir[j].inode # FS_INODE_INVALID =>
              /\ dir[j].inode \in imap
              /\ dir[k].inode = dir[j].inode => k = j

\* A name stands for its file as long as that exists, unless its entry is, or
\* with this step comes to be, behind the end of the directory, or a name that
\* fills its field is written into the entry before it (core.cpp:117-148,
\* fd.cpp:387-430, 632-675).
FilesKeepTheirNames ==
    [][\A path \in File :
          LET i == fs_search_file(path)
              k == First({e \in Scanned : dir[e].name = path})
          IN  i \in RegularFile /\ i \in RegularFile' =>
                  \/ fs_search_file(path)' = i
                  \/ k >= dir_size \/ k >= dir_size'
                  \/ dir[k - 1].inode = FS_INODE_INVALID /\ dir'[k - 1].name \in LongName]_vars

\* assert(flag), fd.cpp:423: a file that fs_search_file has found has an entry
\* in the directory.
UnlinkFindsEntry == panicked # "no entry"
=============================================================================
