-------------------------------- MODULE Loader --------------------------------
(***************************************************************************)
(* boot/loader.asm: from the map of memory that the BIOS gives, over the   *)
(* search for KERNEL.BIN on a FAT12 floppy, the walk along its chain and   *)
(* the tables of pages, to the segments of the kernel at their addresses.  *)
(*                                                                         *)
(* The floppy is small: sectors of BytsPerSec bytes, a real-mode segment   *)
(* of Segment bytes, and tables that map Span pages.  Numbers of the FAT   *)
(* keep their twelve bits.  A sector of the file and a page of memory are  *)
(* units of the same size.  A read that fails is tried again without a     *)
(* change of state and is no step here.  Memory answers below its highest  *)
(* range's end, without holes, and is clear at first: an entry of the page *)
(* directory or a table that nobody wrote says that a page is not there.   *)
(***************************************************************************)
EXTENDS Integers, SequencesExt, FiniteSetsExt

CONSTANTS
    BytsPerSec,     \* BPB_BytsPerSec, 512
    SecPerTrk,      \* BPB_SecPerTrk, 18
    FATSz,          \* sectors of each of the two FATs, 9
    RootDirSectors, \* 14
    EntriesPerSector,   \* directory entries of a sector, 16
    Segment,        \* bytes that bx can address, 64K
    VALID_SPACE,    \* KERNEL_VALID_SPACE, 128K
    Chain,          \* the chains of clusters that KERNEL.BIN may have
    AddressSpace,   \* the pages of 32 bits of address, 2^20
    Span,           \* pages that a table maps, 1024
    PAGE_DIR,       \* the page of the directory, the tables follow it
    KERNEL_PAGE,    \* the page of KRNL_ENT_PT_PHY_ADDR
    MemMap          \* the answers of int 15h: sequences of [base, length, type]

SectorNoOfFAT1 == 1
SectorNoOfRootDirectory == 1 + 2 * FATSz
DeltaSectorNo == 1 + 2 * FATSz - 2
END_OF_CHAIN == 4095

\* What a unit of memory holds.
Free == <<"free", 0>>
TheLoader == <<"loader", 0>>
Directory == <<"directory", 0>>
Table(k) == <<"table", k>>
OfFile(sector) == <<"file", sector>>

ASSUME LoaderAssumption ==
    /\ {BytsPerSec, SecPerTrk, FATSz, RootDirSectors, EntriesPerSector, Segment,
        VALID_SPACE, AddressSpace, Span, PAGE_DIR, KERNEL_PAGE} \subseteq Nat \ {0}
    /\ Segment % BytsPerSec = 0 /\ VALID_SPACE % BytsPerSec = 0
    /\ 2 + FATSz =< SecPerTrk       \* a read of two sectors stays on the track
    \* The tables that map the kernel are below it.
    /\ PAGE_DIR + 1 + (KERNEL_PAGE + VALID_SPACE \div BytsPerSec) \div Span < KERNEL_PAGE
    \* A file has its clusters to itself, and a kernel that fits fits in memory.
    /\ \A c \in Chain :
          c # <<>> /\ c \in Seq(2..END_OF_CHAIN - 1) /\ IsInjective(c)
    /\ KERNEL_PAGE + VALID_SPACE \div BytsPerSec =< AddressSpace
    /\ MemMap \subseteq Seq([base : Nat, length : Nat, type : Nat])

VARIABLES
    floppy,         \* [name |-> of each entry, size, chain |-> of the kernel]
    e820,           \* the map of memory, and whether int 15h fails after it
    booting,        \* where the loader is
    MCRNumber,      \* entries of MemChkBuf that count
    wSectorNo, wRootDirSizeForLoop,
    cluster, es, bx,    \* what is read next, and where to
    fatbuf,         \* the two sectors below the kernel's segment
    file,           \* memory from KERNEL_FILE_SEG on, in sectors
    dwMemSize,
    tables,         \* tables of pages that were counted
    pages           \* memory from 0 on, in pages

loaderVars == <<floppy, e820, booting, MCRNumber, wSectorNo, wRootDirSizeForLoop, cluster,
                es, bx, fatbuf, file, dwMemSize, tables, pages>>

-----------------------------------------------------------------------------
(* The floppy and the file on it.                                          *)

Entries == RootDirSectors * EntriesPerSector

Fat(n) == LET c == floppy.chain IN
    CASE n = 0        -> 4080
      [] n = 1        -> END_OF_CHAIN
      [] Contains(c, n) -> LET i == CHOOSE i \in DOMAIN c : c[i] = n
                           IN IF i = Len(c) THEN END_OF_CHAIN ELSE c[i + 1]
      [] OTHER        -> 0

\* Two numbers of twelve bits in three bytes.
FatByte(i) == LET n == 2 * (i \div 3) IN
    CASE i % 3 = 0 -> Fat(n) % 256
      [] i % 3 = 1 -> Fat(n) \div 256 + (Fat(n + 1) % 16) * 16
      [] i % 3 = 2 -> Fat(n + 1) \div 16

\* The file is one header for its first two units, an unused one, and one for
\* the rest, which asks for a unit of cleared memory too.
Headers == LET L == Len(floppy.chain)  first == IF L = 1 THEN 1 ELSE 2 IN
    <<[type |-> "LOAD", offset |-> 0, vaddr |-> KERNEL_PAGE, filesz |-> first],
      [type |-> "NULL", offset |-> 0, vaddr |-> 0, filesz |-> 1],
      [type |-> "LOAD", offset |-> first, vaddr |-> KERNEL_PAGE + first, filesz |-> L - first]>>

-----------------------------------------------------------------------------
LoaderInit ==
    /\ \E c \in Chain, rest \in 0..BytsPerSec - 1, n \in 0..Entries :
          floppy = [name  |-> [i \in 0..Entries - 1 |-> IF i = n THEN "KERNEL  BIN" ELSE "other"],
                    size  |-> Len(c) * BytsPerSec - rest,
                    chain |-> c]
    /\ e820 \in [map : MemMap, fails : BOOLEAN] /\ (e820.map = <<>> => e820.fails)
    /\ booting = "memory" /\ MCRNumber = 0
    /\ wSectorNo = 0 /\ wRootDirSizeForLoop = RootDirSectors
    /\ cluster = 0 /\ es = 0 /\ bx = 0
    /\ fatbuf = [i \in 0..2 * BytsPerSec - 1 |-> 0]
    /\ file = [s \in 0..VALID_SPACE \div BytsPerSec |->
                  IF s * BytsPerSec = VALID_SPACE THEN TheLoader ELSE Free]
    /\ dwMemSize = 0 /\ tables = 0
    /\ pages = [p \in 0..AddressSpace - 1 |-> Free]

diskVars == <<wSectorNo, wRootDirSizeForLoop, cluster, es, bx, fatbuf, file>>
pageVars == <<dwMemSize, tables, pages>>

\* One call of int 15h for each range; a call that fails gives up all of them.
MemChkLoop ==
    /\ booting = "memory"
    /\ IF MCRNumber < Len(e820.map)
       THEN MCRNumber' = MCRNumber + 1 /\ UNCHANGED <<booting, wSectorNo>>
       ELSE /\ MCRNumber' = IF e820.fails THEN 0 ELSE MCRNumber
            /\ booting' = "search" /\ wSectorNo' = SectorNoOfRootDirectory
    /\ UNCHANGED <<floppy, e820, wRootDirSizeForLoop, cluster, es, bx, fatbuf, file, pageVars>>

\* What the drive finds at a place of the floppy that has two heads.
SectorAt(place) == (place.cylinder * 2 + place.head) * SecPerTrk + place.sector - 1

\* The place that int 13h is told for a sector, whose sectors count from one.
ReadSector(ax) ==
    SectorAt([cylinder |-> (ax \div SecPerTrk) \div 2, head |-> (ax \div SecPerTrk) % 2,
              sector   |-> (ax % SecPerTrk) + 1])

\* The entries of the sector of the root directory that have the name.
FilenameFound ==
    LET first == (ReadSector(wSectorNo) - SectorNoOfRootDirectory) * EntriesPerSector
    IN {i \in first..first + EntriesPerSector - 1 : floppy.name[i] = "KERNEL  BIN"}

GotoNextSectorInRootDir ==
    /\ booting = "search" /\ wRootDirSizeForLoop > 0
    /\ FilenameFound = {}
    /\ wRootDirSizeForLoop' = wRootDirSizeForLoop - 1
    /\ wSectorNo' = wSectorNo + 1
    /\ UNCHANGED <<floppy, e820, booting, MCRNumber, cluster, es, bx, fatbuf, file, pageVars>>

NoKernel ==
    /\ booting = "search" /\ wRootDirSizeForLoop = 0
    /\ booting' = "No KERNEL"
    /\ UNCHANGED <<floppy, e820, MCRNumber, diskVars, pageVars>>

FitsInSpace == floppy.size =< VALID_SPACE

StartsLoading ==
    /\ booting = "search" /\ wRootDirSizeForLoop > 0
    /\ FilenameFound # {}
    /\ wRootDirSizeForLoop' = wRootDirSizeForLoop - 1
    /\ booting' = IF FitsInSpace THEN "loading" ELSE "Too Large"
    /\ cluster' = IF FitsInSpace THEN Head(floppy.chain) ELSE cluster
    /\ UNCHANGED <<floppy, e820, MCRNumber, wSectorNo, es, bx, fatbuf, file, pageVars>>

\* Variant: one sector of the FAT is read, not two.
ReadsOneOfFat(offset) ==
    LET start == (ReadSector(SectorNoOfFAT1 + offset \div BytsPerSec) - SectorNoOfFAT1) * BytsPerSec
    IN [i \in DOMAIN fatbuf |-> IF i < BytsPerSec THEN FatByte(start + i) ELSE fatbuf[i]]

\* Two sectors, as a number may begin in one and end in the next.
ReadsFat(offset) ==
    LET start == (ReadSector(SectorNoOfFAT1 + offset \div BytsPerSec) - SectorNoOfFAT1) * BytsPerSec
    IN [i \in DOMAIN fatbuf |-> FatByte(start + i)]

GetFATEntry(ax) ==
    LET offset == (ax * 3) \div 2
        odd    == (ax * 3) % 2 = 1
        at16   == offset % BytsPerSec
        word   == ReadsFat(offset)[at16] + 256 * ReadsFat(offset)[at16 + 1]
    IN (IF odd THEN word \div 16 ELSE word) % 4096

\* Variant: the segment stays when the offset begins again.
SameSegment == es

\* The offset begins again at 64K, in the next segment.
NextSegment == IF bx + BytsPerSec >= Segment THEN es + Segment ELSE es

GoonLoadingFile ==
    /\ booting = "loading"
    /\ file' = [file EXCEPT ![(es + bx) \div BytsPerSec] =
                    OfFile(ReadSector(cluster + RootDirSectors + DeltaSectorNo))]
    /\ fatbuf' = ReadsFat((cluster * 3) \div 2)
    /\ IF GetFATEntry(cluster) = END_OF_CHAIN
       THEN booting' = "loaded" /\ UNCHANGED <<cluster, es, bx>>
       ELSE /\ cluster' = GetFATEntry(cluster)
            /\ bx' = (bx + BytsPerSec) % Segment /\ es' = NextSegment
            /\ UNCHANGED booting
    /\ UNCHANGED <<floppy, e820, MCRNumber, wSectorNo, wRootDirSizeForLoop, pageVars>>

\* The end of the highest range of memory, in 32 bits; the loop over no range
\* at all runs 2^32 times and leaves the loader lost.
DispMemInfo ==
    /\ booting = "loaded"
    /\ IF MCRNumber = 0
       THEN booting' = "lost" /\ UNCHANGED dwMemSize
       ELSE /\ dwMemSize' = Max({0} \union {(r.base + r.length) % AddressSpace :
                    r \in {e820.map[i] : i \in {i \in 1..MCRNumber : e820.map[i].type = 1}}})
            /\ booting' = "paging"
    /\ UNCHANGED <<floppy, e820, MCRNumber, diskVars, tables, pages>>

\* Variant: what is left of memory behind the last full table is not mapped.
FullTables == dwMemSize \div Span

Tables == dwMemSize \div Span + (IF dwMemSize % Span = 0 THEN 0 ELSE 1)

\* Both loops run 2^32 times for no memory.  What is written behind the end of
\* memory is lost.
SetupPaging ==
    /\ booting = "paging"
    /\ tables' = Tables
    /\ booting' = IF Tables = 0 THEN "lost" ELSE "init"
    /\ pages' = [p \in DOMAIN pages |->
                    IF p >= dwMemSize THEN pages[p]
                    ELSE CASE p = PAGE_DIR                          -> Directory
                           [] p \in PAGE_DIR + 1..PAGE_DIR + Tables -> Table(p - PAGE_DIR - 1)
                           [] OTHER                                 -> pages[p]]
    /\ UNCHANGED <<floppy, e820, MCRNumber, diskVars, dwMemSize>>

ProgramHeaders == {h \in ToSet(Headers) : h.type # "NULL"}

KernelPages == UNION {h.vaddr..h.vaddr + h.filesz - 1 : h \in ProgramHeaders}

\* Paging is on: the page at a linear address is found through its table.
Maps(p) == pages[PAGE_DIR + 1 + p \div Span] = Table(p \div Span)

Unmapped == {p \in KernelPages : ~Maps(p)}

\* The headers lie in the order of their addresses.
Stored == {p \in KernelPages : p < dwMemSize /\ \A q \in Unmapped : p < q}

\* The first page that no table maps is a fault that nothing handles yet.  What
\* a header asks for behind filesz (.bss) is left as it is.
InitKernel ==
    /\ booting = "init"
    /\ pages' = [p \in DOMAIN pages |->
                    IF p \in Stored
                    THEN LET h == CHOOSE h \in ProgramHeaders : p \in h.vaddr..h.vaddr + h.filesz - 1
                         IN file[h.offset + p - h.vaddr]
                    ELSE pages[p]]
    /\ booting' = IF Unmapped = {} THEN "started" ELSE "faults"
    /\ UNCHANGED <<floppy, e820, MCRNumber, diskVars, dwMemSize, tables>>

LoaderNext == MemChkLoop \/ GotoNextSectorInRootDir \/ NoKernel \/ StartsLoading
                  \/ GoonLoadingFile \/ DispMemInfo \/ SetupPaging \/ InitKernel

LoaderSpec == LoaderInit /\ [][LoaderNext]_loaderVars

-----------------------------------------------------------------------------
(* Properties.                                                             *)

\* The sector of a unit of the file: the data begin behind the root directory
\* with cluster 2.
DataSector(u) == SectorNoOfRootDirectory + RootDirSectors + floppy.chain[u + 1] - 2

\* A kernel that fits and has its entry anywhere in the root directory is
\* started with each unit of its file for which there is memory at its address,
\* however its chain lies on the floppy, across the sectors of the FAT and the
\* segments of memory; the loader itself is not overwritten; the loader stops
\* only for the reasons it gives, with no memory told to it, or with a fault
\* where memory ends before the kernel does; and all memory is mapped whose
\* tables lie in memory below the kernel (boot/loader.asm:72-181, 295-378,
\* 684-860).
KernelStarts ==
    /\ file[VALID_SPACE \div BytsPerSec] = TheLoader
    /\ booting = "No KERNEL" => \A i \in DOMAIN floppy.name : floppy.name[i] = "other"
    /\ booting = "Too Large" => floppy.size > VALID_SPACE
    /\ booting = "lost" => e820.fails \/ dwMemSize = 0
    /\ booting = "faults" => dwMemSize < KERNEL_PAGE + Len(floppy.chain)
    /\ booting = "started" =>
          /\ \A u \in 0..Len(floppy.chain) - 1 :
                KERNEL_PAGE + u < dwMemSize => pages[KERNEL_PAGE + u] = OfFile(DataSector(u))
          /\ \A p \in 0..PAGE_DIR - 1 : pages[p] = Free
          /\ \A p \in 0..dwMemSize - 1 :
                LET table == PAGE_DIR + 1 + p \div Span
                IN  table < KERNEL_PAGE /\ table < dwMemSize => Maps(p)
=============================================================================
