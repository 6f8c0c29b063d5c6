------------------------------ MODULE SectorMap ------------------------------
(***************************************************************************)
(* The map of the sectors that files have: fd_alloc_smap_bit and the loops *)
(* of fs_do_unlink that give sectors back (fs/fd.cpp).  A map is the set   *)
(* of its positions that are 1, position p standing for the sector p - 1   *)
(* after num_first_sector.  Every file has as many as the root directory.  *)
(***************************************************************************)
EXTENDS Integers, FiniteSets

CONSTANTS
    BYTE,                       \* the bits of a byte
    HD_SECTOR_SIZE,             \* the bytes of a sector
    FS_DEFAULT_FILE_SECTORS,
    num_smap_sectors            \* the sectors that hold the map

ASSUME SectorMapAssumption ==
    /\ BYTE \in Nat \ {0} /\ HD_SECTOR_SIZE \in Nat \ {0}
    /\ FS_DEFAULT_FILE_SECTORS \in Nat /\ FS_DEFAULT_FILE_SECTORS >= BYTE
    /\ num_smap_sectors \in Nat \ {0}

\* A bit of a byte of a sector of the map.
Position(sector, byte, bit) == (sector * HD_SECTOR_SIZE + byte) * BYTE + bit
Bit == 0 .. (Position(num_smap_sectors, 0, 0) - 1)

\* Every search of a table or a map takes the first that fits.
First(S) == CHOOSE x \in S : \A y \in S : x <= y

\* What mkfs marks: the position that stands for no sector, and the root.
RootBits == 0 .. FS_DEFAULT_FILE_SECTORS
\* The files that find room behind the root.
NumExtent == (Position(num_smap_sectors, 0, 0) - 1) \div FS_DEFAULT_FILE_SECTORS - 1

-----------------------------------------------------------------------------
(* fd_alloc_smap_bit                                                       *)

\* Whole bytes and then bits are skipped up to the first that is 0.
FreeFrom(map) == First(Bit \ map)
\* From there the bits are set one by one, through bytes and sectors.
Wanted(map) == FreeFrom(map) .. (FreeFrom(map) + FS_DEFAULT_FILE_SECTORS - 1)

\* assert(sector_count == 0) fails at the end of the map.
MapIsFull(map) == Bit \subseteq map \/ ~(Wanted(map) \subseteq Bit)
\* free_sector_index, counted from num_first_sector.
StartOf(map) == FreeFrom(map) - 1

-----------------------------------------------------------------------------
(* fs_do_unlink                                                            *)

BitIdx(start) == start + 1
ByteIdx(start) == BitIdx(start) \div BYTE

\* The bits of the first byte, from bit_idx on.
InFirst(start) == BYTE - (BitIdx(start) % BYTE)

\* Variant: the first byte is counted with the whole ones.
ByteCntAll(start) == FS_DEFAULT_FILE_SECTORS \div BYTE

\* How many whole bytes follow.
ByteCnt(start) == (FS_DEFAULT_FILE_SECTORS - InFirst(start)) \div BYTE

\* The n-th byte after the first: i runs to the end of the sector in the buffer,
\* and goes on at the beginning of the next.
NthByte(start, n) ==
    LET i == (ByteIdx(start) % HD_SECTOR_SIZE) + n
        current_sector == (ByteIdx(start) \div HD_SECTOR_SIZE) + (i \div HD_SECTOR_SIZE)
    IN  Position(current_sector, i % HD_SECTOR_SIZE, 0)

\* The bits that are left after the whole bytes, in the byte behind them.
BitsLeft(start) == FS_DEFAULT_FILE_SECTORS - InFirst(start) - BYTE * ByteCnt(start)

\* The positions that the loops clear, which are asserted to be 1.
Given(start) ==
    BitIdx(start) .. (BitIdx(start) + InFirst(start) - 1)
        \cup {NthByte(start, n) + bit : n \in 1 .. ByteCnt(start), bit \in 0 .. (BYTE - 1)}
        \cup {NthByte(start, ByteCnt(start) + 1) + bit : bit \in 0 .. (BitsLeft(start) - 1)}
=============================================================================
