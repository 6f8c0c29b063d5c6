----------------------------- MODULE MCHardDisk -----------------------------
(* HardDisk for TLC: a drive with a primary partition in sector 1 and an   *)
(* extended one with the logical partitions 3 and 5.                       *)
EXTENDS HardDisk

CONSTANT GetTicksBody

Entry(id, start, size) == [id |-> id, start |-> start, size |-> size]
NoEntry == Entry("NONE", 0, 0)

Tables ==
    [s \in {0, 2, 4} |->
        CASE s = 0 -> <<Entry("MYOS", 1, 1), Entry("EXTENDED", 2, 5)>>
          [] s = 2 -> <<Entry("MYOS", 1, 1), Entry("EXTENDED", 2, 3)>>
          [] s = 4 -> <<Entry("MYOS", 1, 2), NoEntry>>]

Asks(type, device, sector, count) ==
    [type |-> type, device |-> device, sector |-> sector, count |-> count]

SomeRequests ==
    {Asks("DEVOPEN", 9, 0, 1), Asks("DEVCLOSE", 9, 0, 1),
     Asks("DEVREAD", 0, 5, 2), Asks("DEVREAD", 8, 0, 1),
     Asks("DEVWRITE", 9, 0, 2), Asks("DEVWRITE", 9, 1, 1),
     Asks("DEVIOCTL", 9, 0, 1), Asks("DEVIOCTL", 1, 0, 1)}

DiskBodies ==
    {GetTicksBody} \cup {Answer(n) : n \in 0..MaxTick} \cup SomeRequests
=============================================================================
