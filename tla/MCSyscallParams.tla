-------------------------- MODULE MCSyscallParams --------------------------
(* SyscallParams for TLC: the file system asks the hard disk driver, the   *)
(* driver answers (fs/core.cpp, sys/harddisk.cpp:41-68).                   *)
EXTENDS SyscallParams

CONSTANTS fs, hd

Programs ==
    [p \in {fs, hd} |->
        IF p = fs THEN << [mode |-> "SEND", target |-> hd],
                          [mode |-> "RECEIVE", target |-> hd] >>
                  ELSE << [mode |-> "RECEIVE", target |-> SR_TARGET_ANY],
                          [mode |-> "SEND", target |-> fs] >>]
=============================================================================
