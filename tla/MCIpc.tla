------------------------------- MODULE MCIpc -------------------------------
(* Ipc for TLC: three processes, one of which a handler informs.           *)
EXTENDS Ipc
=============================================================================
