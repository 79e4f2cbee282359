----------------------------- MODULE MCService -----------------------------
(***************************************************************************)
(* A small instance of Service: a process with the UI, or one that only    *)
(* takes signals.  There are as many requests as connections, so that one  *)
(* may wait for the row with one connection while the other has the row    *)
(* and the other connection, and the pollers find none free.               *)
(***************************************************************************)
EXTENDS Service

ReadsWritesPages == {"read", "write", "ui"}
WithUiOrWriteOnly == {"all", "signals-write"}
=============================================================================
