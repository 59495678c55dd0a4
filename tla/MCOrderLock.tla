---------------------------- MODULE MCOrderLock ----------------------------
(***************************************************************************)
(* TLC instance of OrderLock: as many mutexes as threads, one more than    *)
(* the threads that can refer to different ones.                           *)
(***************************************************************************)
EXTENDS OrderLock

=============================================================================
