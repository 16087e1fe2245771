------------------------------ MODULE MCWRLock ------------------------------
(* Three threads and a word that holds three readers and no more.           *)
EXTENDS WRLock

CONSTANTS t1, t2, t3
=============================================================================
