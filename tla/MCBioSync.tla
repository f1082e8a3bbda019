------------------------------ MODULE MCBioSync -------------------------------
(* Three threads on one os::Mutex and one os::ConditionVariable. *)
EXTENDS BioSync

CONSTANTS t1, t2, t3
===============================================================================
