----------------------------- MODULE MCCronJobs -----------------------------
(***************************************************************************)
(* Small instances of CronJobs: the scan scheduler and the traders cleanup *)
(* of one API process.                                                     *)
(***************************************************************************)
EXTENDS CronJobs
=============================================================================
