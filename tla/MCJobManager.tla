---------------------------- MODULE MCJobManager ----------------------------
(* Small instances of JobManager for TLC.                                  *)
EXTENDS JobManagerProperties
=============================================================================
