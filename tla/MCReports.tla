------------------------------ MODULE MCReports ------------------------------
(***************************************************************************)
(* The constants are in the configuration files: one report, since reports *)
(* share nothing but the workers, two workers that may hold its message at *)
(* the same time, and one retry.                                           *)
(***************************************************************************)
EXTENDS Reports
=============================================================================
