---------------------------- MODULE MCDeployJournal ----------------------------
(* Small instances of DeployJournal for TLC. *)
EXTENDS DeployJournal
================================================================================
