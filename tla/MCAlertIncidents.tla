-------------------------- MODULE MCAlertIncidents --------------------------
(***************************************************************************)
(* Instances of AlertIncidents for TLC.                                    *)
(***************************************************************************)
EXTENDS AlertIncidents, TLC

=============================================================================
