------------------------- MODULE MCConnectorSchedule -------------------------
(* Instances of ConnectorSchedule for TLC. *)
EXTENDS ConnectorSchedule
=============================================================================
