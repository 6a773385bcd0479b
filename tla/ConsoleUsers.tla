---------------------------- MODULE ConsoleUsers ----------------------------
(* Who logs in to the web console on one computer. *)
CONSTANTS Users, NULL

ASSUME ConsoleUsersAssumption == NULL \notin Users
=============================================================================
