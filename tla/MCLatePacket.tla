---------------------------- MODULE MCLatePacket ----------------------------
(***************************************************************************)
(* LatePacket on the small hosts of MCDataPlane.                           *)
(***************************************************************************)
EXTENDS LatePacket, MCDataPlane
=============================================================================
