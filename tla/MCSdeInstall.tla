---------------------------- MODULE MCSdeInstall ----------------------------
(* Instances of SdeInstall for TLC. *)
EXTENDS SdeInstall

CONSTANTS service, command, other
=============================================================================
