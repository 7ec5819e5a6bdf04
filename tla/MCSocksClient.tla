---------------------------- MODULE MCSocksClient ----------------------------
(***************************************************************************)
(* SocksClient with replies of their real lengths.                         *)
(***************************************************************************)
EXTENDS SocksClient

MCVersions == {"5", "4a", "4"}
=============================================================================
