---------------------------- MODULE MCRelaySession ----------------------------
(* Small instances of RelaySession. *)
EXTENDS RelaySession
=============================================================================
