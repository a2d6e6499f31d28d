---------------------------- MODULE MCVaultIndex ----------------------------
(* Instance of VaultIndex for TLC. *)
EXTENDS VaultIndex
=============================================================================
