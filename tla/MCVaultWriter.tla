--------------------------- MODULE MCVaultWriter ---------------------------
(* VaultWriter with no definition of its own: the cfg gives the small sets. *)
EXTENDS VaultWriter
=============================================================================
