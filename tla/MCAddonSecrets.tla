--------------------------- MODULE MCAddonSecrets ---------------------------
(* Small instances of AddonSecrets for TLC.                                 *)
EXTENDS AddonSecrets
=============================================================================
