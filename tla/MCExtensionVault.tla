--------------------------- MODULE MCExtensionVault ---------------------------
(***************************************************************************)
(* Instances of ExtensionVault for TLC. Edits are interchangeable.          *)
(***************************************************************************)
EXTENDS ExtensionVault, TLC

CONSTANTS popup, approval, e1, e2, e3

EditSymmetry == Permutations(Edits)
===============================================================================
