--------------------------- MODULE MCWalletPasswords ---------------------------
(* Instances of WalletPasswords for TLC. Wallets and passwords are interchangeable. *)
EXTENDS WalletPasswords, TLC

CONSTANTS c1, c2, c3

\* A password change, another request, and a call that opens a wallet.
MCOps == c1 :> {"change"} @@ c3 :> {"verify"} @@
         c2 :> {"change", "migrate", "adopt", "unlock_all", "create", "import", "rename", "delete",
                "lock_all"}

MCRenameOps == c1 :> {"change"} @@ c2 :> {"rename"} @@ c3 :> {"verify"}

MCSymmetry == Permutations(Wallets) \union Permutations(Passwords)
================================================================================
