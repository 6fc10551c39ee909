---------------------------- MODULE MCDesktopLock ----------------------------
(***************************************************************************)
(* Instances of DesktopLock for TLC: one command of each kind.              *)
(***************************************************************************)
EXTENDS DesktopLock, TLC

CONSTANTS password, touch, sign

MCKind == password :> "unlock" @@ touch :> "biometric" @@ sign :> "use"
==============================================================================
