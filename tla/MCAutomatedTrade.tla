--------------------------- MODULE MCAutomatedTrade ---------------------------
(***************************************************************************)
(* An instance of AutomatedTrade for TLC: i2 is i1 sent again with a later   *)
(* expiry; i3 is the same trade under another id; i4 and i5 are other trades. *)
(***************************************************************************)
EXTENDS AutomatedTrade, TLC

CONSTANTS c1, c2, c3, c4, c5, i1, i2, i3, i4, i5, sell, other, third

MCIntentOf == c1 :> i1 @@ c2 :> i2 @@ c3 :> i3 @@ c4 :> i4 @@ c5 :> i5
MCIdOf == i1 :> 1 @@ i2 :> 1 @@ i3 :> 2 @@ i4 :> 3 @@ i5 :> 4
MCTradeOf == i1 :> sell @@ i2 :> sell @@ i3 :> sell @@ i4 :> other @@ i5 :> third
MCExpiryOf == i1 :> 1 @@ i2 :> 3 @@ i3 :> 3 @@ i4 :> 3 @@ i5 :> 3
==============================================================================
