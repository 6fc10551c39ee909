------------------------- MODULE MCExtensionSigning -------------------------
(***************************************************************************)
(* Instances of ExtensionSigning for TLC: two accounts and two networks,    *)
(* two requests of one site.                                                *)
(***************************************************************************)
EXTENDS ExtensionSigning, TLC

CONSTANTS r1, r2, site, a1, a2, c1, c2

MCSelection == [account |-> a1, chain |-> c1]
MCOrigin == [r \in Requests |-> site]
MCTarget == [r \in Requests |-> c2]

MCConnected == site :> [accounts |-> {a1}, chains |-> {c1}]

MCSendConnect == r1 :> "send" @@ r2 :> "connect"
MCSwitchConnect == r1 :> "switch" @@ r2 :> "connect"
MCSignSwitch == r1 :> "sign" @@ r2 :> "switch"
=============================================================================
