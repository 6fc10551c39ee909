------------------------ MODULE MCExtensionApproval ------------------------
(***************************************************************************)
(* Instances of ExtensionApproval for TLC: two ports of one origin, a       *)
(* request on each.                                                         *)
(***************************************************************************)
EXTENDS ExtensionApproval, TLC

CONSTANTS r1, r2, r3, r4, p1, p2, site

\* Two requests, each over a port of its own, with ids of their own.
MCTwoPorts == p1 :> site @@ p2 :> site
MCTwoPortOf == r1 :> p1 @@ r2 :> p2
MCTwoIdOf == r1 :> 1 @@ r2 :> 2

MCTwoOnOnePort == r1 :> p1 @@ r2 :> p1

\* Four requests over one port, for the limit of three per origin.
MCOnePort == p1 :> site
MCFourPortOf == [r \in {r1, r2, r3, r4} |-> p1]
MCFourIdOf == r1 :> 1 @@ r2 :> 2 @@ r3 :> 3 @@ r4 :> 4
============================================================================
