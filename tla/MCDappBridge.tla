---------------------------- MODULE MCDappBridge ----------------------------
(***************************************************************************)
(* Instances of DappBridge for TLC: every tab and link is of one site and   *)
(* account, which already holds a permission.                               *)
(***************************************************************************)
EXTENDS DappBridge, TLC

CONSTANTS o1, w1

MCSite == [origin |-> o1, wallet |-> w1, family |-> CHOOSE f \in Families : TRUE]
MCNamed == [x \in Tabs \union Links |-> MCSite]
MCGranted == {MCSite}

ApprovalSymmetry == Permutations(Approvals)
=============================================================================
