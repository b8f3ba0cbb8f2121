----------------------------- MODULE MCApproval -----------------------------
(***************************************************************************)
(* Two gates and two users.  The gate "qa" wants one approval, the gate    *)
(* "prod" wants both.                                                      *)
(***************************************************************************)
EXTENDS Approval

MCUsers == {"alice", "bob"}

BothGates == {"qa", "prod"}

MCMode == [g \in Gates |-> IF g = "prod" THEN "all" ELSE "any"]

\* Anybody approves qa.
QaOpen == [g \in Gates |-> IF g = "prod" THEN MCUsers ELSE {Anyone}]

\* Every value for each of the gates.
MCOnTimeouts == {[g \in Gates |-> "reject"],
                 [g \in Gates |-> IF g = "prod" THEN "approve" ELSE "pause"],
                 [g \in Gates |-> IF g = "prod" THEN "pause" ELSE "approve"]}
=============================================================================
