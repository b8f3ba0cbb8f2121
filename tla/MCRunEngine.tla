---------------------------- MODULE MCRunEngine ----------------------------
(***************************************************************************)
(* Pipelines for RunEngine.                                                *)
(***************************************************************************)
EXTENDS RunEngine

\* A chain: build, approve, release, deploy; "release" is a gate as well.
ChainStages == {"build", "gate", "release", "deploy"}
ChainOrder  == <<"build", "gate", "release", "deploy">>
ChainNeeds  == [s \in ChainStages |->
    CASE s = "gate" -> {"build"} [] s = "release" -> {"gate"}
      [] s = "deploy" -> {"release"} [] OTHER -> {}]
ChainIf     == [s \in ChainStages |-> {}]

\* Two stages in parallel, then a third one.
JoinStages == {"build", "lint", "last"}
JoinOrder  == <<"build", "lint", "last">>
JoinNeeds  == [s \in JoinStages |-> IF s = "last" THEN {"build", "lint"} ELSE {}]
JoinIf     == [s \in JoinStages |-> {}]

\* A test that runs while the approval of the deployment is awaited.
AsideStages == {"gate", "test", "deploy"}
AsideOrder  == <<"gate", "test", "deploy">>
AsideNeeds  == [s \in AsideStages |-> IF s = "deploy" THEN {"gate"} ELSE {}]
AsideIf     == [s \in AsideStages |-> {}]

TheGate  == {"gate"}
TwoGates == {"gate", "release"}
NoGate  == {}

\* The first gate of the chain has a timeout, the second has none.
RejectFirst == [g \in ApprovalStages |-> IF g = "gate" THEN "reject" ELSE "none"]
PauseAll    == [g \in ApprovalStages |-> "pause"]
=============================================================================
