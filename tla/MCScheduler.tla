---------------------------- MODULE MCScheduler ----------------------------
(***************************************************************************)
(* Instances of Scheduler.  The pipeline builds and lints in parallel,     *)
(* asks for an approval of the build, deploys behind the approval and the  *)
(* lint, always notifies, and rolls back when one of the three failed.    *)
(***************************************************************************)
EXTENDS Scheduler

MCStages == {"build", "lint", "gate", "deploy", "notify", "rollback"}

MCNeeds == [s \in MCStages |->
    CASE s = "gate"     -> {"build"}
      [] s = "deploy"   -> {"gate", "lint"}
      [] s = "notify"   -> {"deploy"}
      [] s = "rollback" -> {"build", "lint", "deploy"}
      [] OTHER          -> {}]

MCIf == [s \in MCStages |->
    CASE s = "notify"   -> {"always"}
      [] s = "rollback" -> {"failure"}
      [] OTHER          -> {}]

MCApproval == {"gate"}

\* The YAML lists every stage after the stages it needs.
TopologicalOrder == <<"build", "lint", "gate", "deploy", "notify", "rollback">>
=============================================================================
