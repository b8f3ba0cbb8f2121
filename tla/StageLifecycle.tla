--------------------------- MODULE StageLifecycle ---------------------------
(***************************************************************************)
(* What the stage engine promises, whatever the conditions and the order   *)
(* of the stages: a stage is idle, then perhaps active, then final, and it *)
(* becomes active only when every stage it needs is final.                 *)
(***************************************************************************)
CONSTANTS Stages, Needs

VARIABLE phase

TypeOK == phase \in [Stages -> {"idle", "active", "final"}]

Init == phase = [s \in Stages |-> "idle"]

\* Some stages start and some end, in one step of the engine.
Step(started, ended) ==
    /\ \A s \in started : phase[s] = "idle"
    /\ \A s \in ended : phase[s] # "final"
    /\ phase' = [s \in Stages |-> CASE s \in ended   -> "final"
                                    [] s \in started \ ended -> "active"
                                    [] OTHER         -> phase[s]]
    /\ \A s \in started : \A n \in Needs[s] : phase'[n] = "final"

Next == \E started, ended \in SUBSET Stages : Step(started, ended)

Spec == Init /\ [][Next]_phase
=============================================================================
