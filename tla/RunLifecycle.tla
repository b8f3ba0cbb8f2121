---------------------------- MODULE RunLifecycle ----------------------------
(***************************************************************************)
(* The life of a run as its readers may rely on it: one atomic change of   *)
(* runs.status at a time, each allowed by runstate or by runrepo.          *)
(***************************************************************************)
EXTENDS RunStatus

VARIABLE status

Init == status = "pending"

Change(to) ==
    /\ \/ CanTransition(status, to)
       \/ to = "running" /\ RepoMayRun(status)
       \/ to = "failed" /\ RepoMayFail(status)
    /\ status' = to

Next == \E to \in RunStatuses : Change(to)

Spec == Init /\ [][Next]_status
=============================================================================
