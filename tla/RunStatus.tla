----------------------------- MODULE RunStatus -----------------------------
(***************************************************************************)
(* The values of runs.status and the changes that the tables of            *)
(* api/pkg/runstate and the WHERE clauses of api/pkg/runrepo allow.        *)
(***************************************************************************)

TerminalStatus == {"success", "failed", "canceled", "timeout"}
RunStatuses    == {"pending", "running", "approval"} \cup TerminalStatus

IsTerminalStatus(st) == st \in TerminalStatus

\* CanTransition of runstate.go.
CanTransition(from, to) ==
    \/ from = "pending"  /\ to \in {"running", "canceled"}
    \/ from = "running"  /\ to \in {"approval", "success", "failed", "canceled"}
    \/ from = "approval" /\ to \in {"running", "failed", "timeout", "canceled"}

\* The WHERE clauses of MarkRunning and MarkFailed of runrepo.
RepoMayRun(from)  == from = "pending"
RepoMayFail(from) == from \in {"pending", "running"}
=============================================================================
