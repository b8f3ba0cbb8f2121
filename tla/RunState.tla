------------------------------ MODULE RunState ------------------------------
(***************************************************************************)
(* One row of the runs table and everybody who changes its status: the     *)
(* transactions of runstate.Machine.Transition, statement by statement,    *)
(* and the single-statement updates of runrepo.  Processes of the API and  *)
(* of the workers call both at the same time, and a call can end at every  *)
(* statement.  The caller whose call set a time stands for the time.       *)
(***************************************************************************)
EXTENDS Naturals, Sequences, RunStatus

CONSTANTS
    Callers,      \* the calls in progress, in any process
    None,         \* SQL NULL, and nobody
    MaxAudit      \* bound on the audited changes of the run

ASSUME RunStateAssumption == None \notin Callers /\ MaxAudit \in Nat

VARIABLES
    run,      \* the committed row: status, started_at, finished_at
    lock,     \* the holder of the row lock
    audit,    \* audit_logs: the committed rows about this run
    pc,       \* how far the transaction of a call has come
    row,      \* the row as the transaction of a call sees it
    to,       \* the status that a call asks for
    acked     \* history: the statuses that some call has reported as reached

vars == <<run, lock, audit, pc, row, to, acked>>

Times   == Callers \cup {None}
Rows    == [status : RunStatuses, started : Times, finished : Times]
Entries == [from : RunStatuses, to : RunStatuses]

\* Nobody asks for pending.
Targets == RunStatuses \ {"pending"}

TypeOK ==
    /\ run \in Rows
    /\ lock \in Callers \cup {None}
    /\ audit \in Seq(Entries)
    /\ pc \in [Callers -> {"idle", "selected", "updated", "audited", "raced"}]
    /\ row \in [Callers -> Rows]
    /\ to \in [Callers -> RunStatuses]
    /\ acked \subseteq RunStatuses

-----------------------------------------------------------------------------

NewRun == [status |-> "pending", started |-> None, finished |-> None]

Init ==
    /\ run = NewRun
    /\ lock = None
    /\ audit = << >>
    /\ pc = [c \in Callers |-> "idle"]
    /\ row = [c \in Callers |-> NewRun]
    /\ to = [c \in Callers |-> "pending"]
    /\ acked = {}

WrittenNoTimeout(r, t, c) ==
    [status   |-> t,
     started  |-> IF t = "running" /\ r.started = None THEN c ELSE r.started,
     finished |-> IF t \in {"success", "failed", "canceled"} /\ r.finished = None
                  THEN c ELSE r.finished]

\* The row that the UPDATE of Transition writes: a run starts once, however
\* often it returns from an approval, and finishes once.
Written(r, t, c) ==
    [status   |-> t,
     started  |-> IF t = "running" /\ r.started = None THEN c ELSE r.started,
     finished |-> IF IsTerminalStatus(t) /\ r.finished = None THEN c ELSE r.finished]

-----------------------------------------------------------------------------
(* Machine.Transition                                                      *)

\* Mutant: every call on a terminal run reports success.
ReturnTerminal(c, t) ==
    /\ run.status = t \/ ~CanTransition(run.status, t)
    /\ acked' = IF run.status = t \/ IsTerminalStatus(run.status)
                THEN acked \cup {t} ELSE acked
    /\ UNCHANGED <<run, lock, audit, pc, row, to>>

\* The call returns; its variables are gone.
End(c) ==
    /\ pc' = [pc EXCEPT ![c] = "idle"]
    /\ row' = [row EXCEPT ![c] = NewRun]
    /\ to' = [to EXCEPT ![c] = "pending"]

\* The row needs no change, which is a success, or must not change: the
\* transaction is rolled back.
Return(c, t) ==
    /\ run.status = t \/ ~CanTransition(run.status, t)
    /\ acked' = IF run.status = t THEN acked \cup {t} ELSE acked
    /\ UNCHANGED <<run, lock, audit, pc, row, to>>

GoOn(c, t) ==
    /\ run.status # t /\ CanTransition(run.status, t)
    /\ Len(audit) < MaxAudit
    /\ lock' = c
    /\ pc' = [pc EXCEPT ![c] = "selected"]
    /\ row' = [row EXCEPT ![c] = run]
    /\ to' = [to EXCEPT ![c] = t]
    /\ UNCHANGED <<run, audit, acked>>

\* SELECT ... FOR UPDATE waits for the row lock and reads the committed row.
Select(c, t) ==
    /\ pc[c] = "idle"
    /\ lock = None
    /\ Return(c, t) \/ GoOn(c, t)

\* UPDATE ... WHERE status = cur waits for the row lock too, and looks at the
\* committed row again.
Update(c) ==
    /\ pc[c] = "selected"
    /\ lock \in {None, c}
    /\ \/ /\ run.status = row[c].status
          /\ lock' = c
          /\ row' = [row EXCEPT ![c] = Written(row[c], to[c], c)]
          /\ pc' = [pc EXCEPT ![c] = "updated"]
       \/ /\ run.status # row[c].status
          /\ lock' = None
          /\ pc' = [pc EXCEPT ![c] = "raced"]
          /\ UNCHANGED row
    /\ UNCHANGED <<run, audit, to, acked>>

Entry(c) == [from |-> run.status, to |-> to[c]]

\* Mutant: the audit row is written outside the transaction.
InsertAtOnce(c) ==
    /\ pc[c] = "updated"
    /\ pc' = [pc EXCEPT ![c] = "audited"]
    /\ audit' = Append(audit, Entry(c))
    /\ UNCHANGED <<run, lock, row, to, acked>>

\* INSERT INTO audit_logs, visible to others after the commit.
Insert(c) ==
    /\ pc[c] = "updated"
    /\ pc' = [pc EXCEPT ![c] = "audited"]
    /\ UNCHANGED <<run, lock, audit, row, to, acked>>

\* The caller learns of the commit, or the connection breaks before it does.
Commit(c) ==
    /\ pc[c] = "audited"
    /\ run' = row[c]
    /\ audit' = Append(audit, Entry(c))
    /\ lock' = None
    /\ acked' \in {acked, acked \cup {to[c]}}
    /\ End(c)

\* A statement fails, the request is canceled or the process ends: the database
\* rolls the transaction back.
Rollback(c) ==
    /\ pc[c] # "idle"
    /\ lock' = IF lock = c THEN None ELSE lock
    /\ End(c)
    /\ UNCHANGED <<run, audit, acked>>

-----------------------------------------------------------------------------
(* runrepo                                                                 *)

\* Repo.MarkRunning: one UPDATE, which waits for the row lock.
RepoMarkRunning(c) ==
    /\ lock = None
    /\ RepoMayRun(run.status)
    /\ run' = [run EXCEPT !.status = "running", !.started = c]
    /\ UNCHANGED <<lock, audit, pc, row, to, acked>>

\* Mutant: the UPDATE of MarkFailed without its condition on the status.
RepoMarkFailedAlways(c) ==
    /\ lock = None
    /\ run' = [run EXCEPT !.status = "failed", !.finished = c]
    /\ acked' = acked \cup {"failed"}
    /\ UNCHANGED <<lock, audit, pc, row, to>>

\* Repo.MarkFailed: one UPDATE; when no row matches it reports ErrNotFound.
RepoMarkFailed(c) ==
    /\ lock = None
    /\ RepoMayFail(run.status)
    /\ run' = [run EXCEPT !.status = "failed", !.finished = c]
    /\ acked' \in {acked, acked \cup {"failed"}}
    /\ UNCHANGED <<lock, audit, pc, row, to>>

Next ==
    \E c \in Callers :
        \/ \E t \in Targets : Select(c, t)
        \/ Update(c)
        \/ Insert(c)
        \/ Commit(c)
        \/ Rollback(c)
        \/ RepoMarkRunning(c)
        \/ RepoMarkFailed(c)

Spec == Init /\ [][Next]_vars

-----------------------------------------------------------------------------
(* Properties                                                              *)

\* The error "status changed concurrently" (runstate.go:218) never occurs: the
\* row lock taken by the SELECT keeps the status until the UPDATE.
NeverRaced == \A c \in Callers : pc[c] # "raced"

\* When a call has reported that the run ended one way, the run did end that
\* way: no two callers are ever told of different ends (a cancel and a success).
AckedEndIsTheEnd == \A t \in acked : IsTerminalStatus(t) => run.status = t

\* A finished run, and only a finished run, has finished_at; a run that was
\* ever running has started_at, so a run never succeeds without having started.
TimesMatch ==
    /\ run.finished # None <=> IsTerminalStatus(run.status)
    /\ run.status \in {"running", "approval", "success", "timeout"} => run.started # None
    /\ run.status = "pending" => run.started = None

\* The audit rows of a run form a path through its statuses that ends at the
\* present status, but for a failure that runrepo wrote: no audited change that
\* did not happen, none missing between two audited ones.
AuditPath ==
    /\ \A i \in 1 .. Len(audit) - 1 : audit[i].to = audit[i + 1].from
    /\ audit # << >> /\ run.status # "failed" => audit[Len(audit)].to = run.status

\* started_at is set once, although a run enters running after every approval.
StartedOnce == [][run.started # None => run'.started = run.started]_vars

\* Seen from outside, the transactions and the updates are atomic changes.
Lifecycle == INSTANCE RunLifecycle WITH status <- run.status

ImplementsLifecycle == Lifecycle!Spec

=============================================================================
