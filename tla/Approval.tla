------------------------------ MODULE Approval ------------------------------
(***************************************************************************)
(* The approval gates of one run: the tick that opens a gate               *)
(* (runengine.CreateApproval), the users who vote                          *)
(* (service.ApprovalService.vote), the delayed task that times the gate    *)
(* out (approval.Timeouter) and the changes of the run that each of them   *)
(* makes after its transaction.  Locks are those of the rows: vote locks   *)
(* the run FOR UPDATE and, by its INSERT, the request against FOR UPDATE;  *)
(* the timeouter locks the request FOR UPDATE.  A change of the run        *)
(* (Machine.Transition) is one step, as RunState shows.                    *)
(***************************************************************************)
EXTENDS Naturals, FiniteSets, RunStatus

CONSTANTS
    Gates,        \* the approval stages of the run
    Users,        \* who may try to vote
    Approvers,    \* Approvers[g]: required_approvers, users and perhaps Anyone
    Anyone,       \* the approver '*'
    Mode,         \* Mode[g]: "any" or "all"
    OnTimeouts,   \* what on_timeout of the gates may say: "reject", "approve" or "pause"
    Nobody,       \* no holder of a lock
    MaxCrashes    \* bound on the calls that end between two steps

ASSUME ApprovalAssumption ==
    /\ Gates # {} /\ IsFiniteSet(Users)
    /\ Approvers \in [Gates -> SUBSET (Users \cup {Anyone})]
    /\ \A g \in Gates : Approvers[g] # {}
    /\ Mode \in [Gates -> {"any", "all"}]
    /\ OnTimeouts \subseteq [Gates -> {"reject", "approve", "pause"}]
    /\ Anyone \notin Users /\ Nobody \notin Users
    /\ MaxCrashes \in Nat

VARIABLES
    onTimeout, \* on_timeout of every gate, as the spec of the run has it
    run,       \* runs.status
    runLock,   \* the voter whose transaction holds the row of the run
    req,       \* approval_requests.status, by gate; "none" before the gate opens
    votes,     \* approvals: the committed decision of every user, by gate
    voter,     \* the vote call of every user: pc, gate, decision, next run status
    creator,   \* how far CreateApproval of a gate has come
    timer,     \* the timeout task of a gate and how far it has come
    ticked,    \* history: the gates after which an orchestrate task was enqueued
    crashes    \* calls that have ended between two steps

changing == <<run, runLock, req, votes, voter, creator, timer, ticked, crashes>>
vars == <<onTimeout, changing>>

Undecided == {"none", "pending"}
Decided   == {"approved", "rejected", "timeout"}
Decisions == {"approve", "reject"}

Calls == [pc : {"idle", "read", "written", "committed", "resume"},
          gate : Gates, decision : Decisions, next : {"", "running", "failed"}]

TypeOK ==
    /\ onTimeout \in OnTimeouts
    /\ run \in RunStatuses
    /\ runLock \in Users \cup {Nobody}
    /\ req \in [Gates -> Undecided \cup Decided]
    /\ votes \in [Gates -> [Users -> Decisions \cup {"none"}]]
    /\ voter \in [Users -> Calls]
    /\ creator \in [Gates -> {"none", "inserted", "done"}]
    /\ timer \in [Gates -> {"off", "set", "locked", "committed", "resume"}]
    /\ ticked \subseteq Gates
    /\ crashes \in 0 .. MaxCrashes

-----------------------------------------------------------------------------

Init ==
    /\ onTimeout \in OnTimeouts
    /\ run = "running"
    /\ runLock = Nobody
    /\ req = [g \in Gates |-> "none"]
    /\ votes = [g \in Gates |-> [u \in Users |-> "none"]]
    /\ voter = [u \in Users |-> [pc |-> "idle", gate |-> CHOOSE g \in Gates : TRUE,
                                 decision |-> "approve", next |-> ""]]
    /\ creator = [g \in Gates |-> "none"]
    /\ timer = [g \in Gates |-> "off"]
    /\ ticked = {}
    /\ crashes = 0

\* Machine.Transition asks for t: it waits for the row lock, and then the run
\* changes, or keeps its status when the change is not in the matrix.
Transition(t) ==
    /\ runLock = Nobody
    /\ run' = IF CanTransition(run, t) THEN t ELSE run

\* Transition reports no error.
Reaches(t) == run = t \/ CanTransition(run, t)

-----------------------------------------------------------------------------
(* The tick opens the gate                                                 *)

\* A tick that read the run before it was canceled still opens its gates.
InsertRequest(g) ==
    /\ run \in {"running", "approval", "canceled"}
    /\ creator[g] = "none"
    /\ creator' = [creator EXCEPT ![g] = "inserted"]
    /\ req' = [req EXCEPT ![g] = "pending"]
    /\ UNCHANGED <<run, runLock, votes, voter, timer, ticked, crashes>>

\* MarkApproval; then the timeout task, whose enqueue may fail unnoticed.
MarkApproval(g) ==
    /\ creator[g] = "inserted"
    /\ Transition("approval")
    /\ creator' = [creator EXCEPT ![g] = "done"]
    /\ timer' \in IF Reaches("approval") THEN {timer, [timer EXCEPT ![g] = "set"]} ELSE {timer}
    /\ UNCHANGED <<runLock, req, votes, voter, ticked, crashes>>

-----------------------------------------------------------------------------
(* ApprovalService.vote                                                    *)

MayVote(u, g) == u \in Approvers[g] \/ Anyone \in Approvers[g]

\* Mutant: the run is read without FOR UPDATE.
VoteReadUnlocked(u, g, d) ==
    /\ voter[u].pc = "idle"
    /\ run = "approval" /\ req[g] = "pending" /\ MayVote(u, g) /\ votes[g][u] = "none"
    /\ voter' = [voter EXCEPT ![u] = [pc |-> "read", gate |-> g, decision |-> d, next |-> ""]]
    /\ UNCHANGED <<run, runLock, req, votes, creator, timer, ticked, crashes>>

\* SELECT the run FOR UPDATE, then the pending request without a lock.  A call
\* that is refused (wrong status, no such request, no approver, a second vote)
\* rolls back and has changed nothing.
VoteRead(u, g, d) ==
    /\ voter[u].pc = "idle"
    /\ runLock = Nobody
    /\ run = "approval" /\ req[g] = "pending" /\ MayVote(u, g) /\ votes[g][u] = "none"
    /\ runLock' = u
    /\ voter' = [voter EXCEPT ![u] = [pc |-> "read", gate |-> g, decision |-> d, next |-> ""]]
    /\ UNCHANGED <<run, req, votes, creator, timer, ticked, crashes>>

\* The approvals that the transaction of u counts: the committed ones and its own.
Approvals(u, g) == {w \in Users : w = u \/ votes[g][w] = "approve"}

\* Mutant: the vote that is being cast is not counted.
VerdictWithoutOwn(u, g, d) ==
    IF d = "reject" THEN "failed"
    ELSE IF Mode[g] = "any"
            \/ Cardinality(Approvals(u, g) \ {u}) >= Cardinality(Approvers[g])
         THEN "running" ELSE ""

\* Mutant: mode is ignored.
VerdictAny(u, g, d) == IF d = "reject" THEN "failed" ELSE "running"

\* Where the vote takes the run; "" leaves the request pending.
Verdict(u, g, d) ==
    IF d = "reject" THEN "failed"
    ELSE IF Mode[g] = "any" \/ Cardinality(Approvals(u, g)) >= Cardinality(Approvers[g])
         THEN "running" ELSE ""

\* INSERT INTO approvals waits for a timeouter that holds the request, because
\* of the foreign key, and then counts.
VoteWrite(u) ==
    LET v == voter[u] IN
    /\ v.pc = "read"
    /\ timer[v.gate] # "locked"
    /\ voter' = [voter EXCEPT ![u].pc = "written", ![u].next = Verdict(u, v.gate, v.decision)]
    /\ UNCHANGED <<run, runLock, req, votes, creator, timer, ticked, crashes>>

\* Save(&req) writes the whole row as it was read, with its new status.
Saved(old, next) ==
    CASE next = "failed"  -> "rejected"
      [] next = "running" -> "approved"
      [] OTHER            -> old

\* The transaction commits.
VoteCommit(u) ==
    LET v == voter[u] IN
    /\ v.pc = "written"
    /\ votes' = [votes EXCEPT ![v.gate][u] = v.decision]
    /\ req' = [req EXCEPT ![v.gate] = Saved(req[v.gate], v.next)]
    /\ runLock' = Nobody
    /\ voter' = [voter EXCEPT ![u].pc = IF v.next = "" THEN "idle" ELSE "committed"]
    /\ UNCHANGED <<run, creator, timer, ticked, crashes>>

\* MarkRunning or MarkFailed, outside the transaction; an error is only logged.
VoteAdvance(u) ==
    LET v == voter[u] IN
    /\ v.pc = "committed"
    /\ Transition(v.next)
    /\ voter' = [voter EXCEPT ![u].pc =
                     IF v.next = "running" /\ Reaches("running") THEN "resume" ELSE "idle"]
    /\ UNCHANGED <<runLock, req, votes, creator, timer, ticked, crashes>>

\* ResumeOrchestrate.
VoteResume(u) ==
    /\ voter[u].pc = "resume"
    /\ ticked' = ticked \cup {voter[u].gate}
    /\ voter' = [voter EXCEPT ![u].pc = "idle"]
    /\ UNCHANGED <<run, runLock, req, votes, creator, timer, crashes>>

-----------------------------------------------------------------------------
(* Timeouter.HandleTimeout and the task around it                          *)

\* SELECT the request FOR UPDATE waits for the voters that have written a vote
\* on it; a request that is no longer pending ends the task.  So does a task
\* that fires more than a second early; the clocks are taken to agree.
TimeoutSelect(g) ==
    /\ timer[g] = "set"
    /\ \A u \in Users : ~(voter[u].pc = "written" /\ voter[u].gate = g)
    /\ timer' = [timer EXCEPT ![g] = IF req[g] = "pending" THEN "locked" ELSE "off"]
    /\ UNCHANGED <<run, runLock, req, votes, voter, creator, ticked, crashes>>

\* Mutant: on_timeout=pause leaves the request pending.
TimeoutCommitPausing(g) ==
    /\ timer[g] = "locked"
    /\ req' = [req EXCEPT ![g] = CASE onTimeout[g] = "approve" -> "approved"
                                   [] onTimeout[g] = "pause"   -> "pending"
                                   [] OTHER                    -> "timeout"]
    /\ timer' = [timer EXCEPT ![g] = "committed"]
    /\ UNCHANGED <<run, runLock, votes, voter, creator, ticked, crashes>>

\* The new status, the vote of "system", the audit row and the commit.
TimeoutCommit(g) ==
    /\ timer[g] = "locked"
    /\ req' = [req EXCEPT ![g] = IF onTimeout[g] = "approve" THEN "approved" ELSE "timeout"]
    /\ timer' = [timer EXCEPT ![g] = "committed"]
    /\ UNCHANGED <<run, runLock, votes, voter, creator, ticked, crashes>>

\* Mutant: the run is advanced, but nobody orchestrates it.
TimeoutAdvanceOnly(g) ==
    /\ timer[g] = "committed"
    /\ CASE onTimeout[g] = "reject"  -> Transition("timeout")
         [] onTimeout[g] = "approve" -> Transition("running")
         [] OTHER                    -> UNCHANGED run
    /\ timer' = [timer EXCEPT ![g] = "off"]
    /\ UNCHANGED <<runLock, req, votes, voter, creator, ticked, crashes>>

\* MarkTimeout or MarkRunning outside the transaction; pause leaves the run alone.
TimeoutAdvance(g) ==
    /\ timer[g] = "committed"
    /\ CASE onTimeout[g] = "reject"  -> Transition("timeout")
         [] onTimeout[g] = "approve" -> Transition("running")
         [] OTHER                    -> UNCHANGED run
    /\ timer' = [timer EXCEPT ![g] =
                     IF onTimeout[g] = "approve" /\ Reaches("running") THEN "resume" ELSE "off"]
    /\ UNCHANGED <<runLock, req, votes, voter, creator, ticked, crashes>>

\* ResumeOrchestrate, by the task handler.
TimeoutResume(g) ==
    /\ timer[g] = "resume"
    /\ ticked' = ticked \cup {g}
    /\ timer' = [timer EXCEPT ![g] = "off"]
    /\ UNCHANGED <<run, runLock, req, votes, voter, creator, crashes>>

-----------------------------------------------------------------------------
(* The rest of the system                                                  *)

\* A user cancels the run; the requests stay as they are.
Cancel ==
    /\ Transition("canceled")
    /\ ~IsTerminalStatus(run)
    /\ UNCHANGED <<runLock, req, votes, voter, creator, timer, ticked, crashes>>

\* A call ends between two steps: its transaction is rolled back, what it has
\* committed stays.  The timeout task is not retried.
VoteCrash(u) ==
    /\ crashes < MaxCrashes
    /\ voter[u].pc # "idle"
    /\ voter' = [voter EXCEPT ![u].pc = "idle"]
    /\ runLock' = IF runLock = u THEN Nobody ELSE runLock
    /\ crashes' = crashes + 1
    /\ UNCHANGED <<run, req, votes, creator, timer, ticked>>

TaskCrash(g) ==
    /\ crashes < MaxCrashes
    /\ \/ /\ creator[g] = "inserted"
          /\ creator' = [creator EXCEPT ![g] = "done"]
          /\ UNCHANGED timer
       \/ /\ timer[g] \notin {"off", "set"}
          /\ timer' = [timer EXCEPT ![g] = "off"]
          /\ UNCHANGED creator
    /\ crashes' = crashes + 1
    /\ UNCHANGED <<run, runLock, req, votes, voter, ticked>>

VoterStep(u) == VoteWrite(u) \/ VoteCommit(u) \/ VoteAdvance(u) \/ VoteResume(u)
TaskStep(g)  == TimeoutSelect(g) \/ TimeoutCommit(g) \/ TimeoutAdvance(g) \/ TimeoutResume(g)

Next ==
    /\ \/ \E g \in Gates : InsertRequest(g) \/ MarkApproval(g) \/ TaskStep(g) \/ TaskCrash(g)
       \/ \E u \in Users : VoterStep(u) \/ VoteCrash(u)
       \/ \E u \in Users, g \in Gates, d \in Decisions : VoteRead(u, g, d)
       \/ Cancel
    /\ UNCHANGED onTimeout

Spec == Init /\ [][Next]_vars

\* A call that has begun goes on, and a timeout task runs when it is due.
Fairness ==
    /\ \A u \in Users : WF_changing(VoterStep(u))
    /\ \A g \in Gates : WF_changing(MarkApproval(g))
    /\ \A g \in Gates : WF_changing(TaskStep(g))

FairSpec == Spec /\ Fairness

-----------------------------------------------------------------------------
(* Safety                                                                  *)

\* A request is approved on the votes its mode asks for, none of them against,
\* or by its timeout (approval.go:7-8): no interleaving of votes and timeout
\* approves over a reject or on a part of the approvers.
ApprovedJustified ==
    \A g \in Gates : req[g] = "approved" =>
        /\ \A u \in Users : votes[g][u] # "reject"
        /\ \/ onTimeout[g] = "approve"
           \/ \E u \in Users : MayVote(u, g) /\ votes[g][u] = "approve"
        /\ Mode[g] = "all" /\ Anyone \notin Approvers[g] =>
              \/ onTimeout[g] = "approve"
              \/ \A u \in Approvers[g] : votes[g][u] = "approve"

\* The last approval of a gate that wants all of them decides it, even when the
\* approvers vote at the same time: the count of the last one sees the others.
LastVoteCounts ==
    \A g \in Gates :
        /\ Mode[g] = "all" /\ Anyone \notin Approvers[g]
        /\ \A u \in Approvers[g] : votes[g][u] = "approve"
        => req[g] # "pending"

\* What the users have decided stays decided, whatever other users and the
\* timeout are doing (timeout.go:14): a late timeout is absorbed.
VoteDecisionFinal ==
    [][\A g \in Gates :
           req[g] = "rejected" \/ (req[g] = "approved" /\ onTimeout[g] # "approve")
           => req'[g] = req[g]]_vars

-----------------------------------------------------------------------------
(* Liveness                                                                *)

\* An approved gate gets the tick that carries the run on, or the run has
\* ended, or a call was cut off between its steps.
ApprovedResumes ==
    \A g \in Gates :
        req[g] = "approved" ~> (g \in ticked \/ IsTerminalStatus(run) \/ crashes > 0)

\* A gate with a timeout task does not stay pending, whatever on_timeout says.
TimeoutDecides ==
    \A g \in Gates : timer[g] = "set" ~> req[g] \in Decided \/ crashes > 0

-----------------------------------------------------------------------------
(* Statements of the documentation that the code does not keep             *)

\* 007_approvals.up.sql:7: the status "timeout" of a request is final.
TimeoutFinal == [][\A g \in Gates : req[g] = "timeout" => req'[g] = "timeout"]_vars

\* approval.go:7-8: an approval counts while its request is pending; the vote
\* of an approver is not turned away because another gate was decided first.
PendingVotable ==
    \A g \in Gates :
        req[g] = "pending" /\ creator[g] = "done" /\ ~IsTerminalStatus(run)
        => run = "approval"
=============================================================================
