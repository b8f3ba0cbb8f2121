--------------------------- MODULE ApprovalProofs ---------------------------
(***************************************************************************)
(* Proofs about Approval for any number of gates and users.  The argument: *)
(* a voter that has read a pending request holds the row of the run, so no *)
(* other vote is committed before its own; the timeouter can decide the    *)
(* request in between, but never against a vote that is committed.         *)
(***************************************************************************)
EXTENDS Approval, FiniteSetTheorems, TLAPS

Voting(u) == voter[u].pc \in {"read", "written"}

\* The holder of the run's row is the one user between SELECT and commit.
LockHeld == \A u \in Users : Voting(u) <=> runLock = u

\* A gate is opened once, and nobody votes before that.
Opened ==
    \A g \in Gates :
        /\ creator[g] = "none" <=> req[g] = "none"
        /\ req[g] = "none" => \A u \in Users : votes[g][u] = "none"

\* A timeouter that holds a request has found it pending, and no vote on it is
\* written.
TimerHolds ==
    \A g \in Gates : timer[g] = "locked" =>
        /\ req[g] = "pending"
        /\ \A u \in Users : ~(voter[u].pc = "written" /\ voter[u].gate = g)

\* What a voter has read and counted still holds, except that the timeout may
\* have decided the request.
Known(u, g) ==
    /\ MayVote(u, g)
    /\ votes[g][u] = "none"
    /\ req[g] \notin {"none", "rejected"}
    /\ req[g] = "approved" => onTimeout[g] = "approve"

VoterKnows ==
    \A u \in Users, g \in Gates :
        /\ Voting(u) /\ voter[u].gate = g => Known(u, g)
        /\ \A d \in Decisions :
               voter[u].pc = "written" /\ voter[u].gate = g /\ voter[u].decision = d
               => voter[u].next = Verdict(u, g, d)

\* Committed votes are those of approvers, and a reject has decided its gate.
VotesCount ==
    \A g \in Gates, u \in Users :
        /\ votes[g][u] # "none" => MayVote(u, g)
        /\ votes[g][u] = "reject" => req[g] = "rejected"

\* The inductive invariant.
IInv ==
    /\ TypeOK
    /\ LockHeld
    /\ Opened
    /\ TimerHolds
    /\ VoterKnows
    /\ VotesCount
    /\ ApprovedJustified
    /\ LastVoteCounts

Facts == LockHeld /\ Opened /\ TimerHolds /\ VoterKnows /\ VotesCount
Promises == ApprovedJustified /\ LastVoteCounts

LEMMA Initially == Init => IInv
<1> SUFFICES ASSUME Init PROVE IInv
  OBVIOUS
<1>1. (CHOOSE g \in Gates : TRUE) \in Gates
  BY ApprovalAssumption
<1>2. voter \in [Users -> Calls]
  BY <1>1 DEF Init, Calls, Decisions
<1>3. crashes \in 0 .. MaxCrashes
  <2>1. MaxCrashes \in Nat /\ crashes = 0
    BY ApprovalAssumption DEF Init
  <2> QED  BY <2>1
<1>4. TypeOK
  BY <1>2, <1>3 DEF Init, TypeOK, Decisions, Undecided, RunStatuses
<1>5. Facts
  BY ApprovalAssumption
     DEF Init, Facts, LockHeld, Opened, TimerHolds, VoterKnows, VotesCount, Voting
<1>6. Promises
  BY DEF Init, Promises, ApprovedJustified, LastVoteCounts
<1> QED  BY <1>4, <1>5, <1>6 DEF IInv, Facts, Promises

-----------------------------------------------------------------------------
(* The count of a vote                                                     *)

\* The last of all approvers that approves is told so by the count.
LEMMA LastIsCounted ==
    ASSUME TypeOK, NEW u \in Users, NEW g \in Gates, Approvers[g] \subseteq Approvals(u, g)
    PROVE  Verdict(u, g, "approve") = "running"
<1>1. Approvals(u, g) \in SUBSET Users /\ Approvers[g] \in SUBSET Approvals(u, g)
  BY DEF Approvals
<1>2. IsFiniteSet(Approvals(u, g))
  BY <1>1, ApprovalAssumption, FS_Subset
<1>3. Cardinality(Approvers[g]) <= Cardinality(Approvals(u, g))
  BY <1>1, <1>2, FS_Subset
<1>4. Cardinality(Approvers[g]) \in Nat /\ Cardinality(Approvals(u, g)) \in Nat
  BY <1>1, <1>2, FS_Subset, FS_CardinalityType
<1> QED  BY <1>3, <1>4 DEF Verdict

\* A count that suffices is one of all approvers when nobody else may vote.
LEMMA CountIsAll ==
    ASSUME TypeOK, VotesCount, NEW u \in Users, NEW g \in Gates, MayVote(u, g),
           Mode[g] = "all", Anyone \notin Approvers[g],
           Verdict(u, g, "approve") = "running"
    PROVE  \A w \in Approvers[g] : w = u \/ votes[g][w] = "approve"
<1>1. Approvals(u, g) \in SUBSET Approvers[g]
  BY DEF Approvals, VotesCount, MayVote
<1>2. IsFiniteSet(Approvers[g])
  <2>1. Approvers[g] \in SUBSET Users
    BY ApprovalAssumption
  <2> QED  BY <2>1, ApprovalAssumption, FS_Subset
<1>3. IsFiniteSet(Approvals(u, g)) /\ Cardinality(Approvals(u, g)) <= Cardinality(Approvers[g])
  BY <1>1, <1>2, FS_Subset
<1>4. Cardinality(Approvers[g]) \in Nat /\ Cardinality(Approvals(u, g)) \in Nat
  BY <1>2, <1>3, FS_CardinalityType
<1>5. Cardinality(Approvals(u, g)) >= Cardinality(Approvers[g])
  BY DEF Verdict
<1>6. Cardinality(Approvers[g]) = Cardinality(Approvals(u, g))
  BY <1>3, <1>4, <1>5
<1>7. Approvers[g] = Approvals(u, g)
  BY <1>1, <1>2, <1>6, FS_Subset
<1> QED  BY <1>7 DEF Approvals

\* A call that moves keeps its gate and its decision, and the others are left alone.
LEMMA CallMoves ==
    ASSUME TypeOK, NEW u \in Users,
           NEW p \in {"idle", "read", "written", "committed", "resume"},
           NEW n \in {"", "running", "failed"},
           \/ voter' = [voter EXCEPT ![u].pc = p, ![u].next = n]
           \/ voter' = [voter EXCEPT ![u].pc = p] /\ n = voter[u].next
    PROVE  /\ voter' \in [Users -> Calls]
           /\ voter'[u].pc = p /\ voter'[u].next = n
           /\ voter'[u].gate = voter[u].gate /\ voter'[u].decision = voter[u].decision
           /\ \A w \in Users : w # u => voter'[w] = voter[w]
<1>1. CASE voter' = [voter EXCEPT ![u].pc = p, ![u].next = n]
  <2> DEFINE c == [[voter[u] EXCEPT !.pc = p] EXCEPT !.next = n]
  <2>1. voter'[u] = c /\ \A w \in Users : w # u => voter'[w] = voter[w]
    BY <1>1 DEF TypeOK
  <2>2. c \in Calls /\ c.pc = p /\ c.next = n /\ c.gate = voter[u].gate
        /\ c.decision = voter[u].decision
    <3>1. voter[u] \in Calls
      BY DEF TypeOK
    <3>2. [voter[u] EXCEPT !.pc = p] \in Calls
      BY <3>1 DEF Calls
    <3> QED  BY <3>1, <3>2 DEF Calls
  <2>3. voter' \in [Users -> Calls]
    <3>1. voter' = [w \in Users |-> voter'[w]]
      BY <1>1 DEF TypeOK
    <3>2. \A w \in Users : voter'[w] \in Calls
      BY <2>1, <2>2 DEF TypeOK
    <3> QED  BY <3>1, <3>2
  <2> QED  BY <2>1, <2>2, <2>3
<1>2. CASE voter' = [voter EXCEPT ![u].pc = p] /\ n = voter[u].next
  BY <1>2 DEF TypeOK, Calls
<1> QED  BY <1>1, <1>2

\* The verdict on a vote is a function of the committed votes.
LEMMA VerdictStays ==
    ASSUME UNCHANGED votes, NEW u, NEW g, NEW d
    PROVE  Verdict(u, g, d)' = Verdict(u, g, d)
<1>1. Approvals(u, g)' = Approvals(u, g)
  BY DEF Approvals
<1> QED  BY <1>1 DEF Verdict

\* What votes, requests and on_timeout fix stays when they do.
LEMMA QuietKeeps ==
    ASSUME Promises, UNCHANGED <<onTimeout, req, votes>>
    PROVE  Promises'
BY DEF Promises, ApprovedJustified, LastVoteCounts, MayVote

\* Steps of a timer or of the run leave what is known about votes alone.
LEMMA VotesKeep ==
    ASSUME IInv, UNCHANGED <<onTimeout, runLock, req, votes, voter>>
    PROVE  LockHeld' /\ VoterKnows' /\ VotesCount' /\ Promises'
<1>1. LockHeld'
  BY DEF IInv, LockHeld, Voting
<1>2. VoterKnows'
  BY VerdictStays DEF IInv, VoterKnows, Known, Voting, MayVote
<1>3. VotesCount'
  BY DEF IInv, VotesCount, MayVote
<1> QED  BY <1>1, <1>2, <1>3, QuietKeeps DEF IInv, Promises

-----------------------------------------------------------------------------
(* The steps                                                               *)

LEMMA InsertKeeps ==
    ASSUME IInv, onTimeout' = onTimeout, NEW g \in Gates, InsertRequest(g)
    PROVE  IInv'
<1>1. /\ req[g] = "none" /\ \A u \in Users : votes[g][u] = "none"
      /\ creator' = [creator EXCEPT ![g] = "inserted"]
      /\ req' = [req EXCEPT ![g] = "pending"]
      /\ UNCHANGED <<run, runLock, votes, voter, timer, ticked, crashes>>
  BY DEF IInv, InsertRequest, Opened
<1>2. TypeOK'
  BY <1>1 DEF IInv, TypeOK, Undecided
<1>3. \A h \in Gates : /\ h # g => req'[h] = req[h] /\ creator'[h] = creator[h]
                       /\ h = g => req'[h] = "pending" /\ creator'[h] = "inserted"
  BY <1>1 DEF IInv, TypeOK
<1>4. LockHeld' /\ Opened' /\ TimerHolds'
  BY <1>1, <1>3 DEF IInv, LockHeld, Opened, TimerHolds, Voting
<1>5. VoterKnows'
  <2> SUFFICES ASSUME NEW u \in Users, NEW h \in Gates
               PROVE  /\ Voting(u)' /\ voter'[u].gate = h => Known(u, h)'
                      /\ \A d \in Decisions :
                             voter'[u].pc = "written" /\ voter'[u].gate = h
                                 /\ voter'[u].decision = d
                             => voter'[u].next = Verdict(u, h, d)'
    BY DEF VoterKnows
  <2>1. Voting(u)' => Voting(u)
    BY <1>1 DEF Voting
  <2>2. Voting(u) /\ voter[u].gate = h => h # g /\ Known(u, h)
    BY <1>1 DEF IInv, VoterKnows, Known
  <2>3. h # g /\ Known(u, h) => Known(u, h)'
    BY <1>1, <1>3 DEF Known, MayVote
  <2> QED  BY <1>1, <2>1, <2>2, <2>3, VerdictStays DEF IInv, VoterKnows
<1>6. VotesCount'
  BY <1>1, <1>3 DEF IInv, VotesCount, MayVote
<1>7. ApprovedJustified'
  BY <1>1, <1>3 DEF IInv, ApprovedJustified, MayVote
<1>8. LastVoteCounts'
  <2> SUFFICES ASSUME NEW h \in Gates, Mode[h] = "all", Anyone \notin Approvers[h],
                      \A u \in Approvers[h] : votes[h][u] = "approve"
               PROVE  req'[h] # "pending"
    BY <1>1 DEF LastVoteCounts
  <2>1. h # g
    BY <1>1, ApprovalAssumption
  <2> QED  BY <1>3, <2>1 DEF IInv, LastVoteCounts
<1> QED  BY <1>2, <1>4, <1>5, <1>6, <1>7, <1>8 DEF IInv

LEMMA MarkKeeps ==
    ASSUME IInv, onTimeout' = onTimeout, NEW g \in Gates, MarkApproval(g)
    PROVE  IInv'
<1>1. TypeOK'
  BY DEF IInv, TypeOK, MarkApproval, Transition, RunStatuses
<1>2. Opened' /\ TimerHolds'
  BY DEF IInv, TypeOK, MarkApproval, Opened, TimerHolds
<1> QED  BY <1>1, <1>2, VotesKeep DEF IInv, Promises, MarkApproval

LEMMA CancelKeeps ==
    ASSUME IInv, onTimeout' = onTimeout, Cancel
    PROVE  IInv'
<1>1. TypeOK'
  BY DEF IInv, TypeOK, Cancel, Transition, RunStatuses, TerminalStatus
<1>2. Opened' /\ TimerHolds'
  BY DEF IInv, Cancel, Opened, TimerHolds
<1> QED  BY <1>1, <1>2, VotesKeep DEF IInv, Promises, Cancel

LEMMA ReadKeeps ==
    ASSUME IInv, onTimeout' = onTimeout, NEW u \in Users, NEW g \in Gates,
           NEW d \in Decisions, VoteRead(u, g, d)
    PROVE  IInv'
<1>1. /\ runLock = Nobody /\ req[g] = "pending" /\ MayVote(u, g) /\ votes[g][u] = "none"
      /\ runLock' = u
      /\ voter' = [voter EXCEPT ![u] = [pc |-> "read", gate |-> g, decision |-> d, next |-> ""]]
      /\ UNCHANGED <<run, req, votes, creator, timer, ticked, crashes>>
  BY DEF VoteRead
<1>2. TypeOK'
  BY <1>1 DEF IInv, TypeOK, Calls
<1>3. \A w \in Users : w # u => voter'[w] = voter[w]
  BY <1>1 DEF IInv, TypeOK
<1>4. \A w \in Users : ~Voting(w)
  BY <1>1, ApprovalAssumption DEF IInv, LockHeld
<1>5. /\ voter'[u].pc = "read" /\ voter'[u].gate = g
      /\ \A w \in Users : w # u => voter'[w].pc \notin {"read", "written"}
  <2>1. voter \in [Users -> Calls]
    BY DEF IInv, TypeOK
  <2>2. voter'[u].pc = "read" /\ voter'[u].gate = g
    BY <1>1, <2>1
  <2>3. \A w \in Users : w # u => voter'[w].pc \notin {"read", "written"}
    BY <1>3, <1>4 DEF Voting
  <2> QED  BY <2>2, <2>3
<1>6. LockHeld'
  BY <1>1, <1>5 DEF LockHeld, Voting
<1>7. VoterKnows'
  <2>1. Known(u, g)'
    BY <1>1 DEF Known, MayVote
  <2> QED  BY <1>5, <2>1 DEF VoterKnows, Voting
<1>8. Opened' /\ VotesCount'
  BY <1>1 DEF IInv, Opened, VotesCount, MayVote
<1>9. TimerHolds'
  BY <1>1, <1>3, <1>5 DEF IInv, TimerHolds
<1> QED  BY <1>1, <1>2, <1>9, <1>6, <1>7, <1>8, QuietKeeps DEF IInv, Promises

LEMMA WriteKeeps ==
    ASSUME IInv, onTimeout' = onTimeout, NEW u \in Users, VoteWrite(u)
    PROVE  IInv'
<1> DEFINE g == voter[u].gate
           d == voter[u].decision
<1>1. /\ voter[u].pc = "read" /\ Voting(u) /\ g \in Gates /\ d \in Decisions
      /\ timer[g] # "locked"
      /\ voter' = [voter EXCEPT ![u].pc = "written", ![u].next = Verdict(u, g, d)]
      /\ UNCHANGED <<run, runLock, req, votes, creator, timer, ticked, crashes>>
  BY DEF IInv, TypeOK, VoteWrite, Voting, Calls
<1>2. Verdict(u, g, d) \in {"", "running", "failed"}
  BY DEF Verdict
<1>3. /\ voter' \in [Users -> Calls]
      /\ voter'[u].pc = "written" /\ voter'[u].next = Verdict(u, g, d)
      /\ voter'[u].gate = g /\ voter'[u].decision = d
      /\ \A w \in Users : w # u => voter'[w] = voter[w]
  BY <1>1, <1>2, CallMoves DEF IInv
<1>4. TypeOK'
  BY <1>1, <1>3 DEF IInv, TypeOK
<1>5. \A w \in Users : /\ voter'[w].gate = voter[w].gate
                       /\ Voting(w)' <=> Voting(w)
  BY <1>1, <1>3 DEF Voting
<1>6. LockHeld' /\ Opened' /\ VotesCount'
  BY <1>1, <1>5 DEF IInv, LockHeld, Opened, VotesCount, MayVote
<1>7. TimerHolds'
  BY <1>1, <1>3 DEF IInv, TimerHolds
<1>8. VoterKnows'
  <2>1. \A w \in Users, h \in Gates : Known(w, h)' <=> Known(w, h)
    BY <1>1 DEF Known, MayVote
  <2> QED  BY <1>1, <1>3, <1>5, <2>1, VerdictStays DEF IInv, VoterKnows
<1> QED  BY <1>1, <1>4, <1>6, <1>7, <1>8, QuietKeeps DEF IInv, Promises

LEMMA CommitKeeps ==
    ASSUME IInv, onTimeout' = onTimeout, NEW u \in Users, VoteCommit(u)
    PROVE  IInv'
<1> DEFINE g == voter[u].gate
           d == voter[u].decision
           n == voter[u].next
<1>1. /\ g \in Gates /\ d \in Decisions /\ n = Verdict(u, g, d) /\ MayVote(u, g)
      /\ votes[g][u] = "none" /\ req[g] \notin {"none", "rejected"}
      /\ req[g] = "approved" => onTimeout[g] = "approve"
      /\ timer[g] # "locked"
      /\ runLock = u
  <2>1. voter[u].pc = "written" /\ Voting(u) /\ g \in Gates /\ d \in Decisions
    BY DEF IInv, TypeOK, VoteCommit, Voting, Calls
  <2>2. Known(u, g) /\ n = Verdict(u, g, d)
    BY <2>1 DEF IInv, VoterKnows
  <2> QED  BY <2>1, <2>2 DEF IInv, Known, TimerHolds, LockHeld
<1>2. /\ votes' = [votes EXCEPT ![g][u] = d]
      /\ req' = [req EXCEPT ![g] = Saved(req[g], n)]
      /\ runLock' = Nobody
      /\ voter' = [voter EXCEPT ![u].pc = IF n = "" THEN "idle" ELSE "committed"]
      /\ UNCHANGED <<run, creator, timer, ticked, crashes>>
  BY DEF VoteCommit
<1>3. Saved(req[g], n) \in (Undecided \cup Decided) \ {"none"}
  BY <1>1 DEF IInv, TypeOK, Saved, Undecided, Decided
<1>15. /\ voter' \in [Users -> Calls]
       /\ voter'[u].pc \in {"idle", "committed"}
       /\ \A w \in Users : w # u => voter'[w] = voter[w]
  <2>1. n \in {"", "running", "failed"}
    BY <1>1 DEF Verdict
  <2> QED  BY <1>2, <2>1, CallMoves DEF IInv
<1>4. TypeOK'
  <2>1. req' \in [Gates -> Undecided \cup Decided]
    BY <1>1, <1>2, <1>3 DEF IInv, TypeOK
  <2>2. votes' \in [Gates -> [Users -> Decisions \cup {"none"}]]
    BY <1>1, <1>2 DEF IInv, TypeOK
  <2> QED  BY <1>2, <1>15, <2>1, <2>2 DEF IInv, TypeOK
<1>5. \A w \in Users : ~Voting(w)'
  BY <1>1, <1>15 DEF IInv, LockHeld, Voting
<1>6. /\ d = "reject" => Saved(req[g], n) = "rejected"
      /\ \A w \in Users : votes[g][w] # "reject"
  BY <1>1 DEF IInv, VotesCount, Verdict, Saved
<1>7. \A h \in Gates, w \in Users :
          votes'[h][w] = IF h = g /\ w = u THEN d ELSE votes[h][w]
  BY <1>1, <1>2 DEF IInv, TypeOK
<1>8. \A h \in Gates : req'[h] = IF h = g THEN Saved(req[g], n) ELSE req[h]
  BY <1>1, <1>2 DEF IInv, TypeOK
<1>9. LockHeld' /\ VoterKnows'
  <2>1. LockHeld'
    BY <1>2, <1>5, ApprovalAssumption DEF LockHeld
  <2> QED  BY <1>5, <2>1 DEF VoterKnows, Voting
<1>10. Opened'
  <2>1. \A h \in Gates : req'[h] = "none" <=> req[h] = "none"
    BY <1>1, <1>3, <1>8
  <2>2. creator' = creator
    BY <1>2
  <2> QED  BY <1>1, <1>7, <2>1, <2>2 DEF IInv, Opened
<1>11. TimerHolds'
  BY <1>1, <1>2, <1>5, <1>8 DEF IInv, TimerHolds, Voting
<1>12. VotesCount'
  BY <1>1, <1>6, <1>7, <1>8 DEF IInv, VotesCount, MayVote
<1>13. ApprovedJustified'
  <2> SUFFICES ASSUME NEW h \in Gates, req'[h] = "approved"
               PROVE  /\ \A w \in Users : votes'[h][w] # "reject"
                      /\ \/ onTimeout[h] = "approve"
                         \/ \E w \in Users : MayVote(w, h) /\ votes'[h][w] = "approve"
                      /\ Mode[h] = "all" /\ Anyone \notin Approvers[h] =>
                            \/ onTimeout[h] = "approve"
                            \/ \A w \in Approvers[h] : votes'[h][w] = "approve"
    BY DEF ApprovedJustified, MayVote
  <2>1. CASE h # g
    <3>1. req[h] = "approved" /\ \A w \in Users : votes'[h][w] = votes[h][w]
      BY <2>1, <1>7, <1>8
    <3>2. Anyone \notin Approvers[h] => Approvers[h] \subseteq Users
      BY ApprovalAssumption
    <3> QED  BY <3>1, <3>2 DEF IInv, ApprovedJustified
  <2>2. CASE h = g /\ n = "running"
    <3>1. d = "approve"
      BY <2>2, <1>1 DEF Verdict, Decisions
    <3>2. votes'[g][u] = "approve" /\ \A w \in Users : votes'[g][w] # "reject"
      BY <1>1, <1>6, <1>7, <3>1
    <3>3. ASSUME Mode[g] = "all", Anyone \notin Approvers[g], NEW w \in Approvers[g]
          PROVE  votes'[g][w] = "approve"
      <4>1. w \in Users
        BY <3>3, <1>1, ApprovalAssumption
      <4>2. w = u \/ votes[g][w] = "approve"
        BY <1>1, <2>2, <3>1, <3>3, CountIsAll DEF IInv
      <4> QED  BY <1>1, <1>7, <3>1, <4>1, <4>2
    <3> QED  BY <1>1, <2>2, <3>2, <3>3
  <2>3. CASE h = g /\ n # "running"
    <3>1. d = "approve" /\ req[g] = "approved"
      BY <2>3, <1>1, <1>6, <1>8 DEF Saved, Verdict, Decisions
    <3> QED  BY <1>1, <1>6, <1>7, <2>3, <3>1
  <2> QED  BY <2>1, <2>2, <2>3
<1>14. LastVoteCounts'
  <2> SUFFICES ASSUME NEW h \in Gates, Mode[h] = "all", Anyone \notin Approvers[h],
                      \A w \in Approvers[h] : votes'[h][w] = "approve"
               PROVE  req'[h] # "pending"
    BY DEF LastVoteCounts
  <2>0. Approvers[h] \subseteq Users
    BY ApprovalAssumption
  <2>1. CASE h # g
    <3>1. \A w \in Approvers[h] : votes[h][w] = "approve"
      BY <2>0, <2>1, <1>7
    <3> QED  BY <2>1, <3>1, <1>8 DEF IInv, LastVoteCounts
  <2>2. CASE h = g
    <3>1. d = "approve"
      BY <2>0, <2>2, <1>1, <1>7 DEF MayVote
    <3>2. Approvers[g] \subseteq Approvals(u, g)
      BY <2>0, <2>2, <1>1, <1>7 DEF Approvals
    <3>3. n = "running"
      BY <1>1, <3>1, <3>2, LastIsCounted DEF IInv
    <3> QED  BY <2>2, <3>3, <1>1, <1>8 DEF Saved
  <2> QED  BY <2>1, <2>2
<1> QED  BY <1>4, <1>9, <1>10, <1>11, <1>12, <1>13, <1>14 DEF IInv

\* A call that advances the run, resumes it or is cut off is no vote any more.
LEMMA CallEnds ==
    ASSUME IInv, UNCHANGED <<onTimeout, req, votes, creator, timer>>, NEW u \in Users,
           NEW p \in {"idle", "resume"}, voter' = [voter EXCEPT ![u].pc = p],
           runLock' = IF runLock = u THEN Nobody ELSE runLock
    PROVE  /\ LockHeld' /\ Opened' /\ TimerHolds' /\ VoterKnows' /\ VotesCount' /\ Promises'
           /\ voter' \in [Users -> Calls]
<1>1. voter[u].next \in {"", "running", "failed"}
  BY DEF IInv, TypeOK, Calls
<1>2. /\ voter' \in [Users -> Calls] /\ voter'[u].pc = p
      /\ \A w \in Users : w # u => voter'[w] = voter[w]
  BY <1>1, CallMoves DEF IInv
<1>3. ~Voting(u)' /\ \A w \in Users : w # u => (Voting(w)' <=> Voting(w))
  BY <1>2 DEF Voting
<1>4. LockHeld'
  BY <1>3, ApprovalAssumption DEF IInv, LockHeld
<1>5. Opened' /\ VotesCount'
  BY DEF IInv, Opened, VotesCount, MayVote
<1>6. TimerHolds'
  BY <1>2 DEF IInv, TimerHolds
<1>7. VoterKnows'
  <2>1. \A w \in Users, h \in Gates : Known(w, h)' <=> Known(w, h)
    BY DEF Known, MayVote
  <2> QED  BY <1>2, <1>3, <2>1, VerdictStays DEF IInv, VoterKnows
<1> QED  BY <1>2, <1>4, <1>5, <1>6, <1>7, QuietKeeps DEF IInv, Promises

LEMMA AdvanceKeeps ==
    ASSUME IInv, onTimeout' = onTimeout, NEW u \in Users, VoteAdvance(u)
    PROVE  IInv'
<1> DEFINE p == IF voter[u].next = "running" /\ Reaches("running") THEN "resume" ELSE "idle"
<1>1. runLock' = (IF runLock = u THEN Nobody ELSE runLock)
  BY ApprovalAssumption DEF VoteAdvance, Transition
<1>2. /\ p \in {"idle", "resume"} /\ voter' = [voter EXCEPT ![u].pc = p]
      /\ UNCHANGED <<req, votes, creator, timer, ticked, crashes>>
  BY DEF VoteAdvance
<1>3. run' \in RunStatuses
  <2>1. voter[u].next \in RunStatuses \/ ~CanTransition(run, voter[u].next)
    BY DEF CanTransition, IInv, TypeOK, Calls, RunStatuses, TerminalStatus
  <2>2. run' = (IF CanTransition(run, voter[u].next) THEN voter[u].next ELSE run)
    BY DEF VoteAdvance, Transition
  <2> QED  BY <2>1, <2>2 DEF IInv, TypeOK
<1> HIDE DEF p
<1>4. /\ LockHeld' /\ Opened' /\ TimerHolds' /\ VoterKnows' /\ VotesCount' /\ Promises'
      /\ voter' \in [Users -> Calls]
  BY <1>1, <1>2, CallEnds
<1>5. TypeOK'
  BY <1>1, <1>2, <1>3, <1>4 DEF IInv, TypeOK
<1> QED  BY <1>4, <1>5 DEF IInv, Promises

LEMMA ResumeKeeps ==
    ASSUME IInv, onTimeout' = onTimeout, NEW u \in Users, VoteResume(u)
    PROVE  IInv'
<1>1. voter[u].gate \in Gates /\ runLock # u
  BY DEF IInv, TypeOK, Calls, VoteResume, LockHeld, Voting
<1>2. /\ LockHeld' /\ Opened' /\ TimerHolds' /\ VoterKnows' /\ VotesCount' /\ Promises'
      /\ voter' \in [Users -> Calls]
  BY <1>1, CallEnds DEF VoteResume
<1>3. TypeOK'
  BY <1>1, <1>2 DEF IInv, TypeOK, VoteResume
<1> QED  BY <1>2, <1>3 DEF IInv, Promises

LEMMA CrashKeeps ==
    ASSUME IInv, onTimeout' = onTimeout, NEW u \in Users, VoteCrash(u)
    PROVE  IInv'
<1>1. /\ LockHeld' /\ Opened' /\ TimerHolds' /\ VoterKnows' /\ VotesCount' /\ Promises'
      /\ voter' \in [Users -> Calls]
  BY CallEnds DEF VoteCrash
<1>2. runLock' \in Users \cup {Nobody}
  BY DEF IInv, TypeOK, VoteCrash
<1>3. crashes' \in 0 .. MaxCrashes
  <2>1. MaxCrashes \in Nat
    BY ApprovalAssumption
  <2> QED  BY <2>1 DEF IInv, TypeOK, VoteCrash
<1>4. TypeOK'
  BY <1>1, <1>2, <1>3 DEF IInv, TypeOK, VoteCrash
<1> QED  BY <1>1, <1>4 DEF IInv, Promises

LEMMA TaskCrashKeeps ==
    ASSUME IInv, onTimeout' = onTimeout, NEW g \in Gates, TaskCrash(g)
    PROVE  IInv'
<1>1. crashes' \in 0 .. MaxCrashes
  <2>1. MaxCrashes \in Nat
    BY ApprovalAssumption
  <2> QED  BY <2>1 DEF IInv, TypeOK, TaskCrash
<1>2. TypeOK'
  BY <1>1 DEF IInv, TypeOK, TaskCrash
<1>3. Opened' /\ TimerHolds'
  BY DEF IInv, TypeOK, TaskCrash, Opened, TimerHolds
<1> QED  BY <1>2, <1>3, VotesKeep DEF IInv, Promises, TaskCrash

LEMMA SelectKeeps ==
    ASSUME IInv, onTimeout' = onTimeout, NEW g \in Gates, TimeoutSelect(g)
    PROVE  IInv'
<1>1. TypeOK'
  BY DEF IInv, TypeOK, TimeoutSelect
<1>2. Opened' /\ TimerHolds'
  BY DEF IInv, TypeOK, TimeoutSelect, Opened, TimerHolds
<1> QED  BY <1>1, <1>2, VotesKeep DEF IInv, Promises, TimeoutSelect

LEMMA TimerMovesKeeps ==
    ASSUME IInv, onTimeout' = onTimeout, NEW g \in Gates,
           TimeoutAdvance(g) \/ TimeoutResume(g)
    PROVE  IInv'
<1>1. run' \in RunStatuses
  <2>1. {"timeout", "running"} \subseteq RunStatuses
    BY DEF RunStatuses, TerminalStatus
  <2>2. \/ UNCHANGED run \/ run' = "timeout" \/ run' = "running"
    BY DEF TimeoutAdvance, TimeoutResume, Transition
  <2> QED  BY <2>1, <2>2 DEF IInv, TypeOK
<1>2. /\ timer' \in [Gates -> {"off", "set", "locked", "committed", "resume"}]
      /\ \A h \in Gates : timer'[h] = "locked" => timer[h] = "locked"
  BY DEF IInv, TypeOK, TimeoutAdvance, TimeoutResume
<1>3. TypeOK'
  BY <1>1, <1>2 DEF IInv, TypeOK, TimeoutAdvance, TimeoutResume
<1>4. UNCHANGED <<onTimeout, runLock, req, votes, voter, creator>>
  BY DEF TimeoutAdvance, TimeoutResume
<1>5. Opened' /\ TimerHolds'
  BY <1>2, <1>4 DEF IInv, Opened, TimerHolds
<1> QED  BY <1>3, <1>4, <1>5, VotesKeep DEF IInv, Promises

LEMMA TimeoutKeeps ==
    ASSUME IInv, onTimeout' = onTimeout, NEW g \in Gates, TimeoutCommit(g)
    PROVE  IInv'
<1>1. /\ timer[g] = "locked" /\ req[g] = "pending"
      /\ \A w \in Users : ~(voter[w].pc = "written" /\ voter[w].gate = g)
      /\ \A w \in Users : votes[g][w] # "reject"
      /\ UNCHANGED <<onTimeout, run, runLock, votes, voter, creator, ticked, crashes>>
  BY DEF IInv, TimeoutCommit, TimerHolds, VotesCount
<1>2. /\ \A h \in Gates : h # g => req'[h] = req[h] /\ timer'[h] = timer[h]
      /\ req'[g] = (IF onTimeout[g] = "approve" THEN "approved" ELSE "timeout")
      /\ timer'[g] = "committed"
  BY DEF IInv, TypeOK, TimeoutCommit
<1>3. TypeOK'
  BY DEF IInv, TypeOK, TimeoutCommit, Decided
<1>4. LockHeld' /\ Opened'
  BY <1>1, <1>2 DEF IInv, LockHeld, Voting, Opened
<1>5. TimerHolds'
  BY <1>1, <1>2 DEF IInv, TimerHolds
<1>6. VoterKnows'
  <2>1. \A w \in Users, h \in Gates : Known(w, h) => Known(w, h)'
    BY <1>1, <1>2 DEF Known, MayVote
  <2> QED  BY <1>1, <2>1, VerdictStays DEF IInv, VoterKnows, Voting
<1>7. VotesCount'
  BY <1>1, <1>2 DEF IInv, VotesCount, MayVote
<1>8. ApprovedJustified'
  BY <1>1, <1>2 DEF IInv, ApprovedJustified, MayVote
<1>9. LastVoteCounts'
  BY <1>1, <1>2 DEF IInv, LastVoteCounts
<1> QED  BY <1>3, <1>4, <1>5, <1>6, <1>7, <1>8, <1>9 DEF IInv

-----------------------------------------------------------------------------
(* The specification                                                       *)

LEMMA NextKeeps == IInv /\ [Next]_vars => IInv'
<1> SUFFICES ASSUME IInv, [Next]_vars PROVE IInv'
  OBVIOUS
<1>1. CASE UNCHANGED vars
  <2>1. UNCHANGED <<onTimeout, run, runLock, req, votes, voter, creator, timer, ticked, crashes>>
    BY <1>1 DEF vars, changing
  <2>2. TypeOK' /\ Opened' /\ TimerHolds'
    BY <2>1 DEF IInv, TypeOK, Opened, TimerHolds
  <2> QED  BY <2>1, <2>2, VotesKeep DEF IInv, Promises
<1>2. CASE Next
  <2>1. ASSUME NEW g \in Gates,
               InsertRequest(g) \/ MarkApproval(g) \/ TaskStep(g) \/ TaskCrash(g)
        PROVE  IInv'
    BY <1>2, <2>1, InsertKeeps, MarkKeeps, TaskCrashKeeps, SelectKeeps, TimeoutKeeps,
       TimerMovesKeeps DEF Next, TaskStep
  <2>2. ASSUME NEW u \in Users, VoterStep(u) \/ VoteCrash(u)
        PROVE  IInv'
    BY <1>2, <2>2, WriteKeeps, CommitKeeps, AdvanceKeeps, ResumeKeeps, CrashKeeps
       DEF Next, VoterStep
  <2>3. ASSUME NEW u \in Users, NEW g \in Gates, NEW d \in Decisions, VoteRead(u, g, d)
        PROVE  IInv'
    BY <1>2, <2>3, ReadKeeps DEF Next
  <2>4. ASSUME Cancel PROVE IInv'
    BY <1>2, <2>4, CancelKeeps DEF Next
  <2> QED  BY <1>2, <2>1, <2>2, <2>3, <2>4 DEF Next
<1> QED  BY <1>1, <1>2

\* No interleaving of votes, timeout, cancel and crashes approves a gate over a
\* reject or on a part of the approvers it wants, and the last of them decides.
THEOREM Safety == Spec => [](TypeOK /\ ApprovedJustified /\ LastVoteCounts)
<1>1. Init => IInv
  BY Initially
<1>2. IInv /\ [Next]_vars => IInv'
  BY NextKeeps
<1>3. IInv => TypeOK /\ ApprovedJustified /\ LastVoteCounts
  BY DEF IInv
<1> QED  BY <1>1, <1>2, <1>3, PTL DEF Spec

\* What one step leaves of a decision of the users.
LEMMA DecisionStays ==
    ASSUME IInv, [Next]_vars, NEW g \in Gates,
           req[g] = "rejected" \/ (req[g] = "approved" /\ onTimeout[g] # "approve")
    PROVE  req'[g] = req[g]
<1>1. CASE UNCHANGED vars
  BY <1>1 DEF vars, changing
<1>2. ASSUME NEW h \in Gates, InsertRequest(h) PROVE req'[g] = req[g]
  <2>1. h # g
    BY <1>2 DEF IInv, Opened, InsertRequest
  <2> QED  BY <1>2, <2>1 DEF IInv, TypeOK, InsertRequest
<1>3. ASSUME NEW h \in Gates, TimeoutCommit(h) PROVE req'[g] = req[g]
  <2>1. h # g
    BY <1>3 DEF IInv, TimerHolds, TimeoutCommit
  <2> QED  BY <1>3, <2>1 DEF IInv, TypeOK, TimeoutCommit
<1>4. ASSUME NEW u \in Users, VoteCommit(u) PROVE req'[g] = req[g]
  <2>1. Voting(u) /\ voter[u].gate \in Gates
    BY <1>4 DEF IInv, TypeOK, VoteCommit, Voting, Calls
  <2>2. Known(u, voter[u].gate)
    BY <2>1 DEF IInv, VoterKnows
  <2>3. voter[u].gate # g
    BY <2>2 DEF Known
  <2> QED  BY <1>4, <2>3 DEF IInv, TypeOK, VoteCommit
<1>5. ASSUME UNCHANGED req PROVE req'[g] = req[g]
  BY <1>5
<1> QED
  <2>1. ASSUME Next PROVE UNCHANGED req
            \/ (\E h \in Gates : InsertRequest(h) \/ TimeoutCommit(h))
            \/ (\E u \in Users : VoteCommit(u))
    BY <2>1 DEF Next, VoterStep, TaskStep, MarkApproval, TaskCrash, TimeoutSelect,
               TimeoutAdvance, TimeoutResume, VoteWrite, VoteAdvance, VoteResume,
               VoteCrash, VoteRead, Cancel
  <2> QED  BY <1>1, <1>2, <1>3, <1>4, <1>5, <2>1

\* A late timeout, a second vote or a gate that opens again never changes what
\* the users have decided.
THEOREM DecisionFinal == Spec => VoteDecisionFinal
<1>1. IInv /\ [Next]_vars =>
        [\A g \in Gates :
            req[g] = "rejected" \/ (req[g] = "approved" /\ onTimeout[g] # "approve")
            => req'[g] = req[g]]_vars
  BY DecisionStays
<1> QED  BY <1>1, Initially, NextKeeps, PTL DEF Spec, VoteDecisionFinal
=============================================================================
