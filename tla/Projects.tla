------------------------------ MODULE Projects ------------------------------
(***************************************************************************)
(* Projects and the registration of their webhook at GitHub: the api       *)
(* creates a project and enqueues the registration, the worker chooses a   *)
(* secret, creates the hook and merges id and secret into the project's    *)
(* config, or an error; PATCH requests write the whole config they read    *)
(* earlier; deleting is soft and leaves the hook at GitHub.                *)
(***************************************************************************)
EXTENDS Integers, Sequences, FiniteSets

CONSTANTS
    Ids,         \* requests to create a project, all for one slug of one org
    MaxRetry,    \* asynq.MaxRetry of the task
    MaxEdits,    \* bound on PATCH requests of a project
    MaxFaults    \* bound on deaths of the worker and failures of the database

ASSUME ProjectsAssumption ==
    /\ IsFiniteSet(Ids) /\ MaxRetry \in Nat \ {0} /\ {MaxEdits, MaxFaults} \subseteq Nat

VARIABLES
    env,       \* [dev, url, token]: HELIOS_WEBHOOK_DEV_SECRET, HELIOS_PUBLIC_API_BASE, GitHub token
    row,       \* state of each project and of the request that creates it
    config,    \* projects.config: the keys about the webhook
    task,      \* project:webhook-register
    hooks,     \* hooks at GitHub, oldest first: [project, secret]
    drawn,     \* secrets drawn by randomHex so far
    edit,      \* PATCH in progress: the config read, or NoEdit
    edits,
    faults

vars == <<env, row, config, task, hooks, drawn, edit, edits, faults>>

None == 0
Dev == 1                                     \* further secrets are 2, 3, ...
Fresh == [hook |-> None, secret |-> None, error |-> FALSE]
NoEdit == [hook |-> -1, secret |-> None, error |-> FALSE]
NoTask == [pc |-> "none", retried |-> 0, secret |-> None, hook |-> None, skip |-> FALSE, late |-> FALSE]

Requests == [valid : BOOLEAN, type : {"github", "gitlab"}, repo : BOOLEAN]

TypeOK ==
    /\ env \in [dev : BOOLEAN, url : BOOLEAN, token : BOOLEAN]
    /\ \A p \in Ids :
          /\ row[p] \in {"none", "checked", "refused", "inserted", "live", "deleted"}
          /\ config[p].hook \in 0 .. Len(hooks) /\ config[p].secret \in 0 .. 1 + drawn
          /\ task[p].pc \in {"none", "queued", "call", "merge", "error", "return", "done", "archived"}
          /\ task[p].retried \in 0 .. MaxRetry

Init ==
    /\ env \in [dev : BOOLEAN, url : BOOLEAN, token : BOOLEAN]
    /\ row = [p \in Ids |-> "none"] /\ config = [p \in Ids |-> Fresh]
    /\ task = [p \in Ids |-> NoTask] /\ hooks = <<>> /\ drawn = 0
    /\ edit = [p \in Ids |-> NoEdit] /\ edits = [p \in Ids |-> 0]
    /\ faults = 0

Fault == faults < MaxFaults /\ faults' = faults + 1

-----------------------------------------------------------------------------
\* Create: the fields are checked, then that no live project has the slug.
CreateRead(p) ==
    /\ row[p] = "none"
    /\ \E r \in Requests :
          row' = [row EXCEPT ![p] = IF ~r.valid \/ \E q \in Ids : row[q] \in {"inserted", "live"}
                                    THEN "refused" ELSE "checked"]
    /\ UNCHANGED <<env, config, task, hooks, drawn, edit, edits, faults>>

\* The insert meets the unique key, which deleted rows keep.
CreateInsert(p) ==
    /\ row[p] = "checked"
    /\ row' = [row EXCEPT ![p] = IF \E q \in Ids : row[q] \in {"inserted", "live", "deleted"}
                                 THEN "refused" ELSE "inserted"]
    /\ UNCHANGED <<env, config, task, hooks, drawn, edit, edits, faults>>

\* enqueueWebhookRegister: only for github, with an owner and a repository in
\* the URL; a failure is logged.
Enqueue(p) ==
    /\ row[p] = "inserted" /\ row' = [row EXCEPT ![p] = "live"]
    /\ \E r \in Requests, sent \in BOOLEAN :
          IF r.type = "github" /\ r.repo /\ sent
          THEN task' = [task EXCEPT ![p].pc = "queued"]
          ELSE task' = task
    /\ UNCHANGED <<env, config, hooks, drawn, edit, edits, faults>>

\* PATCH: GetByID, then Updates with every mutable column of what was read.
EditRead(p) ==
    /\ row[p] \in {"inserted", "live"} /\ edit[p] = NoEdit /\ edits[p] < MaxEdits
    /\ edit' = [edit EXCEPT ![p] = config[p]] /\ edits' = [edits EXCEPT ![p] = @ + 1]
    /\ UNCHANGED <<env, row, config, task, hooks, drawn, faults>>

EditWrite(p) ==
    /\ edit[p] # NoEdit /\ edit' = [edit EXCEPT ![p] = NoEdit]
    /\ IF row[p] = "deleted"
       THEN config' = config
       ELSE config' = [config EXCEPT ![p] = edit[p]]
    /\ UNCHANGED <<env, row, task, hooks, drawn, edits, faults>>

Delete(p) ==
    /\ row[p] \in {"inserted", "live"} /\ task[p].pc # "none"
    /\ row' = [row EXCEPT ![p] = "deleted"]
    /\ UNCHANGED <<env, config, task, hooks, drawn, edit, edits, faults>>

-----------------------------------------------------------------------------
\* ProcessTask reads the project, deleted or not, and decides the secret: the
\* stored one, the one of development, or a new one.
Decided(p) == IF config[p].secret # None THEN config[p].secret
              ELSE IF env.dev THEN Dev ELSE 2 + drawn

AttemptStart(p) ==
    /\ task[p].pc = "queued"
    /\ LET s == Decided(p) IN
       /\ drawn' = IF s = 2 + drawn THEN drawn + 1 ELSE drawn
       /\ task' = [task EXCEPT ![p].pc = IF env.url THEN "call" ELSE "return", ![p].secret = s,
                               ![p].skip = FALSE, ![p].late = FALSE]
    /\ UNCHANGED <<env, row, config, hooks, edit, edits, faults>>

GetFails(p) ==
    /\ task[p].pc = "queued" /\ Fault
    /\ task' = [task EXCEPT ![p].pc = "return", ![p].skip = FALSE, ![p].late = FALSE]
    /\ UNCHANGED <<env, row, config, hooks, drawn, edit, edits>>

\* CreateWebhook: without a token nothing is sent; 401 and 403 are not
\* retried; any other failure is, with or without a hook left at GitHub.
Hooked(p) == hooks' = Append(hooks, [project |-> p, secret |-> task[p].secret])

CallAnswered(p) ==
    /\ task[p].pc = "call" /\ env.token /\ Hooked(p)
    /\ task' = [task EXCEPT ![p].pc = "merge", ![p].hook = Len(hooks) + 1]
    /\ UNCHANGED <<env, row, config, drawn, edit, edits, faults>>

CallRefused(p) ==
    /\ task[p].pc = "call"
    /\ task' = [task EXCEPT ![p].pc = "error", ![p].skip = TRUE]
    /\ UNCHANGED <<env, row, config, hooks, drawn, edit, edits, faults>>

\* An error, or an answer lost; after the 30 s of client and task alike the
\* context of the task has expired, and with it every write that follows.
CallFails(p) ==
    /\ task[p].pc = "call" /\ env.token
    /\ \/ hooks' = hooks
       \/ Hooked(p)
    /\ \E late \in BOOLEAN :
          /\ IF late THEN Fault ELSE UNCHANGED faults
          /\ task' = [task EXCEPT ![p].pc = "error", ![p].late = late]
    /\ UNCHANGED <<env, row, config, drawn, edit, edits>>

\* MergeConfig under the row's lock, whether the project is deleted or not.
\* mutant: the secret is not in the patch
RegisteredWithoutSecret(p) == [config[p] EXCEPT !.hook = task[p].hook, !.error = FALSE]
Registered(p) == [hook |-> task[p].hook, secret |-> task[p].secret, error |-> FALSE]
WithError(p) == [config[p] EXCEPT !.error = TRUE]

MergeHook(p) ==
    /\ task[p].pc = "merge"
    /\ \/ /\ config' = [config EXCEPT ![p] = Registered(p)]
          /\ task' = [task EXCEPT ![p].pc = "done"]
          /\ UNCHANGED faults
       \/ /\ Fault /\ config' = config
          /\ task' = [task EXCEPT ![p].pc = "return"]
    /\ UNCHANGED <<env, row, hooks, drawn, edit, edits>>

\* writeError: a failure to write is ignored.
MergeError(p) ==
    /\ task[p].pc = "error" /\ task' = [task EXCEPT ![p].pc = "return"]
    /\ \/ /\ ~task[p].late /\ config' = [config EXCEPT ![p] = WithError(p)]
          /\ UNCHANGED faults
       \/ /\ task[p].late /\ UNCHANGED <<config, faults>>
       \/ /\ ~task[p].late /\ config' = config /\ Fault
    /\ UNCHANGED <<env, row, hooks, drawn, edit, edits>>

\* withExhaustHook writes the error once more from the last retry but one on;
\* asynq retries up to MaxRetry times, and never after SkipRetry.
Exhausted(p) == task[p].retried + 1 >= MaxRetry
LastTry(p) == task[p].skip \/ task[p].retried >= MaxRetry
\* mutant: a failure is queued again without counting
DisposedUncounted(p) ==
    task' = [task EXCEPT ![p].pc = IF task[p].skip THEN "archived" ELSE "queued"]
Disposed(p) ==
    task' = [task EXCEPT ![p].pc = IF LastTry(p) THEN "archived" ELSE "queued",
                         ![p].retried = IF LastTry(p) THEN @ ELSE @ + 1,
                         ![p].secret = None, ![p].hook = None]

Return(p) ==
    /\ task[p].pc = "return" /\ Disposed(p)
    /\ \/ /\ config' = IF Exhausted(p) /\ ~task[p].late
                       THEN [config EXCEPT ![p] = WithError(p)] ELSE config
          /\ UNCHANGED faults
       \/ /\ Exhausted(p) /\ ~task[p].late /\ config' = config /\ Fault
    /\ UNCHANGED <<env, row, hooks, drawn, edit, edits>>

\* The worker dies, also between the merge and the acknowledgement: the task
\* is retried, or archived without its hook.
Crash(p) ==
    /\ task[p].pc \in {"call", "merge", "error", "return", "done"}
    /\ Fault /\ Disposed(p)
    /\ UNCHANGED <<env, row, config, hooks, drawn, edit, edits>>

Worker(p) ==
    \/ AttemptStart(p) \/ CallAnswered(p) \/ CallRefused(p) \/ CallFails(p)
    \/ MergeHook(p) \/ MergeError(p) \/ Return(p)

Next ==
    \E p \in Ids :
       \/ CreateRead(p) \/ CreateInsert(p) \/ Enqueue(p)
       \/ EditRead(p) \/ EditWrite(p) \/ Delete(p)
       \/ Worker(p) \/ GetFails(p) \/ Crash(p)

\* The worker takes every queued task and goes on with the one it holds.
Spec == Init /\ [][Next]_vars /\ \A p \in Ids : WF_vars(Worker(p))

-----------------------------------------------------------------------------
\* The secret a project's deliveries are checked against (resolveSecret).
Resolved(p) == IF config[p].secret # None THEN config[p].secret
               ELSE IF env.dev THEN Dev ELSE None

\* What the config names is a hook of the project that signs with the secret
\* the api checks against, whatever was retried, edited or lost; and with a
\* development secret every hook ever created, also one whose answer was
\* lost, signs with it.
HooksVerify ==
    /\ \A p \in Ids : config[p].hook # None =>
          /\ hooks[config[p].hook].project = p
          /\ hooks[config[p].hook].secret = Resolved(p)
    /\ env.dev => \A i \in 1 .. Len(hooks) : hooks[i].secret = Resolved(hooks[i].project)

\* A queued registration ends, with a hook or archived.
RegistrationEnds ==
    \A p \in Ids : task[p].pc = "queued" ~> task[p].pc \in {"done", "archived"}

\* "The final failure is written back to project.config by the worker"
\* (handler/project.go): not after the task's time is over, when the writes
\* of the error fail with the context, nor after a stale PATCH.
FailureWritten ==
    \A p \in Ids : task[p].pc = "archived" => config[p].error

\* What the worker merged stays (projectrepo: FOR UPDATE "for safety under
\* concurrency"): not when a PATCH that read earlier writes its config.
ConfigKept ==
    \A p \in Ids : task[p].pc = "done" => config[p].hook # None

=============================================================================
