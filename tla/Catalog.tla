------------------------------ MODULE Catalog ------------------------------
(***************************************************************************)
(* The official plugins and builtin templates every replica of the api     *)
(* seeds when it starts, and the plugins and templates its users handle    *)
(* while it does.  A seed is a loop of statements without a transaction;   *)
(* the process may die between any two of them and start again, with the   *)
(* same build, with a newer one, or with an older one; each may fail, and  *)
(* that ends the seed or is ignored.                                       *)
(***************************************************************************)
EXTENDS Integers, Sequences

CONSTANTS
    Replicas,     \* processes of the api
    Builds,       \* 1 .. n, the releases of the api
    Order,        \* official plugins, as SeedOfficial goes through them
    Shipped,      \* [Builds -> [plugin -> version]]
    Slugs,        \* slugs of templates
    Builtins,     \* [Builds -> slugs of builtin templates]
    Tenants,      \* orgs
    Users,        \* requests under way at a time
    RollsBack,    \* a start may be of an older build than the one before
    MaxStarts,    \* bound on the starts of a process
    MaxRequests   \* bound on the requests

Plugins == {Order[i] : i \in DOMAIN Order}

ASSUME CatalogAssumption ==
    /\ Order \in Seq(Plugins) /\ Order # <<>>
    /\ Builds \subseteq Nat \ {0} /\ Builtins \in [Builds -> SUBSET Slugs]
    /\ Shipped \in [Builds -> [Plugins -> Nat \ {0}]]
    /\ RollsBack \in BOOLEAN /\ MaxStarts \in Nat /\ MaxRequests \in Nat

VARIABLES
    replica,    \* build, step of the seed, plugin it is at
    version,    \* rows of plugin_versions by plugin, oldest first: version, is_latest
    column,     \* latest_version of plugins, NoPlugin when there is no row
    installed,  \* plugin_installations: version by <<org, plugin>>
    template,   \* pipeline_templates by slug, soft-deleted rows included
    request,    \* request of each user
    starts, requests,
    \* history
    spoilt      \* plugins at which an ignored error took effect since their flags were last reset

catalogVars ==
    <<replica, version, column, installed, template, request, starts, requests, spoilt>>

NoPlugin == 0
NotInstalled == 0
NoTemplate == [state |-> "none", builtin |-> FALSE, org |-> ""]
NoRequest == [op |-> "none", id |-> "", version |-> 0, row |-> NoTemplate]

SeedSteps == {"templates", "template", "plugin", "row", "count", "clear", "version", "column",
              "serving", "down"}
CatalogTypeOK ==
    /\ \A r \in Replicas : replica[r].pc \in SeedSteps /\ replica[r].at \in 1 .. Len(Order) + 1
    /\ \A p \in Plugins : column[p] \in Nat
    /\ spoilt \subseteq Plugins
    /\ \A s \in Slugs : template[s].state \in {"none", "live", "deleted"}

CatalogInit ==
    /\ replica = [r \in Replicas |-> [build |-> 0, pc |-> "down", at |-> 1]]
    /\ version = [p \in Plugins |-> <<>>] /\ column = [p \in Plugins |-> NoPlugin]
    /\ installed = [k \in Tenants \X Plugins |-> NotInstalled]
    /\ template = [s \in Slugs |-> NoTemplate]
    /\ request = [u \in Users |-> NoRequest] /\ starts = 0 /\ requests = 0
    /\ spoilt = {}

-----------------------------------------------------------------------------
(* Start of a replica                                                      *)

Is(r, pc) == replica[r].pc = pc
Plugin(r) == Order[replica[r].at]
Ships(r) == Shipped[replica[r].build][Plugin(r)]
Goes(r, pc) == replica' = [replica EXCEPT ![r].pc = pc]

\* An error ends the seed with a warning, and the api serves all the same.
GivesUp(r) == Goes(r, "serving")

NextPlugin(r) ==
    replica' = [replica EXCEPT ![r].at = @ + 1,
                               ![r].pc = IF replica[r].at = Len(Order) THEN "serving" ELSE "plugin"]

\* Builtin templates come first: a slug that is there is left alone; the first
\* error ends their seed, and the plugins follow.
Start(r) ==
    /\ Is(r, "down") /\ starts < MaxStarts /\ starts' = starts + 1
    /\ \E b \in Builds :
          /\ RollsBack \/ b >= replica[r].build
          /\ replica' = [replica EXCEPT ![r] = [build |-> b, pc |-> "templates", at |-> 1]]
    /\ UNCHANGED <<version, column, installed, template, request, requests, spoilt>>

Missing(r) == {s \in Builtins[replica[r].build] : template[s].state # "live"}

FindTemplate(r) ==
    /\ Is(r, "templates")
    /\ \/ Missing(r) # {} /\ Goes(r, "template")
       \/ Goes(r, "plugin")
    /\ UNCHANGED <<version, column, installed, template, request, starts, requests, spoilt>>

\* A deleted row holds its slug: the INSERT hits the unique key.
CreateBuiltin(r) ==
    /\ Is(r, "template")
    /\ \/ /\ \E s \in Missing(r) :
                /\ template[s].state = "none"
                /\ template' = [template EXCEPT ![s] = [state |-> "live", builtin |-> TRUE, org |-> ""]]
          /\ Goes(r, "templates")
       \/ Goes(r, "plugin") /\ template' = template
    /\ UNCHANGED <<version, column, installed, request, starts, requests, spoilt>>

FindPlugin(r) ==
    /\ Is(r, "plugin")
    /\ Goes(r, IF column[Plugin(r)] = NoPlugin THEN "row" ELSE "count") \/ GivesUp(r)
    /\ UNCHANGED <<version, column, installed, template, request, starts, requests, spoilt>>

\* The slug is unique: of two replicas one fails.
CreatePlugin(r) ==
    /\ Is(r, "row")
    /\ \/ /\ column[Plugin(r)] = NoPlugin
          /\ Goes(r, "count") /\ column' = [column EXCEPT ![Plugin(r)] = Ships(r)]
       \/ GivesUp(r) /\ column' = column
    /\ UNCHANGED <<version, installed, template, request, starts, requests, spoilt>>

Known(r) == \E i \in DOMAIN version[Plugin(r)] : version[Plugin(r)][i].version = Ships(r)

\* The error of Count is ignored: a query that fails has counted none.
CountVersion(r) ==
    /\ Is(r, "count")
    /\ \/ Known(r) /\ NextPlugin(r)
       \/ Goes(r, "clear")
    /\ UNCHANGED <<version, column, installed, template, request, starts, requests, spoilt>>

\* Mutant: the flag of older versions stays.
ClearNothing(rows) == rows
Cleared(rows) == [i \in DOMAIN rows |-> [rows[i] EXCEPT !.latest = FALSE]]

\* The error of the UPDATE is ignored too.  The plugin is spoilt when the flags
\* are reset although the version is listed, for then no row takes them over,
\* and when they stay although a row will be added.
ClearLatest(r) ==
    /\ Is(r, "clear") /\ Goes(r, "version")
    /\ \/ /\ version' = [version EXCEPT ![Plugin(r)] = Cleared(@)]
          /\ spoilt' = IF Known(r) THEN spoilt \cup {Plugin(r)} ELSE spoilt \ {Plugin(r)}
       \/ /\ version' = version
          /\ spoilt' = IF Known(r) THEN spoilt ELSE spoilt \cup {Plugin(r)}
    /\ UNCHANGED <<column, installed, template, request, starts, requests>>

\* UNIQUE (plugin_id, version).
CreateVersion(r) ==
    /\ Is(r, "version")
    /\ \/ /\ ~Known(r) /\ Goes(r, "column")
          /\ version' = [version EXCEPT ![Plugin(r)] = Append(@, [version |-> Ships(r), latest |-> TRUE])]
       \/ GivesUp(r) /\ version' = version
    /\ UNCHANGED <<column, installed, template, request, starts, requests, spoilt>>

\* An error of this UPDATE is ignored as well.
SetColumn(r) ==
    /\ Is(r, "column") /\ NextPlugin(r)
    /\ column' \in {column, [column EXCEPT ![Plugin(r)] = Ships(r)]}
    /\ UNCHANGED <<version, installed, template, request, starts, requests, spoilt>>

\* The process is killed or replaced; requests it was serving are lost with it.
Stop(r) ==
    /\ ~Is(r, "down") /\ Goes(r, "down")
    /\ request' = IF \E q \in Replicas \ {r} : ~Is(q, "down") THEN request ELSE [u \in Users |-> NoRequest]
    /\ UNCHANGED <<version, column, installed, template, starts, requests, spoilt>>

-----------------------------------------------------------------------------
(* Requests                                                                *)

Serving == \E r \in Replicas : Is(r, "serving")
Asks(u) == Serving /\ request[u] = NoRequest /\ requests < MaxRequests /\ requests' = requests + 1
Answers(u, op) == request[u].op = op /\ request' = [request EXCEPT ![u] = NoRequest] /\ requests' = requests

\* GetVersionByName: a version by name, or the one whose is_latest is set.
Named(p, name) ==
    {i \in DOMAIN version[p] : IF name = "latest" THEN version[p][i].latest ELSE version[p][i].version = name}

InstallFind(u, p) ==
    /\ Asks(u) /\ column[p] # NoPlugin
    /\ \E i \in Named(p, "latest") :
          request' = [request EXCEPT ![u] = [NoRequest EXCEPT !.op = "install", !.id = p,
                                                               !.version = version[p][i].version]]
    /\ UNCHANGED <<replica, version, column, installed, template, starts, spoilt>>

InstallToOrg(u) ==
    /\ Answers(u, "install")
    /\ \E o \in Tenants : installed' = [installed EXCEPT ![<<o, request[u].id>>] = request[u].version]
    /\ UNCHANGED <<replica, version, column, template, starts, spoilt>>

Uninstall(u, p) ==
    /\ Asks(u) /\ request' = request
    /\ \E o \in Tenants : installed[<<o, p>>] # NotInstalled
                          /\ installed' = [installed EXCEPT ![<<o, p>>] = NotInstalled]
    /\ UNCHANGED <<replica, version, column, template, starts, spoilt>>

\* A slug is unique among all orgs and deleted rows.
CreateTemplate(u, s) ==
    /\ Asks(u) /\ request' = request /\ template[s].state = "none"
    /\ \E o \in Tenants : template' = [template EXCEPT ![s] = [state |-> "live", builtin |-> FALSE, org |-> o]]
    /\ UNCHANGED <<replica, version, column, installed, starts, spoilt>>

\* loadVisible, and what an org may change: its own templates.
EditTemplate(u, s) ==
    /\ Asks(u) /\ template[s].state = "live" /\ ~template[s].builtin
    /\ \E op \in {"save", "delete"} :
          request' = [request EXCEPT ![u] = [NoRequest EXCEPT !.op = op, !.id = s, !.row = template[s]]]
    /\ UNCHANGED <<replica, version, column, installed, template, starts, spoilt>>

SaveTemplate(u) ==
    /\ Answers(u, "save") /\ template' = [template EXCEPT ![request[u].id] = request[u].row]
    /\ UNCHANGED <<replica, version, column, installed, starts, spoilt>>

DeleteTemplate(u) ==
    /\ Answers(u, "delete") /\ template' = [template EXCEPT ![request[u].id].state = "deleted"]
    /\ UNCHANGED <<replica, version, column, installed, starts, spoilt>>

-----------------------------------------------------------------------------
Seeding(r) ==
    \/ Start(r) \/ FindTemplate(r) \/ CreateBuiltin(r) \/ FindPlugin(r) \/ CreatePlugin(r)
    \/ CountVersion(r) \/ ClearLatest(r) \/ CreateVersion(r) \/ SetColumn(r) \/ Stop(r)

Handling(u) ==
    \/ \E p \in Plugins : InstallFind(u, p) \/ Uninstall(u, p)
    \/ \E s \in Slugs : CreateTemplate(u, s) \/ EditTemplate(u, s)
    \/ InstallToOrg(u) \/ SaveTemplate(u) \/ DeleteTemplate(u)

CatalogNext == (\E r \in Replicas : Seeding(r)) \/ (\E u \in Users : Handling(u))

-----------------------------------------------------------------------------
LatestOf(p) == {i \in DOMAIN version[p] : version[p][i].latest}
\* Plugins the seed of r has got past, all of them when none of its statements
\* returned an error.
Passed(r) == IF Is(r, "down") THEN {} ELSE {Order[i] : i \in 1 .. replica[r].at - 1}

\* Of each plugin a seed has got past, exactly the version that was added last is
\* the latest, whatever was cut off or failed before, unless an error that the
\* code ignores has spoilt the plugin: a start that died, or whose INSERT failed,
\* between the reset of is_latest and the new row is made good by the next one.
LatestIsLast ==
    \A r \in Replicas : \A p \in Passed(r) \ spoilt : LatestOf(p) = {Len(version[p])}

\* Violated: so it is of the others.
LatestAfterErrors ==
    \A r \in Replicas : \A p \in Passed(r) : LatestOf(p) = {Len(version[p])}

\* Violated: an api serves only when its seed has got past every plugin
\* ("the start is to be aborted" on the first error).
ServesSeeded == \A r \in Replicas : Is(r, "serving") => Passed(r) = Plugins
=============================================================================
