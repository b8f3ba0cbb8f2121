---------------------------- MODULE PluginAction ----------------------------
(***************************************************************************)
(* What `uses: <namespace>/<name>@<version>` stands for: the action.yml of *)
(* a plugin, the reference, its resolution against the registry, the       *)
(* secrets it may ask for and the outputs its container prints.            *)
(***************************************************************************)
EXTENDS Naturals, Sequences

\* An action.yml that Action.Validate accepts; ParseActionYAML refuses others.
Valid(action) ==
    /\ action.name # ""
    /\ \/ action.using = "container" /\ action.image # ""
       \/ action.using = "composite" /\ action.steps > 0
    /\ action.permissions \subseteq {"network", "fs", "exec"}
    /\ action.types \subseteq {"", "string", "number", "bool"}

NoVersion == [id |-> 0, slug |-> "", version |-> "", latest |-> FALSE, action |-> {}]

\* The version a reference names to an org that has installed the version with
\* the id `installed` (0: none).  An installed plugin runs at its version only;
\* without one a verified official plugin may be used all the same.
Picked(plugin, versions, installed, requested) ==
    {v \in versions : v.slug = plugin.slug
                      /\ IF installed # 0 THEN v.id = installed /\ requested \in {"latest", v.version}
                         ELSE /\ plugin.official /\ plugin.verified
                              /\ IF requested = "latest" THEN v.latest ELSE v.version = requested}

\* ParseRef and SQLResolver.Resolve; NoVersion is an error.
Resolve(plugins, versions, installed, ref) ==
    LET found == UNION {Picked(p, versions, installed, ref.version) :
                        p \in {q \in plugins : q.slug = ref.slug /\ ~q.deleted}}
        newest == CHOOSE v \in found : \A w \in found : w.id <= v.id
    IN  IF ref.form # "plugin" \/ found = {} THEN NoVersion
        ELSE IF Valid(newest.action) THEN newest ELSE NoVersion

-----------------------------------------------------------------------------
\* A name is a word and the case it is written in.
ToUpper(name) == [name EXCEPT !.upper = TRUE]

\* checkSecretsAuthorized: the secrets the action needs that neither the stage's
\* secrets nor the keys of the step's with: provide.
Unauthorized(needs, secrets, with) ==
    LET named    == secrets \cup with
        provided == named \cup {ToUpper(n) : n \in named}
    IN  {n \in needs : n \notin provided /\ ToUpper(n) \notin provided}

\* ::set-output name=K::V lines of the container's output: the last one counts.
SetOutputs(lines) ==
    LET marked == {i \in DOMAIN lines : lines[i].marked /\ lines[i].name # ""}
    IN  [n \in {lines[i].name : i \in marked} |->
            lines[CHOOSE i \in marked : /\ lines[i].name = n
                                        /\ \A j \in marked : lines[j].name = n => j <= i].value]
=============================================================================
