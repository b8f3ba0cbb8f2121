----------------------------- MODULE Inventory -----------------------------
(***************************************************************************)
(* Secrets, hosts and host groups of the api.  Every handler reads rows,   *)
(* decides and writes, statement by statement and without a transaction;   *)
(* gorm's Save writes the whole row as it was read, and inserts it again   *)
(* if it has been deleted since.  Secrets are enveloped under the one KEK  *)
(* the api was started with.                                               *)
(***************************************************************************)
EXTENDS Integers, Sequences, FiniteSets

CONSTANTS
    Callers,   \* requests under way at a time
    Secrets,   \* ids of secrets
    Hosts,
    Groups,
    Orgs,
    Keks,      \* key encryption keys the api is started with
    MaxCalls   \* bound on the requests

ASSUME InventoryAssumption ==
    /\ \A S \in {Callers, Secrets, Hosts, Groups, Orgs, Keks} : IsFiniteSet(S)
    /\ Keks # {} /\ MaxCalls \in Nat

VARIABLES
    kek,       \* primary and only KEK of the vault
    secret,    \* rows: state, and the KEK of the envelope (encryption_kek_id names it too)
    host,      \* rows: state, org, credential_id, status
    group,     \* rows: state, org
    members,   \* host_group_members
    call,      \* request of each caller
    count,     \* requests so far
    \* history
    held       \* hosts that referenced the secret ever since a delete of it began

inventoryVars == <<kek, secret, host, group, members, call, count, held>>

NoSecret == [state |-> "none", kek |-> ""]
NoCredential == "none"
NoHost == [state |-> "none", org |-> "", credential |-> NoCredential, status |-> "unknown"]
NoGroup == [state |-> "none", org |-> ""]
NoCall == [op |-> "none", pc |-> "", id |-> "", row |-> NoGroup, todo |-> <<>>, at |-> 0]

States == {"none", "live", "deleted"}

InventoryTypeOK ==
    /\ \A s \in Secrets : secret[s].state \in States
    /\ \A h \in Hosts : /\ host[h].state \in States
                        /\ host[h].credential \in Secrets \cup {NoCredential}
                        /\ host[h].status \in {"unknown", "online"}
    /\ \A g \in Groups : group[g].state \in States
    /\ members \subseteq Groups \X Hosts

InventoryInit ==
    /\ kek \in Keks
    /\ secret = [s \in Secrets |-> NoSecret] /\ host = [h \in Hosts |-> NoHost]
    /\ group = [g \in Groups |-> NoGroup] /\ members = {}
    /\ call = [c \in Callers |-> NoCall] /\ count = 0 /\ held = [c \in Callers |-> {}]

-----------------------------------------------------------------------------
Begin(c, op) == call[c] = NoCall /\ count < MaxCalls /\ count' = count + 1
At(c, op, pc) == call[c].op = op /\ call[c].pc = pc /\ count' = count
Goto(c, op, pc, id, row, todo) ==
    call' = [call EXCEPT ![c] = [op |-> op, pc |-> pc, id |-> id, row |-> row, todo |-> todo, at |-> 1]]
Ends(c) == call' = [call EXCEPT ![c] = NoCall]

Live(rows) == {i \in DOMAIN rows : rows[i].state = "live"}
Unused(rows) == {i \in DOMAIN rows : rows[i].state = "none"}

\* The api is started again with another key; the requests under way are lost.
Restart ==
    /\ kek' \in Keks \ {kek} /\ count < MaxCalls /\ count' = count + 1
    /\ call' = [c \in Callers |-> NoCall]
    /\ UNCHANGED <<secret, host, group, members>>

-----------------------------------------------------------------------------
(* Secrets                                                                 *)

CreateSecret(c) ==
    /\ Begin(c, "secret") /\ call' = call
    /\ \E s \in Unused(secret) :
          secret' = [secret EXCEPT ![s] = [state |-> "live", kek |-> kek]]
    /\ UNCHANGED <<kek, host, group, members>>

\* PUT: the row is read; a new value is encrypted with the primary KEK, or only
\* the description changes; then the row is saved.
UpdateSecretRead(c) ==
    /\ Begin(c, "update")
    /\ \E s \in Live(secret) : \E row \in {secret[s], [secret[s] EXCEPT !.kek = kek]} :
          Goto(c, "update", "save", s, row, <<>>)
    /\ UNCHANGED <<kek, secret, host, group, members>>

UpdateSecretSave(c) ==
    /\ At(c, "update", "save")
    /\ secret' = [secret EXCEPT ![call[c].id] = call[c].row] /\ Ends(c)
    /\ UNCHANGED <<kek, host, group, members>>

\* loadSecretReferences: clusters never have a credential_id, hosts do.
\* Mutant: the references are those of clusters only.
ReferencesOfClusters(s) == {}
References(s) == {h \in Live(host) : host[h].credential = s}

DeleteSecretLoad(c) ==
    /\ Begin(c, "delete") /\ \E s \in Live(secret) : Goto(c, "delete", "refs", s, NoGroup, <<>>)
    /\ UNCHANGED <<kek, secret, host, group, members>>

\* The error of the query is dropped: one that fails has found no host.
DeleteSecretRefs(c) ==
    /\ At(c, "delete", "refs")
    /\ \/ References(call[c].id) # {} /\ Ends(c)
       \/ References(call[c].id) = {} /\ call' = [call EXCEPT ![c].pc = "row"]
       \/ call' = [call EXCEPT ![c].pc = "unread"]
    /\ UNCHANGED <<kek, secret, host, group, members>>

DeleteSecretRow(c) ==
    /\ At(c, "delete", "row") \/ At(c, "delete", "unread")
    /\ Ends(c)
    /\ secret' = [secret EXCEPT ![call[c].id].state = "deleted"]
    /\ UNCHANGED <<kek, host, group, members>>

-----------------------------------------------------------------------------
(* Hosts                                                                   *)

\* The foreign key wants a row of secrets, which may be a deleted one.
Credentials == {s \in Secrets : secret[s].state # "none"} \cup {NoCredential}

CreateHost(c) ==
    /\ Begin(c, "host") /\ call' = call
    /\ \E h \in Unused(host), o \in Orgs, s \in Credentials :
          host' = [host EXCEPT ![h] = [NoHost EXCEPT !.state = "live", !.org = o, !.credential = s]]
    /\ UNCHANGED <<kek, secret, group, members>>

\* PUT reads the row, changes a field or takes another credential, and saves.
EditHostRead(c) ==
    /\ Begin(c, "edit")
    /\ \E h \in Live(host) :
          \E row \in {host[h]} \cup {[host[h] EXCEPT !.credential = s] : s \in Credentials \ {NoCredential}} :
             Goto(c, "edit", "save", h, row, <<>>)
    /\ UNCHANGED <<kek, secret, host, group, members>>

\* The test saves the row it read before it probed the host.
TestHost(c) ==
    /\ Begin(c, "edit")
    /\ \E h \in Live(host) : Goto(c, "edit", "save", h, [host[h] EXCEPT !.status = "online"], <<>>)
    /\ UNCHANGED <<kek, secret, host, group, members>>

EditHostSave(c) ==
    /\ At(c, "edit", "save")
    /\ host' = [host EXCEPT ![call[c].id] = call[c].row] /\ Ends(c)
    /\ UNCHANGED <<kek, secret, group, members>>

\* Soft: the memberships stay.
DeleteHost(c) ==
    /\ Begin(c, "hostdel") /\ call' = call
    /\ \E h \in Live(host) : host' = [host EXCEPT ![h].state = "deleted"]
    /\ UNCHANGED <<kek, secret, group, members>>

\* dispatchKey: the host, then its credential, which must be there, an ssh key
\* of the org, and under the vault's key; what follows happens on the host.
DispatchHost(c) ==
    /\ Begin(c, "dispatch")
    /\ \E h \in Live(host) :
          /\ host[h].credential # NoCredential
          /\ Goto(c, "dispatch", "secret", host[h].credential, NoGroup, <<>>)
    /\ UNCHANGED <<kek, secret, host, group, members>>

DispatchSecret(c) ==
    /\ At(c, "dispatch", "secret")
    /\ \/ /\ secret[call[c].id].state = "live" /\ secret[call[c].id].kek = kek
          /\ call' = [call EXCEPT ![c].pc = "ssh"]
       \/ Ends(c)
    /\ UNCHANGED <<kek, secret, host, group, members>>

DispatchDone(c) ==
    /\ At(c, "dispatch", "ssh") /\ Ends(c)
    /\ UNCHANGED <<kek, secret, host, group, members>>

-----------------------------------------------------------------------------
(* Host groups                                                             *)

CreateGroup(c) ==
    /\ Begin(c, "group") /\ call' = call
    /\ \E g \in Unused(group), o \in Orgs :
          group' = [group EXCEPT ![g] = [state |-> "live", org |-> o]]
    /\ UNCHANGED <<kek, secret, host, members>>

\* loadOwned, for an update, a delete, new members or a member to remove.
LoadGroup(c) ==
    /\ \E g \in Live(group), op \in {"groupsave", "groupdel", "remove"} :
          Begin(c, op) /\ Goto(c, op, "write", g, group[g], <<>>)
    /\ UNCHANGED <<kek, secret, host, group, members>>

\* Rows of groups are deleted for good, with their members; Save inserts the
\* row again.
SaveGroup(c) ==
    /\ At(c, "groupsave", "write") /\ Ends(c)
    /\ group' = [group EXCEPT ![call[c].id] = call[c].row]
    /\ UNCHANGED <<kek, secret, host, members>>

DeleteGroup(c) ==
    /\ At(c, "groupdel", "write") /\ Ends(c)
    /\ group' = [group EXCEPT ![call[c].id].state = "deleted"]
    /\ members' = {m \in members : m[1] # call[c].id}
    /\ UNCHANGED <<kek, secret, host>>

RemoveMember(c) ==
    /\ At(c, "remove", "write") /\ Ends(c)
    /\ \E h \in Hosts : members' = members \ {<<call[c].id, h>>}
    /\ UNCHANGED <<kek, secret, host, group>>

\* addMembers: the group is loaded, every host checked one after the other,
\* then the members are inserted one after the other.
AddLoad(c) ==
    /\ Begin(c, "add")
    /\ \E g \in Live(group), todo \in {<<h>> : h \in Hosts} \cup {<<h, k>> : h \in Hosts, k \in Hosts} :
          Goto(c, "add", "check", g, group[g], todo)
    /\ UNCHANGED <<kek, secret, host, group, members>>

NextHost(c) == call[c].todo[call[c].at]
IsLast(c) == call[c].at = Len(call[c].todo)
\* Mutant: only the first host of the request is compared with the group's org.
PassesFirst(c) ==
    /\ host[NextHost(c)].state = "live"
    /\ call[c].at = 1 => host[NextHost(c)].org = call[c].row.org
Passes(c) == host[NextHost(c)].state = "live" /\ host[NextHost(c)].org = call[c].row.org

AddCheck(c) ==
    /\ At(c, "add", "check")
    /\ IF ~Passes(c) THEN Ends(c)
       ELSE IF IsLast(c) THEN call' = [call EXCEPT ![c].pc = "insert", ![c].at = 1]
       ELSE call' = [call EXCEPT ![c].at = @ + 1]
    /\ UNCHANGED <<kek, secret, host, group, members>>

\* The foreign keys want the rows of group and host, deleted hosts included.
AddInsert(c) ==
    /\ At(c, "add", "insert")
    /\ IF group[call[c].id].state # "live" THEN Ends(c) /\ members' = members
       ELSE /\ members' = members \cup {<<call[c].id, NextHost(c)>>}
            /\ IF IsLast(c) THEN Ends(c) ELSE call' = [call EXCEPT ![c].at = @ + 1]
    /\ UNCHANGED <<kek, secret, host, group>>

-----------------------------------------------------------------------------
SecretCall(c) ==
    \/ CreateSecret(c) \/ UpdateSecretRead(c) \/ UpdateSecretSave(c)
    \/ DeleteSecretLoad(c) \/ DeleteSecretRefs(c) \/ DeleteSecretRow(c)
HostCall(c) ==
    \/ CreateHost(c) \/ EditHostRead(c) \/ TestHost(c) \/ EditHostSave(c) \/ DeleteHost(c)
    \/ DispatchHost(c) \/ DispatchSecret(c) \/ DispatchDone(c)
GroupCall(c) ==
    \/ CreateGroup(c) \/ LoadGroup(c) \/ SaveGroup(c) \/ DeleteGroup(c) \/ RemoveMember(c)
    \/ AddLoad(c) \/ AddCheck(c) \/ AddInsert(c)

Deletes(r) == r.op = "delete"
\* The hosts a secret has had throughout a request that deletes it.
Watched ==
    held' = [c \in Callers |->
               IF ~Deletes(call'[c]) THEN {}
               ELSE {h \in IF Deletes(call[c]) THEN held[c] ELSE Hosts :
                       host'[h].state = "live" /\ host'[h].credential = call'[c].id}]

\* A statement fails: the request ends with what it has written.
Fails(c) ==
    /\ call[c] # NoCall /\ Ends(c) /\ count' = count
    /\ UNCHANGED <<kek, secret, host, group, members>>

InventoryNext ==
    /\ \/ \E c \in Callers : SecretCall(c) \/ HostCall(c) \/ GroupCall(c) \/ Fails(c)
       \/ Restart
    /\ Watched

-----------------------------------------------------------------------------
\* Members of a group are hosts of the group's org, and a group that is gone
\* has none, however checks, inserts, deletions and saves interleave.
MembersSound ==
    \A m \in members : /\ group[m[1]].state = "live"
                       /\ host[m[2]].state # "none" /\ host[m[2]].org = group[m[1]].org

Spares(c) ==
    Deletes(call[c]) /\ call'[c] # call[c] /\ held[c] # {}
    => secret'[call[c].id] = secret[call[c].id]

\* A delete of a secret that has read the references to it never takes effect
\* when one host has used the secret ever since the request began: such a host
\* loses it only to a delete whose query of the references has failed, and any
\* other one only by taking the secret between that query and the write.
UsedSecretKept ==
    [][\A c \in Callers : call[c].pc # "unread" => Spares(c)]_inventoryVars

\* Violated: a delete does not take effect while hosts reference the secret
\* ("secret is referenced by clusters or hosts"), whatever its queries return.
ReferencedSecretKept == [][\A c \in Callers : Spares(c)]_inventoryVars
=============================================================================
