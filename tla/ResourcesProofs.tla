--------------------------- MODULE ResourcesProofs ---------------------------
(***************************************************************************)
(* Proofs about the rows around a run: the members of host groups and the  *)
(* secrets in use (Inventory), the latest versions of plugins (Catalog)    *)
(* and the hooks of projects (Projects).  The three share no variable.     *)
(***************************************************************************)
EXTENDS Inventory, Catalog, Projects, TLAPS

-----------------------------------------------------------------------------
(* Inventory                                                               *)

SecretRec == [state : States, kek : Keks \cup {""}]
HostRec   == [state : States, org : Orgs \cup {""}, credential : Secrets \cup {NoCredential},
              status : {"unknown", "online"}]
GroupRec  == [state : States, org : Orgs \cup {""}]
CallOps   == {"none", "update", "delete", "edit", "dispatch", "groupsave", "groupdel", "remove", "add"}
CallRec   == [op : CallOps, pc : {"", "save", "refs", "row", "unread", "secret", "ssh", "write", "check", "insert"},
              id : Secrets \cup Hosts \cup Groups \cup {""},
              row : SecretRec \cup HostRec \cup GroupRec, todo : Seq(Hosts), at : Nat]

InventoryTyped ==
    /\ kek \in Keks
    /\ secret \in [Secrets -> SecretRec] /\ host \in [Hosts -> HostRec]
    /\ group \in [Groups -> GroupRec] /\ members \subseteq Groups \X Hosts
    /\ call \in [Callers -> CallRec]
    /\ held \in [Callers -> SUBSET Hosts]

\* The i-th host of a request for new members has been compared with the group.
Compared(k, i) == k.pc = "insert" \/ i < k.at

\* What a request k still relies on when it writes, h and g being the tables of
\* hosts and groups, w what it is watched for.
CallOK(k, w, h, g) ==
    /\ k.op = "update" => k.id \in Secrets /\ k.row \in SecretRec
    /\ k.op = "delete" => k.id \in Secrets
    /\ k.op = "delete" /\ k.pc = "row" => w = {}
    /\ k.op = "edit" => /\ k.id \in Hosts /\ k.row \in HostRec /\ h[k.id].state # "none"
                        /\ k.row.state = "live" /\ k.row.org = h[k.id].org
    /\ k.op \in {"groupsave", "groupdel", "remove", "add"} =>
          /\ k.id \in Groups /\ k.row \in GroupRec /\ g[k.id].state # "none"
          /\ k.row.state = "live" /\ k.row.org = g[k.id].org
    /\ k.op = "add" =>
          /\ k.at \in 1 .. Len(k.todo)
          /\ \A i \in 1 .. Len(k.todo) :
                Compared(k, i) => h[k.todo[i]].state # "none" /\ h[k.todo[i]].org = k.row.org

\* The inductive invariant.
InventoryInv ==
    /\ InventoryTyped
    /\ \A c \in Callers : CallOK(call[c], held[c], host, group)
    /\ MembersSound

\* A row of a host or a group keeps its org, and there is a row from then on.
RowsStay(h, h2, g, g2) ==
    /\ \A x \in Hosts  : h[x].state # "none" => h2[x].state # "none" /\ h2[x].org = h[x].org
    /\ \A x \in Groups : g[x].state # "none" => g2[x].state # "none" /\ g2[x].org = g[x].org

LEMMA CallStays ==
    ASSUME NEW k \in CallRec, NEW w, NEW w2 \in SUBSET w, NEW h, NEW h2, NEW g, NEW g2,
           CallOK(k, w, h, g), RowsStay(h, h2, g, g2)
    PROVE  CallOK(k, w2, h2, g2)
<1>1. k.op = "edit" => h2[k.id].state # "none" /\ k.row.org = h2[k.id].org
  BY DEF CallOK, RowsStay
<1>2. k.op \in {"groupsave", "groupdel", "remove", "add"} =>
         g2[k.id].state # "none" /\ k.row.org = g2[k.id].org
  BY DEF CallOK, RowsStay
<1>3. k.op = "add" =>
         \A i \in 1 .. Len(k.todo) :
            Compared(k, i) => h2[k.todo[i]].state # "none" /\ h2[k.todo[i]].org = k.row.org
  <2>0. k.todo \in Seq(Hosts)
    BY DEF CallRec
  <2>1. \A i \in 1 .. Len(k.todo) : k.todo[i] \in Hosts
    BY <2>0
  <2> QED  BY <2>1 DEF CallOK, RowsStay
<1> QED  BY <1>1, <1>2, <1>3 DEF CallOK

\* What the watch of a request becomes.
LEMMA WatchedHosts ==
    ASSUME InventoryTyped, call' \in [Callers -> CallRec], Watched
    PROVE  /\ held' \in [Callers -> SUBSET Hosts]
           /\ \A c \in Callers : Deletes(call[c]) => held'[c] \subseteq held[c]
           /\ \A c \in Callers : ~Deletes(call'[c]) => held'[c] = {}
           /\ \A c \in Callers : \A x \in held'[c] :
                 host'[x].state = "live" /\ host'[x].credential = call'[c].id
<1>1. \A c \in Callers :
         held'[c] = IF ~Deletes(call'[c]) THEN {}
                    ELSE {h \in IF Deletes(call[c]) THEN held[c] ELSE Hosts :
                            host'[h].state = "live" /\ host'[h].credential = call'[c].id}
  BY DEF Watched
<1>2. \A c \in Callers : held[c] \in SUBSET Hosts
  BY DEF InventoryTyped
<1>3. \A c \in Callers : held'[c] \in SUBSET Hosts
  BY <1>1, <1>2
<1>4. held' \in [Callers -> SUBSET Hosts]
  BY <1>3 DEF Watched
<1> QED  BY <1>1, <1>4


\* Whatever is not about a request leaves what it relies on as it is.
LEMMA OtherRequest ==
    ASSUME InventoryInv, call' \in [Callers -> CallRec], Watched,
           RowsStay(host, host', group, group'), NEW d \in Callers, call'[d] = call[d]
    PROVE  CallOK(call'[d], held'[d], host', group')
<1>1. CallOK(call[d], held[d], host, group) /\ call[d] \in CallRec /\ InventoryTyped
  BY DEF InventoryInv, InventoryTyped
<1>2. CASE Deletes(call[d])
  <2>1. held'[d] \in SUBSET held[d]
    BY <1>1, <1>2, WatchedHosts
  <2> QED  BY <1>1, <2>1, CallStays
<1>3. CASE ~Deletes(call[d])
  <2>1. held'[d] \in SUBSET held'[d] /\ CallOK(call[d], held'[d], host, group)
    BY <1>1, <1>3 DEF CallOK, Deletes
  <2> QED  BY <1>1, <2>1, CallStays
<1> QED  BY <1>2, <1>3

\* A step of one request.
LEMMA RequestStep ==
    ASSUME InventoryInv, NEW c \in Callers, NEW k \in CallRec, call' = [call EXCEPT ![c] = k],
           RowsStay(host, host', group, group'), Watched,
           CallOK(k, held'[c], host', group')
    PROVE  /\ call' \in [Callers -> CallRec] /\ held' \in [Callers -> SUBSET Hosts]
           /\ \A d \in Callers : CallOK(call'[d], held'[d], host', group')
<1>1. /\ call \in [Callers -> CallRec] /\ call' \in [Callers -> CallRec]
      /\ call'[c] = k /\ \A d \in Callers \ {c} : call'[d] = call[d]
  BY DEF InventoryInv, InventoryTyped
<1>2. held' \in [Callers -> SUBSET Hosts]
  BY <1>1, WatchedHosts DEF InventoryInv
<1>3. \A d \in Callers \ {c} : CallOK(call'[d], held'[d], host', group')
  BY <1>1, OtherRequest
<1> QED  BY <1>1, <1>2, <1>3

\* A step that leaves hosts, groups and members alone.
LEMMA QuietStep ==
    ASSUME InventoryInv, NEW c \in Callers, NEW k \in CallRec, call' = [call EXCEPT ![c] = k],
           UNCHANGED <<kek, host, group, members>>, secret' \in [Secrets -> SecretRec], Watched,
           CallOK(k, held'[c], host, group)
    PROVE  InventoryInv'
<1>1. RowsStay(host, host', group, group')
  BY DEF RowsStay
<1>2. CallOK(k, held'[c], host', group')
  OBVIOUS
<1>3. /\ call' \in [Callers -> CallRec] /\ held' \in [Callers -> SUBSET Hosts]
      /\ \A d \in Callers : CallOK(call'[d], held'[d], host', group')
  BY <1>1, <1>2, RequestStep
<1>4. InventoryTyped'
  BY <1>3 DEF InventoryInv, InventoryTyped
<1>5. MembersSound'
  BY DEF InventoryInv, MembersSound
<1> QED  BY <1>3, <1>4, <1>5 DEF InventoryInv

\* A request that is answered in one step.
LEMMA TableStep ==
    ASSUME InventoryInv, call' = call, RowsStay(host, host', group, group'), Watched,
           kek' = kek, secret' \in [Secrets -> SecretRec], host' \in [Hosts -> HostRec],
           group' \in [Groups -> GroupRec], members' = members,
           \A g \in Groups : group[g].state = "live" => group'[g].state = "live"
    PROVE  InventoryInv'
<1>1. call' \in [Callers -> CallRec]
  BY DEF InventoryInv, InventoryTyped
<1>2. held' \in [Callers -> SUBSET Hosts]
  BY <1>1, WatchedHosts DEF InventoryInv
<1>3. \A d \in Callers : CallOK(call'[d], held'[d], host', group')
  BY <1>1, OtherRequest
<1>4. MembersSound'
  <2>1. \A m \in members : m[1] \in Groups /\ m[2] \in Hosts
    BY DEF InventoryInv, InventoryTyped
  <2>2. \A m \in members : /\ group[m[1]].state = "live"
                           /\ host[m[2]].state # "none" /\ host[m[2]].org = group[m[1]].org
    BY DEF InventoryInv, MembersSound
  <2>3. \A m \in members : /\ group'[m[1]].state = "live" /\ group'[m[1]].org = group[m[1]].org
                           /\ host'[m[2]].state # "none" /\ host'[m[2]].org = host[m[2]].org
    BY <2>1, <2>2 DEF RowsStay
  <2> QED  BY <2>2, <2>3 DEF MembersSound
<1>5. InventoryTyped'
  BY <1>1, <1>2 DEF InventoryInv, InventoryTyped
<1> QED  BY <1>3, <1>4, <1>5 DEF InventoryInv

LEMMA NoCallOK ==
    ASSUME NEW w, NEW h, NEW g
    PROVE  NoCall \in CallRec /\ CallOK(NoCall, w, h, g)
BY DEF NoCall, NoGroup, CallRec, CallOK, CallOps, GroupRec, States

LEMMA EndsKeeps ==
    ASSUME InventoryInv, NEW c \in Callers, Ends(c), secret' \in [Secrets -> SecretRec],
           UNCHANGED <<kek, host, group, members>>, Watched
    PROVE  InventoryInv'
BY NoCallOK, QuietStep DEF Ends

\* A request that begins without hosts to look at.
LEMMA BeginOK ==
    ASSUME NEW op \in CallOps, NEW at \in {"save", "refs", "secret", "write"},
           NEW id \in Secrets \cup Hosts \cup Groups, NEW r \in SecretRec \cup HostRec \cup GroupRec
    PROVE  [op |-> op, pc |-> at, id |-> id, row |-> r, todo |-> <<>>, at |-> 1] \in CallRec
<1>1. <<>> \in Seq(Hosts) /\ 1 \in Nat
  OBVIOUS
<1> QED  BY <1>1 DEF CallRec

LEMMA SecretKeeps ==
    ASSUME InventoryInv, NEW c \in Callers, SecretCall(c), Watched
    PROVE  InventoryInv'
<1>1. /\ secret \in [Secrets -> SecretRec] /\ kek \in Keks /\ call[c] \in CallRec
      /\ host \in [Hosts -> HostRec] /\ group \in [Groups -> GroupRec]
      /\ CallOK(call[c], held[c], host, group) /\ call \in [Callers -> CallRec]
  BY DEF InventoryInv, InventoryTyped
<1>2. CASE CreateSecret(c)
  <2>1. PICK s \in Secrets : secret' = [secret EXCEPT ![s] = [state |-> "live", kek |-> kek]]
    BY <1>1, <1>2 DEF CreateSecret, Unused
  <2>2. secret' \in [Secrets -> SecretRec]
    BY <1>1, <2>1 DEF SecretRec, States
  <2>3. RowsStay(host, host', group, group') /\ UNCHANGED <<kek, call, host, group, members>>
    BY <1>2 DEF CreateSecret, RowsStay
  <2> QED  BY <1>1, <2>2, <2>3, TableStep
<1>3. CASE UpdateSecretRead(c)
  <2>1. UNCHANGED <<kek, secret, host, group, members>>
    BY <1>3 DEF UpdateSecretRead
  <2>2. PICK s \in Live(secret) : \E r \in {secret[s], [secret[s] EXCEPT !.kek = kek]} :
          Goto(c, "update", "save", s, r, <<>>)
    BY <1>3 DEF UpdateSecretRead
  <2>3. s \in Secrets
    BY <1>1, <2>2 DEF Live
  <2>4. PICK r \in {secret[s], [secret[s] EXCEPT !.kek = kek]} :
          Goto(c, "update", "save", s, r, <<>>)
    BY <2>2
  <2>5. r \in SecretRec
    BY <1>1, <2>3, <2>4 DEF SecretRec
  <2> DEFINE k == [op |-> "update", pc |-> "save", id |-> s, row |-> r, todo |-> <<>>, at |-> 1]
  <2>6. k \in CallRec /\ CallOK(k, held'[c], host, group)
    BY <2>3, <2>5, BeginOK DEF CallOps, CallOK
  <2>7. call' = [call EXCEPT ![c] = k]
    BY <2>4 DEF Goto
  <2> HIDE DEF k
  <2> QED  BY <1>1, <2>1, <2>6, <2>7, QuietStep
<1>4. CASE UpdateSecretSave(c)
  <2>1. call[c].id \in Secrets /\ call[c].row \in SecretRec
    BY <1>1, <1>4 DEF UpdateSecretSave, At, CallOK
  <2>2. secret' \in [Secrets -> SecretRec]
    BY <1>1, <1>4, <2>1 DEF UpdateSecretSave
  <2> QED  BY <1>4, <2>2, EndsKeeps DEF UpdateSecretSave
<1>5. CASE DeleteSecretLoad(c)
  <2>1. UNCHANGED <<kek, secret, host, group, members>>
    BY <1>5 DEF DeleteSecretLoad
  <2>2. PICK s \in Live(secret) : Goto(c, "delete", "refs", s, NoGroup, <<>>)
    BY <1>5 DEF DeleteSecretLoad
  <2>3. s \in Secrets
    BY <1>1, <2>2 DEF Live
  <2> DEFINE k == [op |-> "delete", pc |-> "refs", id |-> s, row |-> NoGroup, todo |-> <<>>, at |-> 1]
  <2>5. NoGroup \in GroupRec
    BY DEF NoGroup, GroupRec, States
  <2>6. k \in CallRec /\ CallOK(k, held'[c], host, group)
    BY <2>3, <2>5, BeginOK DEF CallOps, CallOK
  <2>7. call' = [call EXCEPT ![c] = k]
    BY <2>2 DEF Goto
  <2> HIDE DEF k
  <2> QED  BY <1>1, <2>1, <2>6, <2>7, QuietStep
<1>6. CASE DeleteSecretRefs(c)
  <2>1. UNCHANGED <<kek, secret, host, group, members>> /\ call[c].op = "delete"
    BY <1>6 DEF DeleteSecretRefs, At
  <2>2. CASE Ends(c)
    BY <1>1, <2>1, <2>2, EndsKeeps
  <2>3. CASE References(call[c].id) = {} /\ call' = [call EXCEPT ![c].pc = "row"]
    <3> DEFINE k == [call[c] EXCEPT !.pc = "row"]
    <3>1. k \in CallRec /\ k.op = "delete" /\ k.id = call[c].id
      BY <1>1, <2>1 DEF CallRec
    <3>2. call' = [call EXCEPT ![c] = k]
      BY <2>3
    <3>3. call'[c] = k /\ call' \in [Callers -> CallRec]
      BY <1>1, <3>1, <3>2
    <3>4. held'[c] = {}
      <4>0. /\ held' \in [Callers -> SUBSET Hosts]
            /\ \A x \in held'[c] : host'[x].state = "live" /\ host'[x].credential = call'[c].id
        BY <3>3, WatchedHosts DEF InventoryInv
      <4>1. \A x \in held'[c] : x \in Hosts /\ host[x].state = "live" /\ host[x].credential = call[c].id
        BY <2>1, <3>1, <3>3, <4>0
      <4>2. \A x \in Hosts : ~(host[x].state = "live" /\ host[x].credential = call[c].id)
        BY <1>1, <2>3 DEF References, Live
      <4> QED  BY <4>1, <4>2
    <3>5. CallOK(k, held'[c], host, group)
      BY <1>1, <2>1, <3>1, <3>4 DEF CallOK
    <3> HIDE DEF k
    <3> QED  BY <1>1, <2>1, <3>1, <3>2, <3>5, QuietStep
  <2>4. CASE call' = [call EXCEPT ![c].pc = "unread"]
    <3> DEFINE k == [call[c] EXCEPT !.pc = "unread"]
    <3>1. k \in CallRec /\ k.op = "delete" /\ k.id = call[c].id /\ k.pc = "unread"
      BY <1>1, <2>1 DEF CallRec
    <3>2. call' = [call EXCEPT ![c] = k]
      BY <2>4
    <3>3. CallOK(k, held'[c], host, group)
      BY <1>1, <2>1, <3>1 DEF CallOK
    <3> HIDE DEF k
    <3> QED  BY <1>1, <2>1, <3>1, <3>2, <3>3, QuietStep
  <2> QED  BY <1>6, <2>2, <2>3, <2>4 DEF DeleteSecretRefs
<1>7. CASE DeleteSecretRow(c)
  <2>1. call[c].id \in Secrets
    BY <1>1, <1>7 DEF DeleteSecretRow, At, CallOK
  <2>2. secret' \in [Secrets -> SecretRec]
    BY <1>1, <1>7, <2>1 DEF DeleteSecretRow, SecretRec, States
  <2> QED  BY <1>7, <2>2, EndsKeeps DEF DeleteSecretRow
<1> QED  BY <1>2, <1>3, <1>4, <1>5, <1>6, <1>7 DEF SecretCall

\* A request that has begun to edit the host h and will save r.
LEMMA EditBegins ==
    ASSUME InventoryInv, NEW c \in Callers, NEW h \in Hosts, NEW r \in HostRec,
           host[h].state = "live", r.state = "live", r.org = host[h].org,
           Goto(c, "edit", "save", h, r, <<>>),
           UNCHANGED <<kek, secret, host, group, members>>, Watched
    PROVE  InventoryInv'
<1> DEFINE k == [op |-> "edit", pc |-> "save", id |-> h, row |-> r, todo |-> <<>>, at |-> 1]
<1>1. k \in CallRec /\ CallOK(k, held'[c], host, group)
  BY BeginOK DEF CallOps, CallOK
<1>2. call' = [call EXCEPT ![c] = k] /\ secret' \in [Secrets -> SecretRec]
  BY DEF Goto, InventoryInv, InventoryTyped
<1> HIDE DEF k
<1> QED  BY <1>1, <1>2, QuietStep

LEMMA HostKeeps ==
    ASSUME InventoryInv, NEW c \in Callers, HostCall(c), Watched
    PROVE  InventoryInv'
<1>1. /\ secret \in [Secrets -> SecretRec] /\ call[c] \in CallRec
      /\ host \in [Hosts -> HostRec] /\ group \in [Groups -> GroupRec]
      /\ CallOK(call[c], held[c], host, group) /\ call \in [Callers -> CallRec]
  BY DEF InventoryInv, InventoryTyped
<1>2. CASE CreateHost(c)
  <2>1. UNCHANGED <<kek, secret, call, group, members>>
    BY <1>2 DEF CreateHost
  <2>2. PICK h \in Hosts, o \in Orgs, s \in Credentials :
           /\ host[h].state = "none"
           /\ host' = [host EXCEPT ![h] = [NoHost EXCEPT !.state = "live", !.org = o, !.credential = s]]
    BY <1>1, <1>2 DEF CreateHost, Unused
  <2>3. s \in Secrets \cup {NoCredential}
    BY <2>2 DEF Credentials
  <2>4. [NoHost EXCEPT !.state = "live", !.org = o, !.credential = s] \in HostRec
    BY <2>2, <2>3 DEF NoHost, HostRec, States
  <2>5. host' \in [Hosts -> HostRec]
    BY <1>1, <2>2, <2>4
  <2>6. RowsStay(host, host', group, group')
    BY <1>1, <2>1, <2>2 DEF RowsStay
  <2> QED  BY <1>1, <2>1, <2>5, <2>6, TableStep
<1>3. CASE EditHostRead(c)
  <2>1. UNCHANGED <<kek, secret, host, group, members>>
    BY <1>3 DEF EditHostRead
  <2>2. PICK h \in Live(host) :
           \E r \in {host[h]} \cup {[host[h] EXCEPT !.credential = s] : s \in Credentials \ {NoCredential}} :
              Goto(c, "edit", "save", h, r, <<>>)
    BY <1>3 DEF EditHostRead
  <2>3. h \in Hosts /\ host[h].state = "live" /\ host[h] \in HostRec
    BY <1>1, <2>2 DEF Live
  <2>4. PICK r \in {host[h]} \cup {[host[h] EXCEPT !.credential = s] : s \in Credentials \ {NoCredential}} :
           Goto(c, "edit", "save", h, r, <<>>)
    BY <2>2
  <2>5. r \in HostRec /\ r.state = "live" /\ r.org = host[h].org
    <3>1. CASE r = host[h]
      BY <2>3, <3>1
    <3>2. ASSUME NEW s \in Secrets, r = [host[h] EXCEPT !.credential = s]
          PROVE  r \in HostRec /\ r.state = "live" /\ r.org = host[h].org
      BY <2>3, <3>2 DEF HostRec
    <3> QED  BY <2>4, <3>1, <3>2 DEF Credentials
  <2> QED  BY <2>1, <2>3, <2>4, <2>5, EditBegins
<1>4. CASE TestHost(c)
  <2>1. UNCHANGED <<kek, secret, host, group, members>>
    BY <1>4 DEF TestHost
  <2>2. PICK h \in Live(host) : Goto(c, "edit", "save", h, [host[h] EXCEPT !.status = "online"], <<>>)
    BY <1>4 DEF TestHost
  <2>3. h \in Hosts /\ host[h].state = "live" /\ host[h] \in HostRec
    BY <1>1, <2>2 DEF Live
  <2> DEFINE r == [host[h] EXCEPT !.status = "online"]
  <2>4. r \in HostRec /\ r.state = "live" /\ r.org = host[h].org
    BY <2>3 DEF HostRec
  <2> HIDE DEF r
  <2>5. Goto(c, "edit", "save", h, r, <<>>)
    BY <2>2 DEF r
  <2> QED  BY <2>1, <2>3, <2>4, <2>5, EditBegins
<1>5. CASE EditHostSave(c)
  <2>1. /\ call[c].id \in Hosts /\ call[c].row \in HostRec /\ host[call[c].id].state # "none"
        /\ call[c].row.state = "live" /\ call[c].row.org = host[call[c].id].org
    BY <1>1, <1>5 DEF EditHostSave, At, CallOK
  <2>2. /\ host' = [host EXCEPT ![call[c].id] = call[c].row] /\ Ends(c)
        /\ UNCHANGED <<kek, secret, group, members>>
    BY <1>5 DEF EditHostSave
  <2>3. host' \in [Hosts -> HostRec] /\ RowsStay(host, host', group, group')
    BY <1>1, <2>1, <2>2 DEF RowsStay
  <2>4. /\ call' \in [Callers -> CallRec] /\ held' \in [Callers -> SUBSET Hosts]
        /\ \A d \in Callers : CallOK(call'[d], held'[d], host', group')
    BY <2>2, <2>3, NoCallOK, RequestStep DEF Ends
  <2>5. MembersSound'
    <3>1. \A m \in members : m[1] \in Groups /\ m[2] \in Hosts
      BY DEF InventoryInv, InventoryTyped
    <3>2. \A m \in members : /\ group[m[1]].state = "live"
                             /\ host[m[2]].state # "none" /\ host[m[2]].org = group[m[1]].org
      BY DEF InventoryInv, MembersSound
    <3>3. \A m \in members : host'[m[2]].state # "none" /\ host'[m[2]].org = host[m[2]].org
      BY <2>3, <3>1, <3>2 DEF RowsStay
    <3> QED  BY <2>2, <3>2, <3>3 DEF MembersSound
  <2>6. InventoryTyped'
    BY <2>2, <2>3, <2>4 DEF InventoryInv, InventoryTyped
  <2> QED  BY <2>4, <2>5, <2>6 DEF InventoryInv
<1>6. CASE DeleteHost(c)
  <2>1. UNCHANGED <<kek, secret, call, group, members>>
    BY <1>6 DEF DeleteHost
  <2>2. PICK h \in Hosts : host[h].state = "live" /\ host' = [host EXCEPT ![h].state = "deleted"]
    BY <1>1, <1>6 DEF DeleteHost, Live
  <2>3. host' \in [Hosts -> HostRec] /\ RowsStay(host, host', group, group')
    BY <1>1, <2>1, <2>2 DEF RowsStay, HostRec, States
  <2> QED  BY <1>1, <2>1, <2>3, TableStep
<1>7. CASE DispatchHost(c)
  <2>1. UNCHANGED <<kek, secret, host, group, members>>
    BY <1>7 DEF DispatchHost
  <2>2. PICK h \in Live(host) : /\ host[h].credential # NoCredential
                                /\ Goto(c, "dispatch", "secret", host[h].credential, NoGroup, <<>>)
    BY <1>7 DEF DispatchHost
  <2>3. host[h].credential \in Secrets
    BY <1>1, <2>2 DEF Live, HostRec
  <2> DEFINE k == [op |-> "dispatch", pc |-> "secret", id |-> host[h].credential, row |-> NoGroup,
                   todo |-> <<>>, at |-> 1]
  <2>4. NoGroup \in GroupRec
    BY DEF NoGroup, GroupRec, States
  <2>5. k \in CallRec /\ CallOK(k, held'[c], host, group)
    BY <2>3, <2>4, BeginOK DEF CallOps, CallOK
  <2>6. call' = [call EXCEPT ![c] = k]
    BY <2>2 DEF Goto
  <2> HIDE DEF k
  <2> QED  BY <1>1, <2>1, <2>5, <2>6, QuietStep
<1>8. CASE DispatchSecret(c)
  <2>1. UNCHANGED <<kek, secret, host, group, members>> /\ call[c].op = "dispatch"
    BY <1>8 DEF DispatchSecret, At
  <2>2. CASE Ends(c)
    BY <1>1, <2>1, <2>2, EndsKeeps
  <2>3. CASE call' = [call EXCEPT ![c].pc = "ssh"]
    <3> DEFINE k == [call[c] EXCEPT !.pc = "ssh"]
    <3>1. k \in CallRec /\ k.op = "dispatch"
      BY <1>1, <2>1 DEF CallRec
    <3>2. CallOK(k, held'[c], host, group)
      BY <3>1 DEF CallOK
    <3>3. call' = [call EXCEPT ![c] = k]
      BY <2>3
    <3> HIDE DEF k
    <3> QED  BY <1>1, <2>1, <3>1, <3>2, <3>3, QuietStep
  <2> QED  BY <1>8, <2>2, <2>3 DEF DispatchSecret
<1>9. CASE DispatchDone(c)
  BY <1>1, <1>9, EndsKeeps DEF DispatchDone
<1> QED  BY <1>2, <1>3, <1>4, <1>5, <1>6, <1>7, <1>8, <1>9 DEF HostCall

\* A request for new members has begun.
LEMMA AddBegins ==
    ASSUME InventoryInv, NEW c \in Callers, NEW g \in Groups, group[g].state = "live",
           NEW todo \in Seq(Hosts), 1 \in 1 .. Len(todo), Goto(c, "add", "check", g, group[g], todo),
           UNCHANGED <<kek, secret, host, group, members>>, Watched
    PROVE  InventoryInv'
<1> DEFINE k == [op |-> "add", pc |-> "check", id |-> g, row |-> group[g], todo |-> todo, at |-> 1]
<1>1. group[g] \in GroupRec /\ secret \in [Secrets -> SecretRec]
  BY DEF InventoryInv, InventoryTyped
<1>2. k \in CallRec
  BY <1>1 DEF CallRec, CallOps
<1>3. CallOK(k, held'[c], host, group)
  <2>1. \A i \in 1 .. Len(todo) : ~(i < 1)
    BY Len(todo) \in Nat
  <2> QED  BY <1>1, <2>1 DEF CallOK, Compared
<1>4. call' = [call EXCEPT ![c] = k]
  BY DEF Goto
<1> HIDE DEF k
<1> QED  BY <1>1, <1>2, <1>3, <1>4, QuietStep

\* A request for new members turns to its next host.
Advanced(q) == [q EXCEPT !.at = @ + 1]

LEMMA NextAt ==
    ASSUME NEW q \in CallRec
    PROVE  /\ Advanced(q) \in CallRec /\ Advanced(q).op = q.op /\ Advanced(q).pc = q.pc
           /\ Advanced(q).at = q.at + 1 /\ Advanced(q).id = q.id /\ Advanced(q).row = q.row
           /\ Advanced(q).todo = q.todo
<1>1. q.at \in Nat
  BY DEF CallRec
<1>2. q.at + 1 \in Nat
  BY <1>1
<1>3. [q EXCEPT !.at = q.at + 1] \in CallRec
  BY <1>2 DEF CallRec
<1>4. DOMAIN q = {"op", "pc", "id", "row", "todo", "at"}
  BY DEF CallRec
<1> QED  BY <1>3, <1>4 DEF Advanced

LEMMA GroupKeeps ==
    ASSUME InventoryInv, NEW c \in Callers, GroupCall(c), Watched
    PROVE  InventoryInv'
<1>1. /\ secret \in [Secrets -> SecretRec] /\ call[c] \in CallRec
      /\ host \in [Hosts -> HostRec] /\ group \in [Groups -> GroupRec]
      /\ CallOK(call[c], held[c], host, group) /\ call \in [Callers -> CallRec]
      /\ members \subseteq Groups \X Hosts
  BY DEF InventoryInv, InventoryTyped
<1>2. /\ \A m \in members : m[1] \in Groups /\ m[2] \in Hosts
      /\ \A m \in members : /\ group[m[1]].state = "live"
                            /\ host[m[2]].state # "none" /\ host[m[2]].org = group[m[1]].org
  BY <1>1 DEF InventoryInv, MembersSound
<1>3. NoGroup \in GroupRec
  BY DEF NoGroup, GroupRec, States
<1>4. CASE CreateGroup(c)
  <2>1. UNCHANGED <<kek, secret, call, host, members>>
    BY <1>4 DEF CreateGroup
  <2>2. PICK g \in Groups, o \in Orgs :
           /\ group[g].state = "none" /\ group' = [group EXCEPT ![g] = [state |-> "live", org |-> o]]
    BY <1>1, <1>4 DEF CreateGroup, Unused
  <2>3. group' \in [Groups -> GroupRec] /\ RowsStay(host, host', group, group')
    BY <1>1, <2>1, <2>2 DEF RowsStay, GroupRec, States
  <2>4. \A x \in Groups : group[x].state = "live" => group'[x].state = "live"
    BY <1>1, <2>2
  <2> QED  BY <1>1, <2>1, <2>3, <2>4, TableStep
<1>5. CASE LoadGroup(c)
  <2>1. UNCHANGED <<kek, secret, host, group, members>>
    BY <1>5 DEF LoadGroup
  <2>2. PICK g \in Live(group), op \in {"groupsave", "groupdel", "remove"} :
           Goto(c, op, "write", g, group[g], <<>>)
    BY <1>5 DEF LoadGroup
  <2>3. g \in Groups /\ group[g].state = "live" /\ group[g] \in GroupRec
    BY <1>1, <2>2 DEF Live
  <2> DEFINE k == [op |-> op, pc |-> "write", id |-> g, row |-> group[g], todo |-> <<>>, at |-> 1]
  <2>4. k \in CallRec
    BY <2>3, BeginOK DEF CallOps
  <2>5. CallOK(k, held'[c], host, group)
    BY <2>3 DEF CallOK
  <2>6. call' = [call EXCEPT ![c] = k]
    BY <2>2 DEF Goto
  <2> HIDE DEF k
  <2> QED  BY <1>1, <2>1, <2>4, <2>5, <2>6, QuietStep
<1>6. CASE SaveGroup(c)
  <2> DEFINE g == call[c].id
             r == call[c].row
  <2>1. g \in Groups /\ r \in GroupRec /\ group[g].state # "none" /\ r.state = "live" /\ r.org = group[g].org
    BY <1>1, <1>6 DEF SaveGroup, At, CallOK
  <2>2. /\ group' = [group EXCEPT ![g] = r] /\ Ends(c)
        /\ UNCHANGED <<kek, secret, host, members>>
    BY <1>6 DEF SaveGroup
  <2> HIDE DEF g, r
  <2>3. /\ group' \in [Groups -> GroupRec] /\ RowsStay(host, host', group, group')
        /\ \A x \in Groups : group[x].state = "live" => group'[x].state = "live"
    BY <1>1, <2>1, <2>2 DEF RowsStay
  <2>4. /\ call' \in [Callers -> CallRec] /\ held' \in [Callers -> SUBSET Hosts]
        /\ \A d \in Callers : CallOK(call'[d], held'[d], host', group')
    BY <2>2, <2>3, NoCallOK, RequestStep DEF Ends
  <2>5. MembersSound'
    <3>1. \A m \in members : group'[m[1]].state = "live" /\ group'[m[1]].org = group[m[1]].org
      BY <1>2, <2>3 DEF RowsStay
    <3> QED  BY <1>2, <2>2, <3>1 DEF MembersSound
  <2>6. InventoryTyped'
    BY <2>2, <2>3, <2>4 DEF InventoryInv, InventoryTyped
  <2> QED  BY <2>4, <2>5, <2>6 DEF InventoryInv
<1>7. CASE DeleteGroup(c)
  <2> DEFINE g == call[c].id
  <2>1. g \in Groups /\ group[g].state # "none"
    BY <1>1, <1>7 DEF DeleteGroup, At, CallOK
  <2>2. /\ group' = [group EXCEPT ![g].state = "deleted"] /\ Ends(c)
        /\ members' = {m \in members : m[1] # g} /\ UNCHANGED <<kek, secret, host>>
    BY <1>7 DEF DeleteGroup
  <2> HIDE DEF g
  <2>3. /\ group' \in [Groups -> GroupRec] /\ RowsStay(host, host', group, group')
        /\ \A x \in Groups \ {g} : group'[x] = group[x]
    BY <1>1, <2>1, <2>2 DEF RowsStay, GroupRec, States
  <2>4. /\ call' \in [Callers -> CallRec] /\ held' \in [Callers -> SUBSET Hosts]
        /\ \A d \in Callers : CallOK(call'[d], held'[d], host', group')
    BY <2>2, <2>3, NoCallOK, RequestStep DEF Ends
  <2>5. MembersSound'
    BY <1>2, <2>2, <2>3 DEF MembersSound
  <2>6. InventoryTyped'
    BY <1>1, <2>2, <2>3, <2>4 DEF InventoryInv, InventoryTyped
  <2> QED  BY <2>4, <2>5, <2>6 DEF InventoryInv
<1>8. CASE RemoveMember(c)
  <2>1. /\ Ends(c) /\ UNCHANGED <<kek, secret, host, group>> /\ members' \subseteq members
    BY <1>8 DEF RemoveMember
  <2>2. RowsStay(host, host', group, group')
    BY <2>1 DEF RowsStay
  <2>3. /\ call' \in [Callers -> CallRec] /\ held' \in [Callers -> SUBSET Hosts]
        /\ \A d \in Callers : CallOK(call'[d], held'[d], host', group')
    BY <2>1, <2>2, NoCallOK, RequestStep DEF Ends
  <2>4. MembersSound'
    BY <1>2, <2>1 DEF MembersSound
  <2>5. InventoryTyped'
    BY <1>1, <2>1, <2>3 DEF InventoryInv, InventoryTyped
  <2> QED  BY <2>3, <2>4, <2>5 DEF InventoryInv
<1>9. CASE AddLoad(c)
  <2>1. UNCHANGED <<kek, secret, host, group, members>>
    BY <1>9 DEF AddLoad
  <2>2. PICK g \in Live(group), todo \in {<<h>> : h \in Hosts} \cup {<<h, j>> : h \in Hosts, j \in Hosts} :
           Goto(c, "add", "check", g, group[g], todo)
    BY <1>9 DEF AddLoad
  <2>3. g \in Groups /\ group[g].state = "live" /\ group[g] \in GroupRec
    BY <1>1, <2>2 DEF Live
  <2>4. todo \in Seq(Hosts) /\ 1 \in 1 .. Len(todo) /\ Len(todo) \in Nat
    <3>1. ASSUME NEW h \in Hosts, todo = <<h>>
          PROVE  todo \in Seq(Hosts) /\ 1 \in 1 .. Len(todo) /\ Len(todo) \in Nat
      BY <3>1
    <3>2. ASSUME NEW h \in Hosts, NEW j \in Hosts, todo = <<h, j>>
          PROVE  todo \in Seq(Hosts) /\ 1 \in 1 .. Len(todo) /\ Len(todo) \in Nat
      BY <3>2
    <3> QED  BY <2>2, <3>1, <3>2
  <2> QED  BY <2>1, <2>2, <2>3, <2>4, AddBegins
<1>10. CASE AddCheck(c)
  <2> DEFINE q == call[c]
  <2>1. /\ q.op = "add" /\ q.pc = "check" /\ UNCHANGED <<kek, secret, host, group, members>>
        /\ \/ Ends(c)
           \/ Passes(c) /\ IsLast(c) /\ call' = [call EXCEPT ![c].pc = "insert", ![c].at = 1]
           \/ Passes(c) /\ ~IsLast(c) /\ call' = [call EXCEPT ![c].at = @ + 1]
    BY <1>10 DEF AddCheck, At
  <2>2. /\ q.id \in Groups /\ q.row \in GroupRec /\ group[q.id].state # "none"
        /\ q.row.state = "live" /\ q.row.org = group[q.id].org /\ q.at \in 1 .. Len(q.todo)
        /\ \A i \in 1 .. Len(q.todo) :
              i < q.at => host[q.todo[i]].state # "none" /\ host[q.todo[i]].org = q.row.org
    BY <1>1, <2>1 DEF CallOK, Compared
  <2>3. q.todo \in Seq(Hosts) /\ q.at \in Nat /\ Len(q.todo) \in Nat
    <3>1. q.todo \in Seq(Hosts) /\ q.at \in Nat
      BY <1>1 DEF CallRec
    <3> QED  BY <3>1
  <2>4. CASE Ends(c)
    BY <1>1, <2>1, <2>4, EndsKeeps
  <2>5. Passes(c) => host[q.todo[q.at]].state # "none" /\ host[q.todo[q.at]].org = q.row.org
    BY DEF Passes, NextHost
  <2>6. CASE Passes(c) /\ IsLast(c) /\ call' = [call EXCEPT ![c].pc = "insert", ![c].at = 1]
    <3> DEFINE k == [call[c] EXCEPT !.pc = "insert", !.at = 1]
    <3>1. /\ k \in CallRec /\ k.op = "add" /\ k.pc = "insert" /\ k.at = 1
          /\ k.id = q.id /\ k.row = q.row /\ k.todo = q.todo
      BY <1>1, <2>1 DEF CallRec
    <3>2. \A i \in 1 .. Len(q.todo) : i < q.at \/ i = q.at
      BY <2>3, <2>6 DEF IsLast
    <3>3. \A i \in 1 .. Len(q.todo) : host[q.todo[i]].state # "none" /\ host[q.todo[i]].org = q.row.org
      BY <2>2, <2>5, <2>6, <3>2
    <3>4. 1 \in 1 .. Len(q.todo)
      BY <2>2, <2>3
    <3>5. call' = [call EXCEPT ![c] = k]
      BY <2>6
    <3> HIDE DEF k, q
    <3>6. CallOK(k, held'[c], host, group)
      BY <2>2, <3>1, <3>3, <3>4 DEF CallOK
    <3> QED  BY <1>1, <2>1, <3>1, <3>5, <3>6, QuietStep
  <2>7. CASE Passes(c) /\ ~IsLast(c) /\ call' = [call EXCEPT ![c].at = @ + 1]
    <3> DEFINE k == Advanced(q)
    <3>1. /\ k \in CallRec /\ k.op = "add" /\ k.pc = "check" /\ k.at = q.at + 1
          /\ k.id = q.id /\ k.row = q.row /\ k.todo = q.todo
      BY <1>1, <2>1, NextAt
    <3>2. \A i \in 1 .. Len(q.todo) : i < q.at + 1 => i < q.at \/ i = q.at
      BY <2>3
    <3>3. \A i \in 1 .. Len(q.todo) :
             i < q.at + 1 => host[q.todo[i]].state # "none" /\ host[q.todo[i]].org = q.row.org
      BY <2>2, <2>5, <2>7, <3>2
    <3>4. q.at + 1 \in 1 .. Len(q.todo)
      BY <2>2, <2>3, <2>7 DEF IsLast
    <3>5. call' = [call EXCEPT ![c] = k]
      BY <2>7 DEF Advanced
    <3> HIDE DEF k, q
    <3>6. CallOK(k, held'[c], host, group)
      BY <2>2, <3>1, <3>3, <3>4 DEF CallOK, Compared
    <3> QED  BY <1>1, <2>1, <3>1, <3>5, <3>6, QuietStep
  <2> QED  BY <2>1, <2>4, <2>6, <2>7
<1>11. CASE AddInsert(c)
  <2> DEFINE q == call[c]
  <2>1. /\ q.op = "add" /\ q.pc = "insert" /\ UNCHANGED <<kek, secret, host, group>>
        /\ \/ members' = members /\ Ends(c)
           \/ /\ group[q.id].state = "live" /\ members' = members \cup {<<q.id, q.todo[q.at]>>}
              /\ Ends(c) \/ (~IsLast(c) /\ call' = [call EXCEPT ![c].at = @ + 1])
    BY <1>11 DEF AddInsert, At, NextHost
  <2>2. /\ q.id \in Groups /\ q.row \in GroupRec /\ group[q.id].state # "none"
        /\ q.row.state = "live" /\ q.row.org = group[q.id].org /\ q.at \in 1 .. Len(q.todo)
        /\ \A i \in 1 .. Len(q.todo) : host[q.todo[i]].state # "none" /\ host[q.todo[i]].org = q.row.org
    BY <1>1, <2>1 DEF CallOK, Compared
  <2>3. q.todo \in Seq(Hosts) /\ q.at \in Nat /\ Len(q.todo) \in Nat
    <3>1. q.todo \in Seq(Hosts) /\ q.at \in Nat
      BY <1>1 DEF CallRec
    <3> QED  BY <3>1
  <2>4. q.todo[q.at] \in Hosts
    BY <2>2, <2>3
  <2>5. RowsStay(host, host', group, group')
    BY <2>1 DEF RowsStay
  <2>6. /\ call' \in [Callers -> CallRec] /\ held' \in [Callers -> SUBSET Hosts]
        /\ \A d \in Callers : CallOK(call'[d], held'[d], host', group')
    <3>1. CASE Ends(c)
      BY <2>5, <3>1, NoCallOK, RequestStep DEF Ends
    <3>2. CASE ~IsLast(c) /\ call' = [call EXCEPT ![c].at = @ + 1]
      <4> DEFINE k == Advanced(q)
      <4>1. /\ k \in CallRec /\ k.op = "add" /\ k.pc = "insert" /\ k.at = q.at + 1
            /\ k.id = q.id /\ k.row = q.row /\ k.todo = q.todo
        BY <1>1, <2>1, NextAt
      <4>2. q.at + 1 \in 1 .. Len(q.todo)
        BY <2>2, <2>3, <3>2 DEF IsLast
      <4>3. call' = [call EXCEPT ![c] = k]
        BY <3>2 DEF Advanced
      <4> HIDE DEF k, q
      <4>4. CallOK(k, held'[c], host', group')
        BY <2>1, <2>2, <4>1, <4>2 DEF CallOK
      <4> QED  BY <2>5, <4>1, <4>3, <4>4, RequestStep
    <3> QED  BY <2>1, <3>1, <3>2
  <2>7. members' \subseteq Groups \X Hosts /\ MembersSound'
    <3>1. CASE members' = members
      BY <1>1, <1>2, <2>1, <3>1 DEF MembersSound
    <3>2. CASE group[q.id].state = "live" /\ members' = members \cup {<<q.id, q.todo[q.at]>>}
      <4> DEFINE n == <<q.id, q.todo[q.at]>>
      <4>1. n[1] = q.id /\ n[2] = q.todo[q.at] /\ n \in Groups \X Hosts
        BY <2>2, <2>4
      <4>2. host[n[2]].state # "none" /\ host[n[2]].org = group[n[1]].org /\ group[n[1]].state = "live"
        BY <2>2, <3>2, <4>1
      <4>3. members' = members \cup {n}
        BY <3>2
      <4> HIDE DEF n, q
      <4> QED  BY <1>1, <1>2, <2>1, <4>1, <4>2, <4>3 DEF MembersSound
    <3> QED  BY <2>1, <3>1, <3>2
  <2>8. InventoryTyped'
    BY <1>1, <2>1, <2>6, <2>7 DEF InventoryInv, InventoryTyped
  <2> QED  BY <2>6, <2>7, <2>8 DEF InventoryInv
<1> QED  BY <1>4, <1>5, <1>6, <1>7, <1>8, <1>9, <1>10, <1>11 DEF GroupCall

LEMMA RestartKeeps ==
    ASSUME InventoryInv, Restart, Watched
    PROVE  InventoryInv'
<1>1. /\ kek' \in Keks /\ call' = [c \in Callers |-> NoCall]
      /\ UNCHANGED <<secret, host, group, members>>
  BY DEF Restart
<1>2. RowsStay(host, host', group, group')
  BY <1>1 DEF RowsStay
<1>3. call' \in [Callers -> CallRec] /\ \A c \in Callers : call'[c] = NoCall
  BY <1>1, NoCallOK
<1>4. held' \in [Callers -> SUBSET Hosts]
  BY <1>3, WatchedHosts DEF InventoryInv
<1>5. \A c \in Callers : CallOK(call'[c], held'[c], host', group')
  BY <1>3, NoCallOK
<1>6. InventoryTyped'
  BY <1>1, <1>3, <1>4 DEF InventoryInv, InventoryTyped
<1>7. MembersSound'
  BY <1>1 DEF InventoryInv, MembersSound
<1> QED  BY <1>5, <1>6, <1>7 DEF InventoryInv

LEMMA FailsKeeps ==
    ASSUME InventoryInv, NEW c \in Callers, Fails(c), Watched
    PROVE  InventoryInv'
<1>1. secret' \in [Secrets -> SecretRec] /\ UNCHANGED <<kek, host, group, members>> /\ Ends(c)
  BY DEF Fails, InventoryInv, InventoryTyped
<1> QED  BY <1>1, EndsKeeps

LEMMA InventoryStutters ==
    ASSUME InventoryInv, UNCHANGED inventoryVars
    PROVE  InventoryInv'
<1>1. /\ kek' = kek /\ secret' = secret /\ host' = host /\ group' = group
      /\ members' = members /\ call' = call /\ held' = held
  BY DEF inventoryVars
<1>2. InventoryTyped'
  BY <1>1 DEF InventoryInv, InventoryTyped
<1>3. MembersSound'
  BY <1>1 DEF InventoryInv, MembersSound
<1>4. \A c \in Callers : CallOK(call'[c], held'[c], host', group')
  BY <1>1 DEF InventoryInv
<1> QED  BY <1>2, <1>3, <1>4 DEF InventoryInv

LEMMA InventoryStarts ==
    ASSUME InventoryInit
    PROVE  InventoryInv
<1>1. /\ NoSecret \in SecretRec /\ NoHost \in HostRec /\ NoGroup \in GroupRec
  BY DEF NoSecret, NoHost, NoGroup, SecretRec, HostRec, GroupRec, States, NoCredential
<1>2. InventoryTyped
  BY <1>1, NoCallOK DEF InventoryInit, InventoryTyped
<1>3. \A c \in Callers : CallOK(call[c], held[c], host, group)
  BY NoCallOK DEF InventoryInit
<1>4. MembersSound
  BY DEF InventoryInit, MembersSound
<1> QED  BY <1>2, <1>3, <1>4 DEF InventoryInv

LEMMA InventoryNextKeeps ==
    ASSUME InventoryInv, [InventoryNext]_inventoryVars
    PROVE  InventoryInv'
BY SecretKeeps, HostKeeps, GroupKeeps, FailsKeeps, RestartKeeps, InventoryStutters DEF InventoryNext

\* However the statements of the handlers interleave, with any number of
\* requests, hosts and groups: members of a group are hosts of its org, and a
\* group that is gone has no members (addMembers, DeleteHost, DeleteGroup).
THEOREM GroupsHoldOwnHosts == InventoryInit /\ [][InventoryNext]_inventoryVars => []MembersSound
<1>1. InventoryInv => MembersSound
  BY DEF InventoryInv
<1> QED  BY <1>1, InventoryStarts, InventoryNextKeeps, PTL

\* A step of another request leaves a delete that is under way as it is, and a
\* delete that has read the references writes only when the watch of it is empty.
LEMMA DeleteRespectsUse ==
    ASSUME InventoryInv, [InventoryNext]_inventoryVars
    PROVE  [\A c \in Callers : call[c].pc # "unread" => Spares(c)]_inventoryVars
<1> SUFFICES ASSUME InventoryNext, NEW c \in Callers, call[c].pc # "unread",
                    Deletes(call[c]), call'[c] # call[c], held[c] # {}
             PROVE  secret'[call[c].id] = secret[call[c].id]
  BY DEF Spares
<1>1. /\ call[c] \in CallRec /\ CallOK(call[c], held[c], host, group)
      /\ call \in [Callers -> CallRec] /\ call[c].op = "delete"
  BY DEF InventoryInv, InventoryTyped, Deletes
<1>2. call[c].pc \notin {"row", "unread"}
  BY <1>1 DEF CallOK
<1>3. ASSUME NEW d \in Callers, SecretCall(d) \/ HostCall(d) \/ GroupCall(d) \/ Fails(d)
      PROVE  secret' = secret
  <2>1. CASE d = c
    <3>0. NoCall.op = "none"
      BY DEF NoCall
    <3>1. call[d] # NoCall
      BY <1>1, <2>1, <3>0
    <3>2. SecretCall(d) => secret' = secret
      BY <1>1, <1>2, <2>1, <3>1 DEF SecretCall, Begin, At,
             CreateSecret, UpdateSecretRead, UpdateSecretSave, DeleteSecretLoad,
             DeleteSecretRefs, DeleteSecretRow
    <3>3. HostCall(d) => secret' = secret
      BY DEF HostCall, CreateHost, EditHostRead, TestHost, EditHostSave, DeleteHost, DispatchHost,
             DispatchSecret, DispatchDone
    <3>4. GroupCall(d) => secret' = secret
      BY DEF GroupCall, CreateGroup, LoadGroup, SaveGroup, DeleteGroup, RemoveMember, AddLoad, AddCheck,
             AddInsert
    <3>5. Fails(d) => secret' = secret
      BY DEF Fails
    <3> QED  BY <1>3, <3>2, <3>3, <3>4, <3>5
  <2>2. CASE d # c
    <3>1. SecretCall(d) => call'[c] = call[c]
      BY <1>1, <2>2 DEF SecretCall, Goto, Ends,
             CreateSecret, UpdateSecretRead, UpdateSecretSave, DeleteSecretLoad,
             DeleteSecretRefs, DeleteSecretRow
    <3>2. HostCall(d) => call'[c] = call[c]
      BY <1>1, <2>2 DEF HostCall, Goto, Ends,
             CreateHost, EditHostRead, TestHost, EditHostSave, DeleteHost, DispatchHost,
             DispatchSecret, DispatchDone
    <3>3. GroupCall(d) => call'[c] = call[c]
      BY <1>1, <2>2 DEF GroupCall, Goto, Ends,
             CreateGroup, LoadGroup, SaveGroup, DeleteGroup, RemoveMember, AddLoad, AddCheck,
             AddInsert
    <3>4. Fails(d) => secret' = secret
      BY DEF Fails
    <3> QED  BY <1>3, <3>1, <3>2, <3>3, <3>4
  <2> QED  BY <2>1, <2>2
<1>4. Restart => secret' = secret
  BY DEF Restart
<1> QED  BY <1>3, <1>4 DEF InventoryNext

\* A host that uses a secret from the moment a delete of it begins loses it to
\* that delete only if the query of the references failed: a query that is
\* answered (loadSecretReferences) cannot miss it, whatever the other requests
\* write between that query and the delete.
THEOREM SecretInUseStays == InventoryInit /\ [][InventoryNext]_inventoryVars => UsedSecretKept
BY InventoryStarts, InventoryNextKeeps, DeleteRespectsUse, PTL DEF UsedSecretKept

-----------------------------------------------------------------------------
(* Catalog: one process of the api at a time, whose releases go forward.   *)

Forward == \A b, c \in Builds, p \in Plugins : b <= c => Shipped[b][p] <= Shipped[c][p]

VersionRow == [version : Nat, latest : BOOLEAN]
ReplicaRec == [build : Nat, pc : SeedSteps, at : Nat \ {0}]

CatalogTyped ==
    /\ replica \in [Replicas -> ReplicaRec]
    /\ version \in [Plugins -> Seq(VersionRow)]
    /\ column \in [Plugins -> Nat] /\ spoilt \subseteq Plugins

Latest(rows) == {i \in DOMAIN rows : rows[i].latest}
Lists(rows, v) == \E i \in DOMAIN rows : rows[i].version = v

\* No version is newer than the build's.
NoneNewer(rows, v) == \A i \in DOMAIN rows : rows[i].version <= v
\* When no version is the latest, because a start was cut off or an INSERT has
\* failed, none is the build's either, so that the next start adds it.
Mendable(rows, v) ==
    \/ Latest(rows) = {Len(rows)}
    \/ Latest(rows) = {} /\ ~Lists(rows, v)
\* A plugin p the seed may leave: the version of the build is listed, and the
\* last one is the latest, p being spoilt (in sp) otherwise.
Seeded(p, rows, v, sp) == Lists(rows, v) /\ (p \in sp \/ Latest(rows) = {Len(rows)})

AtPlugin == {"plugin", "row", "count", "clear", "version", "column"}

\* Where a process with the build b is, at step pc of the seed, with its i-th plugin.
SeedPlace(b, pc, i, ver, sp) ==
    /\ pc # "down" => b \in Builds /\ i \in 1 .. Len(Order) + 1
    /\ pc \in AtPlugin => i \in 1 .. Len(Order)
    /\ pc \in {"templates", "template"} => i = 1
    /\ pc # "down" => \A j \in 1 .. Len(Order) :
                         j < i => Seeded(Order[j], ver[Order[j]], Shipped[b][Order[j]], sp)
    /\ pc = "version" => \/ Lists(ver[Order[i]], Shipped[b][Order[i]])
                         \/ Order[i] \in sp \/ Latest(ver[Order[i]]) = {}
    /\ pc = "column" => Seeded(Order[i], ver[Order[i]], Shipped[b][Order[i]], sp)

\* The rows every start of the build b can go on from; before the first start
\* there are none.
RowsOK(b, ver, sp) ==
    IF b \in Builds
    THEN \A p \in Plugins : /\ NoneNewer(ver[p], Shipped[b][p])
                            /\ p \notin sp => Mendable(ver[p], Shipped[b][p])
    ELSE sp = {} /\ \A p \in Plugins : ver[p] = <<>>

\* The inductive invariant, r being the replica.
CatalogInv(r) ==
    /\ CatalogTyped
    /\ RowsOK(replica[r].build, version, spoilt)
    /\ SeedPlace(replica[r].build, replica[r].pc, replica[r].at, version, spoilt)

LEMMA OrderTyped ==
    /\ Order \in Seq(Plugins) /\ Len(Order) \in Nat /\ 1 <= Len(Order)
    /\ \A i \in 1 .. Len(Order) : Order[i] \in Plugins
    /\ \A p \in Plugins : \E i \in 1 .. Len(Order) : p = Order[i]
<1>1. Order \in Seq(Plugins) /\ Order # <<>>
  BY CatalogAssumption
<1>2. Len(Order) \in Nat /\ DOMAIN Order = 1 .. Len(Order)
  BY <1>1
<1>3. 1 <= Len(Order)
  BY <1>1, <1>2
<1>4. \A i \in 1 .. Len(Order) : Order[i] \in Plugins
  BY <1>2 DEF Plugins
<1>5. \A p \in Plugins : \E i \in 1 .. Len(Order) : p = Order[i]
  BY <1>2 DEF Plugins
<1> QED  BY <1>1, <1>2, <1>3, <1>4, <1>5

\* What the build b ships of each plugin.
LEMMA ShippedTyped ==
    \A b \in Builds : b \in Nat /\ b # 0 /\ \A p \in Plugins : Shipped[b][p] \in Nat
<1>1. Shipped \in [Builds -> [Plugins -> Nat \ {0}]] /\ Builds \subseteq Nat \ {0}
  BY CatalogAssumption
<1> QED  BY <1>1

\* The statements about the rows of one plugin.
LEMMA ClearedRows ==
    ASSUME NEW rows \in Seq(VersionRow), NEW v \in Nat, NoneNewer(rows, v)
    PROVE  /\ Cleared(rows) \in Seq(VersionRow) /\ NoneNewer(Cleared(rows), v)
           /\ Lists(Cleared(rows), v) <=> Lists(rows, v)
           /\ Latest(Cleared(rows)) = {}
<1>1. Len(rows) \in Nat /\ DOMAIN rows = 1 .. Len(rows) /\ \A i \in 1 .. Len(rows) : rows[i] \in VersionRow
  OBVIOUS
<1>2. \A i \in 1 .. Len(rows) : /\ [rows[i] EXCEPT !.latest = FALSE] \in VersionRow
                                /\ [rows[i] EXCEPT !.latest = FALSE].version = rows[i].version
                                /\ [rows[i] EXCEPT !.latest = FALSE].latest = FALSE
  BY <1>1 DEF VersionRow
<1>3. Cleared(rows) = [i \in 1 .. Len(rows) |-> [rows[i] EXCEPT !.latest = FALSE]]
  BY <1>1 DEF Cleared
<1>4. /\ DOMAIN Cleared(rows) = 1 .. Len(rows)
      /\ \A i \in 1 .. Len(rows) : /\ Cleared(rows)[i] \in VersionRow
                                   /\ Cleared(rows)[i].version = rows[i].version
                                   /\ Cleared(rows)[i].latest = FALSE
  BY <1>2, <1>3
<1>5. Cleared(rows) \in Seq(VersionRow)
  BY <1>1, <1>3, <1>4
<1>6. Lists(Cleared(rows), v) <=> Lists(rows, v)
  BY <1>1, <1>4 DEF Lists
<1>7. Latest(Cleared(rows)) = {}
  BY <1>4 DEF Latest
<1>8. NoneNewer(Cleared(rows), v)
  BY <1>1, <1>4 DEF NoneNewer
<1> QED  BY <1>5, <1>6, <1>7, <1>8

LEMMA AppendedRows ==
    ASSUME NEW rows \in Seq(VersionRow), NEW v \in Nat, NoneNewer(rows, v)
    PROVE  LET more == Append(rows, [version |-> v, latest |-> TRUE])
           IN  /\ more \in Seq(VersionRow) /\ NoneNewer(more, v) /\ Lists(more, v)
               /\ Latest(rows) = {} => Latest(more) = {Len(more)}
<1> DEFINE n == [version |-> v, latest |-> TRUE]
           more == Append(rows, n)
<1>1. Len(rows) \in Nat /\ DOMAIN rows = 1 .. Len(rows) /\ \A i \in 1 .. Len(rows) : rows[i] \in VersionRow
  OBVIOUS
<1>2. n \in VersionRow /\ n.version = v /\ n.latest = TRUE
  BY DEF VersionRow
<1> HIDE DEF n
<1>3. /\ more \in Seq(VersionRow) /\ Len(more) = Len(rows) + 1 /\ DOMAIN more = 1 .. Len(rows) + 1
      /\ \A i \in 1 .. Len(rows) : more[i] = rows[i]
      /\ more[Len(rows) + 1] = n
  BY <1>1, <1>2
<1> HIDE DEF more
<1>4. \A i \in 1 .. Len(rows) + 1 : i \in 1 .. Len(rows) \/ i = Len(rows) + 1
  BY <1>1
<1>5. Len(rows) + 1 \in 1 .. Len(rows) + 1
  BY <1>1
<1>6. Latest(rows) = {} => Latest(more) = {Len(more)}
  BY <1>1, <1>2, <1>3, <1>4, <1>5 DEF Latest
<1>7. NoneNewer(more, v)
  BY <1>1, <1>2, <1>3, <1>4 DEF NoneNewer
<1>8. Lists(more, v)
  BY <1>2, <1>3, <1>5 DEF Lists
<1> QED  BY <1>3, <1>6, <1>7, <1>8 DEF more, n

\* A newer build finds rows it can go on from.
LEMMA NewerBuild ==
    ASSUME Forward, NEW b \in Nat, NEW c \in Builds, b <= c, CatalogTyped,
           RowsOK(b, version, spoilt)
    PROVE  RowsOK(c, version, spoilt)
<1> SUFFICES ASSUME NEW p \in Plugins
             PROVE  /\ NoneNewer(version[p], Shipped[c][p])
                    /\ p \notin spoilt => Mendable(version[p], Shipped[c][p])
  BY DEF RowsOK
<1>1. version[p] \in Seq(VersionRow) /\ Shipped[c][p] \in Nat
  BY ShippedTyped DEF CatalogTyped
<1>2. CASE b \in Builds
  <2>1. /\ NoneNewer(version[p], Shipped[b][p])
        /\ p \notin spoilt => Mendable(version[p], Shipped[b][p])
        /\ Shipped[b][p] <= Shipped[c][p] /\ Shipped[b][p] \in Nat
    BY <1>2, ShippedTyped DEF RowsOK, Forward
  <2>2. \A i \in DOMAIN version[p] : version[p][i].version \in Nat
    <3>1. \A i \in DOMAIN version[p] : version[p][i] \in VersionRow
      BY <1>1
    <3> QED  BY <3>1 DEF VersionRow
  <2>3. NoneNewer(version[p], Shipped[c][p])
    BY <1>1, <2>1, <2>2 DEF NoneNewer
  <2>4. Lists(version[p], Shipped[c][p]) => Lists(version[p], Shipped[b][p])
    BY <1>1, <2>1, <2>2 DEF NoneNewer, Lists
  <2> QED  BY <2>1, <2>3, <2>4 DEF Mendable
<1>3. CASE b \notin Builds
  <2>1. version[p] = <<>>
    BY <1>3 DEF RowsOK
  <2> QED  BY <2>1 DEF NoneNewer, Mendable, Latest, Lists
<1> QED  BY <1>2, <1>3

\* A step of the seed that leaves the rows alone and stays with its plugin.
LEMMA SeedGoes ==
    ASSUME NEW r, Replicas = {r}, CatalogInv(r), NEW pc \in SeedSteps,
           replica' = [replica EXCEPT ![r].pc = pc], version' = version, spoilt' = spoilt, column' \in [Plugins -> Nat],
           SeedPlace(replica[r].build, pc, replica[r].at, version, spoilt)
    PROVE  CatalogInv(r)'
<1>1. replica \in [Replicas -> ReplicaRec] /\ r \in Replicas
  BY DEF CatalogInv, CatalogTyped
<1>2. /\ replica' \in [Replicas -> ReplicaRec]
      /\ replica'[r].pc = pc /\ replica'[r].at = replica[r].at /\ replica'[r].build = replica[r].build
  BY <1>1 DEF ReplicaRec
<1>3. CatalogTyped'
  BY <1>2 DEF CatalogInv, CatalogTyped
<1>4. /\ RowsOK(replica'[r].build, version', spoilt')
      /\ SeedPlace(replica'[r].build, replica'[r].pc, replica'[r].at, version', spoilt')
  BY <1>2 DEF CatalogInv
<1> QED  BY <1>3, <1>4 DEF CatalogInv

\* The seed turns to its next plugin when this one is seeded.
LEMMA SeedAdvances ==
    ASSUME NEW r, Replicas = {r}, CatalogInv(r), replica[r].pc \in AtPlugin,
           Seeded(Plugin(r), version[Plugin(r)], Ships(r), spoilt), NextPlugin(r),
           version' = version, spoilt' = spoilt, column' \in [Plugins -> Nat]
    PROVE  CatalogInv(r)'
<1> DEFINE b == replica[r].build
           i == replica[r].at
           pc == IF i = Len(Order) THEN "serving" ELSE "plugin"
<1>1. replica \in [Replicas -> ReplicaRec] /\ r \in Replicas /\ replica[r] \in ReplicaRec
  BY DEF CatalogInv, CatalogTyped
<1>2. /\ b \in Builds /\ i \in 1 .. Len(Order)
      /\ \A j \in 1 .. Len(Order) : j < i => Seeded(Order[j], version[Order[j]], Shipped[b][Order[j]], spoilt)
  BY DEF CatalogInv, SeedPlace, AtPlugin
<1>3. Seeded(Order[i], version[Order[i]], Shipped[b][Order[i]], spoilt)
  BY DEF Plugin, Ships
<1>4. i + 1 \in Nat \ {0} /\ pc \in SeedSteps /\ Len(Order) \in Nat
  <2>1. Len(Order) \in Nat
    BY OrderTyped
  <2> HIDE DEF i
  <2>2. i + 1 \in Nat \ {0}
    BY <1>2, <2>1
  <2>3. pc \in SeedSteps
    BY DEF SeedSteps
  <2> QED  BY <2>1, <2>2, <2>3
<1>5. replica' = [replica EXCEPT ![r] = [@ EXCEPT !.at = i + 1, !.pc = pc]]
  BY DEF NextPlugin
<1>6. /\ replica' \in [Replicas -> ReplicaRec]
      /\ replica'[r].pc = pc /\ replica'[r].at = i + 1 /\ replica'[r].build = b
  <2>1. [replica[r] EXCEPT !.at = i + 1, !.pc = pc] \in ReplicaRec
    BY <1>1, <1>4 DEF ReplicaRec
  <2>2. /\ [replica[r] EXCEPT !.at = i + 1, !.pc = pc].pc = pc
        /\ [replica[r] EXCEPT !.at = i + 1, !.pc = pc].at = i + 1
        /\ [replica[r] EXCEPT !.at = i + 1, !.pc = pc].build = b
    BY <1>1 DEF ReplicaRec
  <2> HIDE DEF b, i, pc
  <2> QED  BY <1>1, <1>5, <2>1, <2>2
<1> HIDE DEF b, i
<1>7. \A j \in 1 .. Len(Order) : j < i + 1 => Seeded(Order[j], version[Order[j]], Shipped[b][Order[j]], spoilt)
  <2>1. \A j \in 1 .. Len(Order) : j < i + 1 => j < i \/ j = i
    <3>1. i \in Nat /\ Len(Order) \in Nat
      BY <1>2, <1>4
    <3> QED  BY <3>1
  <2> QED  BY <1>2, <1>3, <2>1
<1>8. SeedPlace(b, pc, i + 1, version, spoilt)
  <2>0. i + 1 \in 1 .. Len(Order) + 1
    BY <1>2, <1>4
  <2>1. CASE i = Len(Order)
    BY <1>2, <1>7, <2>0, <2>1 DEF SeedPlace, AtPlugin
  <2>2. CASE i # Len(Order)
    <3>1. i + 1 \in 1 .. Len(Order)
      BY <1>2, <1>4, <2>2
    <3> QED  BY <1>2, <1>7, <2>0, <2>2, <3>1 DEF SeedPlace, AtPlugin
  <2> QED  BY <2>1, <2>2
<1> HIDE DEF pc
<1>9. RowsOK(b, version, spoilt)
  BY DEF CatalogInv, b
<1>10. CatalogTyped'
  BY <1>6 DEF CatalogInv, CatalogTyped
<1> QED  BY <1>6, <1>8, <1>9, <1>10 DEF CatalogInv

\* The statements that write the rows of the plugin the seed is at; sp is what
\* is spoilt afterwards.
LEMMA SeedWrites ==
    ASSUME NEW r, Replicas = {r}, CatalogInv(r), replica[r].pc \in AtPlugin, NEW pc \in SeedSteps,
           NEW rows \in Seq(VersionRow), NEW sp \in SUBSET Plugins,
           NoneNewer(rows, Ships(r)),
           Plugin(r) \notin sp => Mendable(rows, Ships(r)),
           \A x \in Plugins : x # Plugin(r) => (x \in sp <=> x \in spoilt),
           Lists(version[Plugin(r)], Ships(r)) => Seeded(Plugin(r), rows, Ships(r), sp),
           \/ pc = "version" /\ (\/ Lists(rows, Ships(r))
                                 \/ Plugin(r) \in sp \/ Latest(rows) = {})
           \/ pc = "column" /\ Seeded(Plugin(r), rows, Ships(r), sp),
           replica' = [replica EXCEPT ![r].pc = pc], spoilt' = sp,
           version' = [version EXCEPT ![Plugin(r)] = rows], column' = column
    PROVE  CatalogInv(r)'
<1> DEFINE b == replica[r].build
           i == replica[r].at
           p == Order[i]
<1>1. /\ replica \in [Replicas -> ReplicaRec] /\ r \in Replicas
      /\ version \in [Plugins -> Seq(VersionRow)] /\ column \in [Plugins -> Nat]
  BY DEF CatalogInv, CatalogTyped
<1>2. /\ b \in Builds /\ i \in 1 .. Len(Order) /\ i \in 1 .. Len(Order) + 1
      /\ \A j \in 1 .. Len(Order) :
            j < i => Seeded(Order[j], version[Order[j]], Shipped[b][Order[j]], spoilt)
  BY DEF CatalogInv, SeedPlace, AtPlugin
<1>2a. \A x \in Plugins : /\ NoneNewer(version[x], Shipped[b][x])
                          /\ x \notin spoilt => Mendable(version[x], Shipped[b][x])
  BY <1>2 DEF CatalogInv, RowsOK
<1>3. p \in Plugins
  BY <1>2, OrderTyped
<1>4. Ships(r) = Shipped[b][p] /\ Plugin(r) = p
  BY DEF Plugin, Ships
<1>5. /\ replica' \in [Replicas -> ReplicaRec]
      /\ replica'[r].pc = pc /\ replica'[r].at = i /\ replica'[r].build = b
  BY <1>1 DEF ReplicaRec
<1> HIDE DEF b, i
<1> HIDE DEF p
<1>6. /\ version' \in [Plugins -> Seq(VersionRow)] /\ version'[p] = rows
      /\ \A x \in Plugins : x # p => version'[x] = version[x]
  BY <1>1, <1>3, <1>4
<1>7. \A x \in Plugins : /\ NoneNewer(version'[x], Shipped[b][x])
                         /\ x \notin sp => Mendable(version'[x], Shipped[b][x])
  <2> SUFFICES ASSUME NEW x \in Plugins
               PROVE  /\ NoneNewer(version'[x], Shipped[b][x])
                      /\ x \notin sp => Mendable(version'[x], Shipped[b][x])
    OBVIOUS
  <2>1. CASE x = p
    BY <1>4, <1>6, <2>1
  <2>2. CASE x # p
    <3>1. version'[x] = version[x] /\ (x \in sp <=> x \in spoilt)
      BY <1>4, <1>6, <2>2
    <3>2. /\ NoneNewer(version[x], Shipped[b][x])
          /\ x \notin spoilt => Mendable(version[x], Shipped[b][x])
      BY <1>2a
    <3> QED  BY <3>1, <3>2
  <2> QED  BY <2>1, <2>2
<1>8. \A x \in Plugins : Seeded(x, version[x], Shipped[b][x], spoilt)
                         => Seeded(x, version'[x], Shipped[b][x], sp)
  BY <1>4, <1>6 DEF Seeded
<1>9. \A j \in 1 .. Len(Order) :
         j < i => Seeded(Order[j], version'[Order[j]], Shipped[b][Order[j]], sp)
  BY <1>2, <1>8, OrderTyped
<1>10. SeedPlace(b, pc, i, version', sp)
  BY <1>2, <1>4, <1>6, <1>9 DEF SeedPlace, AtPlugin, p
<1>11. RowsOK(b, version', sp)
  BY <1>2, <1>7 DEF RowsOK
<1>12. CatalogTyped'
  BY <1>1, <1>5, <1>6 DEF CatalogTyped
<1> QED  BY <1>5, <1>10, <1>11, <1>12 DEF CatalogInv

LEMMA SeedingKeeps ==
    ASSUME NEW r, Replicas = {r}, ~RollsBack, Forward, CatalogInv(r), Seeding(r)
    PROVE  CatalogInv(r)'
<1> DEFINE b == replica[r].build
           i == replica[r].at
           p == Order[i]
<1>1. /\ replica \in [Replicas -> ReplicaRec] /\ r \in Replicas /\ replica[r] \in ReplicaRec
      /\ version \in [Plugins -> Seq(VersionRow)] /\ column \in [Plugins -> Nat]
      /\ RowsOK(b, version, spoilt) /\ SeedPlace(b, replica[r].pc, i, version, spoilt)
      /\ spoilt \subseteq Plugins
  BY DEF CatalogInv, CatalogTyped
<1>2. Ships(r) = Shipped[b][p] /\ Plugin(r) = p
  BY DEF Plugin, Ships
<1>3. ASSUME replica[r].pc \in AtPlugin
      PROVE  /\ b \in Builds /\ i \in 1 .. Len(Order) /\ p \in Plugins /\ Shipped[b][p] \in Nat
             /\ version[p] \in Seq(VersionRow) /\ NoneNewer(version[p], Shipped[b][p])
             /\ p \notin spoilt => Mendable(version[p], Shipped[b][p])
  <2>1. b \in Builds /\ i \in 1 .. Len(Order)
    BY <1>1, <1>3 DEF SeedPlace, AtPlugin
  <2>2. p \in Plugins /\ Shipped[b][p] \in Nat
    BY <2>1, OrderTyped, ShippedTyped
  <2> QED  BY <1>1, <2>1, <2>2 DEF RowsOK
<1>4. CASE Start(r)
  <2>1. PICK c \in Builds : /\ RollsBack \/ c >= b
                            /\ replica' = [replica EXCEPT ![r] = [build |-> c, pc |-> "templates", at |-> 1]]
    BY <1>4 DEF Start
  <2>2. b \in Nat /\ c \in Nat /\ b <= c
    BY <1>1, <2>1, ShippedTyped DEF ReplicaRec
  <2>3. version' = version /\ column' = column /\ spoilt' = spoilt
    BY <1>4 DEF Start
  <2>4. [build |-> c, pc |-> "templates", at |-> 1] \in ReplicaRec
    BY <2>2 DEF ReplicaRec, SeedSteps
  <2>5. /\ replica' \in [Replicas -> ReplicaRec]
        /\ replica'[r].build = c /\ replica'[r].pc = "templates" /\ replica'[r].at = 1
    BY <1>1, <2>1, <2>4
  <2>6. RowsOK(c, version, spoilt)
    BY <1>1, <2>2, NewerBuild DEF CatalogInv
  <2>7. 1 \in 1 .. Len(Order) + 1 /\ \A j \in 1 .. Len(Order) : ~(j < 1)
    BY OrderTyped
  <2>8. SeedPlace(c, "templates", 1, version, spoilt)
    BY <2>7 DEF SeedPlace, AtPlugin
  <2>9. CatalogTyped'
    BY <1>1, <2>3, <2>5 DEF CatalogTyped
  <2> QED  BY <2>3, <2>5, <2>6, <2>8, <2>9 DEF CatalogInv
<1>0. replica[r].pc # "down" => SeedPlace(b, "serving", i, version, spoilt)
  BY <1>1 DEF SeedPlace, AtPlugin
<1>5. CASE FindTemplate(r) \/ CreateBuiltin(r)
  <2>1. PICK pc \in {"templates", "template", "plugin"} : Goes(r, pc)
    BY <1>5 DEF FindTemplate, CreateBuiltin
  <2>2. /\ version' = version /\ column' = column /\ spoilt' = spoilt
        /\ replica[r].pc \in {"templates", "template"}
    BY <1>5 DEF FindTemplate, CreateBuiltin, Is
  <2>3. 1 \in 1 .. Len(Order)
    BY OrderTyped
  <2>4. SeedPlace(b, pc, i, version, spoilt)
    BY <1>1, <2>1, <2>2, <2>3 DEF SeedPlace, AtPlugin
  <2> QED  BY <1>1, <2>1, <2>2, <2>4, SeedGoes DEF Goes, SeedSteps
<1>6. CASE FindPlugin(r)
  <2>1. /\ replica[r].pc = "plugin" /\ version' = version /\ column' = column /\ spoilt' = spoilt
        /\ Goes(r, "row") \/ Goes(r, "count") \/ Goes(r, "serving")
    BY <1>6 DEF FindPlugin, GivesUp, Is
  <2>2. SeedPlace(b, "row", i, version, spoilt) /\ SeedPlace(b, "count", i, version, spoilt)
    BY <1>1, <2>1 DEF SeedPlace, AtPlugin
  <2> QED  BY <1>0, <1>1, <2>1, <2>2, SeedGoes DEF Goes, SeedSteps
<1>7. CASE CreatePlugin(r)
  <2>1. replica[r].pc = "row" /\ version' = version /\ spoilt' = spoilt
    BY <1>7 DEF CreatePlugin, Is
  <2>2. \/ Goes(r, "count") /\ column' = [column EXCEPT ![p] = Shipped[b][p]]
        \/ Goes(r, "serving") /\ column' = column
    BY <1>2, <1>7 DEF CreatePlugin, GivesUp
  <2>3. column' \in [Plugins -> Nat]
    BY <1>1, <1>3, <2>1, <2>2 DEF AtPlugin
  <2>4. SeedPlace(b, "count", i, version, spoilt)
    BY <1>1, <2>1 DEF SeedPlace, AtPlugin
  <2> QED  BY <1>0, <1>1, <2>1, <2>2, <2>3, <2>4, SeedGoes DEF Goes, SeedSteps
<1>8. CASE CountVersion(r)
  <2>1. replica[r].pc = "count" /\ version' = version /\ column' = column /\ spoilt' = spoilt
    BY <1>8 DEF CountVersion, Is
  <2>2. Known(r) <=> Lists(version[p], Shipped[b][p])
    BY <1>2 DEF Known, Lists
  <2>3. CASE Known(r) /\ NextPlugin(r)
    <3>1. Seeded(p, version[p], Shipped[b][p], spoilt)
      BY <1>3, <2>1, <2>2, <2>3 DEF Mendable, Seeded, AtPlugin
    <3>2. replica[r].pc \in AtPlugin
      BY <2>1 DEF AtPlugin
    <3> QED  BY <1>1, <1>2, <2>1, <2>3, <3>1, <3>2, SeedAdvances
  <2>4. CASE Goes(r, "clear")
    <3>1. SeedPlace(b, "clear", i, version, spoilt)
      BY <1>1, <2>1 DEF SeedPlace, AtPlugin
    <3> QED  BY <1>1, <2>1, <2>4, <3>1, SeedGoes DEF Goes, SeedSteps
  <2> QED  BY <1>8, <2>3, <2>4 DEF CountVersion
<1>9. CASE ClearLatest(r)
  <2> DEFINE v == Shipped[b][p]
  <2>1. /\ replica[r].pc = "clear" /\ Goes(r, "version") /\ column' = column
        /\ replica[r].pc \in AtPlugin
    BY <1>9 DEF ClearLatest, Is, AtPlugin
  <2>2. Known(r) <=> Lists(version[p], v)
    BY <1>2 DEF Known, Lists
  <2>3. /\ Cleared(version[p]) \in Seq(VersionRow) /\ NoneNewer(Cleared(version[p]), v)
        /\ Lists(Cleared(version[p]), v) <=> Lists(version[p], v)
        /\ Latest(Cleared(version[p])) = {}
    BY <1>3, <2>1, ClearedRows
  <2>4. p \in Plugins /\ version[p] \in Seq(VersionRow) /\ NoneNewer(version[p], v)
    BY <1>3, <2>1
  <2>5. /\ spoilt \cup {p} \in SUBSET Plugins /\ spoilt \ {p} \in SUBSET Plugins
        /\ \A x \in Plugins : x # p => /\ x \in spoilt \cup {p} <=> x \in spoilt
                                       /\ x \in spoilt \ {p} <=> x \in spoilt
    BY <1>1, <2>4
  <2>6. CASE Lists(version[p], v) /\ version' = [version EXCEPT ![p] = Cleared(version[p])]
             /\ spoilt' = spoilt \cup {p}
    <3>1. Seeded(p, Cleared(version[p]), v, spoilt \cup {p})
      BY <2>3, <2>6 DEF Seeded
    <3> HIDE DEF b, i, v
    <3> QED  BY <1>2, <2>1, <2>3, <2>5, <2>6, <3>1, SeedWrites DEF Goes, SeedSteps, v
  <2>7. CASE ~Lists(version[p], v) /\ version' = [version EXCEPT ![p] = Cleared(version[p])]
             /\ spoilt' = spoilt \ {p}
    <3>1. Mendable(Cleared(version[p]), v)
      BY <2>3, <2>7 DEF Mendable
    <3> HIDE DEF b, i, v
    <3> QED  BY <1>2, <2>1, <2>3, <2>5, <2>7, <3>1, SeedWrites DEF Goes, SeedSteps, v
  <2>8. CASE Lists(version[p], v) /\ version' = version /\ spoilt' = spoilt
    <3>1. SeedPlace(b, "version", i, version, spoilt)
      BY <1>1, <2>1, <2>8 DEF SeedPlace, AtPlugin
    <3> QED  BY <1>1, <2>1, <2>8, <3>1, SeedGoes DEF Goes, SeedSteps
  <2>9. CASE ~Lists(version[p], v) /\ version' = version /\ spoilt' = spoilt \cup {p}
    <3>1. version' = [version EXCEPT ![p] = version[p]]
      BY <1>1, <2>4, <2>9
    <3> HIDE DEF b, i, v
    <3> QED  BY <1>2, <2>1, <2>4, <2>5, <2>9, <3>1, SeedWrites DEF Goes, SeedSteps, v
  <2> QED  BY <1>2, <1>9, <2>2, <2>6, <2>7, <2>8, <2>9 DEF ClearLatest
<1>10. CASE CreateVersion(r)
  <2> DEFINE rows == Append(version[p], [version |-> Shipped[b][p], latest |-> TRUE])
  <2>1. replica[r].pc = "version" /\ column' = column /\ spoilt' = spoilt /\ replica[r].pc \in AtPlugin
    BY <1>10 DEF CreateVersion, Is, AtPlugin
  <2>2. CASE ~Known(r) /\ Goes(r, "column") /\ version' = [version EXCEPT ![p] = rows]
    <3>1. ~Lists(version[p], Shipped[b][p])
      BY <1>2, <2>2 DEF Known, Lists
    <3>2. p \in spoilt \/ Latest(version[p]) = {}
      BY <1>1, <2>1, <3>1 DEF SeedPlace
    <3>3. /\ rows \in Seq(VersionRow) /\ NoneNewer(rows, Shipped[b][p]) /\ Lists(rows, Shipped[b][p])
          /\ Latest(version[p]) = {} => Latest(rows) = {Len(rows)}
      BY <1>3, <2>1, AppendedRows
    <3> HIDE DEF rows
    <3>4. /\ Seeded(p, rows, Shipped[b][p], spoilt)
          /\ p \notin spoilt => Mendable(rows, Shipped[b][p])
      BY <3>2, <3>3 DEF Seeded, Mendable
    <3>5. spoilt \in SUBSET Plugins
      BY <1>1
    <3> HIDE DEF b, i
    <3> QED  BY <1>2, <2>1, <2>2, <3>3, <3>4, <3>5, SeedWrites DEF Goes, SeedSteps
  <2>3. CASE Goes(r, "serving") /\ version' = version
    BY <1>0, <1>1, <2>1, <2>3, SeedGoes DEF Goes, SeedSteps
  <2> QED  BY <1>2, <1>10, <2>2, <2>3 DEF CreateVersion, GivesUp
<1>11. CASE SetColumn(r)
  <2>1. /\ replica[r].pc = "column" /\ NextPlugin(r) /\ version' = version /\ spoilt' = spoilt
        /\ column' \in {column, [column EXCEPT ![p] = Shipped[b][p]]}
    BY <1>2, <1>11 DEF SetColumn, Is
  <2>2. column' \in [Plugins -> Nat]
    BY <1>1, <1>3, <2>1 DEF AtPlugin
  <2>3. Seeded(p, version[p], Shipped[b][p], spoilt) /\ replica[r].pc \in AtPlugin
    BY <1>1, <2>1 DEF SeedPlace, AtPlugin
  <2> HIDE DEF b, i
  <2> QED  BY <1>2, <2>1, <2>2, <2>3, SeedAdvances
<1>12. CASE Stop(r)
  <2>1. Goes(r, "down") /\ version' = version /\ column' = column /\ spoilt' = spoilt
    BY <1>12 DEF Stop
  <2>2. SeedPlace(b, "down", i, version, spoilt)
    BY DEF SeedPlace, AtPlugin
  <2> QED  BY <1>1, <2>1, <2>2, SeedGoes DEF Goes, SeedSteps
<1> QED  BY <1>4, <1>5, <1>6, <1>7, <1>8, <1>9, <1>10, <1>11, <1>12 DEF Seeding

\* Requests of users leave plugins, versions and the seeds alone.
LEMMA HandlingKeeps ==
    ASSUME NEW r, CatalogInv(r),
           UNCHANGED <<replica, version, column, spoilt>>
    PROVE  CatalogInv(r)'
<1>1. CatalogTyped'
  BY DEF CatalogInv, CatalogTyped
<1> QED  BY <1>1 DEF CatalogInv

LEMMA CatalogNextKeeps ==
    ASSUME NEW r, Replicas = {r}, ~RollsBack, Forward, CatalogInv(r), [CatalogNext]_catalogVars
    PROVE  CatalogInv(r)'
<1>1. \A u : Handling(u) => UNCHANGED <<replica, version, column, spoilt>>
  BY DEF Handling, InstallFind, InstallToOrg, Uninstall, CreateTemplate, EditTemplate,
         SaveTemplate, DeleteTemplate
<1>2. UNCHANGED catalogVars => UNCHANGED <<replica, version, column, spoilt>>
  BY DEF catalogVars
<1> QED  BY <1>1, <1>2, SeedingKeeps, HandlingKeeps DEF CatalogNext

LEMMA CatalogStarts ==
    ASSUME NEW r, Replicas = {r}, CatalogInit
    PROVE  CatalogInv(r)
<1>1. /\ replica[r] = [build |-> 0, pc |-> "down", at |-> 1] /\ replica \in [Replicas -> ReplicaRec]
      /\ spoilt = {} /\ version = [p \in Plugins |-> <<>>] /\ column = [p \in Plugins |-> NoPlugin]
  BY DEF CatalogInit, ReplicaRec, SeedSteps
<1>2. <<>> \in Seq(VersionRow) /\ NoPlugin \in Nat
  BY DEF NoPlugin
<1>3. version \in [Plugins -> Seq(VersionRow)] /\ column \in [Plugins -> Nat]
  BY <1>1, <1>2
<1>4. 0 \notin Builds
  BY ShippedTyped
<1>5. RowsOK(replica[r].build, version, spoilt)
  BY <1>1, <1>4 DEF RowsOK
<1>6. SeedPlace(replica[r].build, replica[r].pc, replica[r].at, version, spoilt)
  BY <1>1 DEF SeedPlace, AtPlugin
<1> QED  BY <1>1, <1>3, <1>5, <1>6 DEF CatalogInv, CatalogTyped

\* On one process whose releases go forward, the version of each plugin that was
\* added last is the latest, and no other, once the seed has got past the plugin,
\* wherever earlier starts were cut off or ended by an error (SeedOfficial), and
\* whatever is installed meanwhile; but for the plugins that an error the code
\* ignores (of Count or of the reset) has spoilt since their flags were last reset.
THEOREM SeedRepairsLatest ==
    ASSUME NEW r, Replicas = {r}, ~RollsBack, Forward
    PROVE  CatalogInit /\ [][CatalogNext]_catalogVars => []LatestIsLast
<1>1. CatalogInit => CatalogInv(r)
  BY CatalogStarts
<1>2. CatalogInv(r) /\ [CatalogNext]_catalogVars => CatalogInv(r)'
  BY CatalogNextKeeps
<1>3. CatalogInv(r) => LatestIsLast
  <2> SUFFICES ASSUME CatalogInv(r), NEW p \in Passed(r), p \notin spoilt
               PROVE  LatestOf(p) = {Len(version[p])}
    BY DEF LatestIsLast
  <2>1. /\ replica[r].pc # "down" /\ replica[r].at \in 1 .. Len(Order) + 1
        /\ \A j \in 1 .. Len(Order) : j < replica[r].at =>
              Seeded(Order[j], version[Order[j]], Shipped[replica[r].build][Order[j]], spoilt)
    BY DEF CatalogInv, SeedPlace, Passed, Is
  <2>2. PICK j \in 1 .. replica[r].at - 1 : p = Order[j]
    BY <2>1 DEF Passed, Is
  <2>3. j \in 1 .. Len(Order) /\ j < replica[r].at
    BY <2>1, <2>2, OrderTyped
  <2> QED  BY <2>1, <2>2, <2>3 DEF Seeded, Latest, LatestOf
<1> QED  BY <1>1, <1>2, <1>3, PTL

-----------------------------------------------------------------------------
(* Projects                                                                *)

TaskSteps == {"none", "queued", "call", "merge", "error", "return", "done", "archived"}
HookRec   == [project : Ids, secret : Nat]
ConfigRec == [hook : Nat, secret : Nat, error : BOOLEAN]
TaskRec   == [pc : TaskSteps, retried : Nat, secret : Nat, hook : Nat, skip : BOOLEAN, late : BOOLEAN]

ProjectsTyped ==
    /\ hooks \in Seq(HookRec) /\ drawn \in Nat
    /\ config \in [Ids -> ConfigRec] /\ task \in [Ids -> TaskRec]
    /\ edit \in [Ids -> ConfigRec \cup {NoEdit}]

\* A hook h of hs belongs to p and signs with s.
Signs(hs, h, p, s) == h \in 1 .. Len(hs) /\ hs[h].project = p /\ hs[h].secret = s

\* A config of p, stored or read for a PATCH: it names a hook with its secret,
\* or neither; with a development secret there is no other.
ConfigOK(k, p, hs, dev) ==
    /\ k.hook = None <=> k.secret = None
    /\ k.hook # None => Signs(hs, k.hook, p, k.secret)
    /\ dev => k.secret \in {None, Dev}

EditOK(k, p, hs, dev) == k # NoEdit => ConfigOK(k, p, hs, dev)

\* An attempt of p's task that may still create or merge a hook.
TaskOK(t, p, hs, dev) ==
    /\ t.pc \in {"call", "merge"} => t.secret # None /\ (dev => t.secret = Dev)
    /\ t.pc = "merge" => Signs(hs, t.hook, p, t.secret)

DevSigns(hs, dev) == dev => \A i \in 1 .. Len(hs) : hs[i].secret = Dev

\* The inductive invariant.
ProjectsInv ==
    /\ ProjectsTyped
    /\ DevSigns(hooks, env.dev)
    /\ \A p \in Ids : /\ ConfigOK(config[p], p, hooks, env.dev)
                      /\ EditOK(edit[p], p, hooks, env.dev)
                      /\ TaskOK(task[p], p, hooks, env.dev)

\* GitHub keeps the hooks it has.
Grown(hs, more) ==
    /\ Len(hs) \in Nat /\ Len(more) \in Nat /\ Len(hs) <= Len(more)
    /\ \A i \in 1 .. Len(hs) : more[i] = hs[i]

LEMMA SignsStays ==
    ASSUME NEW hs, NEW more, Grown(hs, more), NEW h, NEW p, NEW s, Signs(hs, h, p, s)
    PROVE  Signs(more, h, p, s)
<1>1. h \in 1 .. Len(more)
  BY DEF Signs, Grown
<1>2. more[h] = hs[h]
  BY DEF Signs, Grown
<1> QED  BY <1>1, <1>2 DEF Signs

LEMMA GrownKeeps ==
    ASSUME NEW hs, NEW more, Grown(hs, more), NEW p, NEW dev
    PROVE  /\ \A k : ConfigOK(k, p, hs, dev) => ConfigOK(k, p, more, dev)
           /\ \A k : EditOK(k, p, hs, dev) => EditOK(k, p, more, dev)
           /\ \A t : TaskOK(t, p, hs, dev) => TaskOK(t, p, more, dev)
<1>1. \A k : ConfigOK(k, p, hs, dev) => ConfigOK(k, p, more, dev)
  BY SignsStays DEF ConfigOK
<1>2. \A t : TaskOK(t, p, hs, dev) => TaskOK(t, p, more, dev)
  BY SignsStays DEF TaskOK
<1> QED  BY <1>1, <1>2 DEF EditOK

\* A step about the project p: its config becomes k, the PATCH under way e, its
\* task t.
LEMMA ProjectStep ==
    ASSUME ProjectsInv, NEW p \in Ids, NEW k \in ConfigRec, NEW e \in ConfigRec \cup {NoEdit}, NEW t \in TaskRec,
           config' = [config EXCEPT ![p] = k], edit' = [edit EXCEPT ![p] = e],
           task' = [task EXCEPT ![p] = t], env' = env, drawn' \in Nat,
           hooks' \in Seq(HookRec), Grown(hooks, hooks'), DevSigns(hooks', env.dev),
           ConfigOK(k, p, hooks', env.dev), EditOK(e, p, hooks', env.dev), TaskOK(t, p, hooks', env.dev)
    PROVE  ProjectsInv'
<1>1. /\ config \in [Ids -> ConfigRec] /\ task \in [Ids -> TaskRec]
      /\ edit \in [Ids -> ConfigRec \cup {NoEdit}]
  BY DEF ProjectsInv, ProjectsTyped
<1>2. /\ config' \in [Ids -> ConfigRec] /\ config'[p] = k
      /\ \A q \in Ids : q # p => config'[q] = config[q]
  BY <1>1
<1>3. /\ task' \in [Ids -> TaskRec] /\ task'[p] = t
      /\ \A q \in Ids : q # p => task'[q] = task[q]
  BY <1>1
<1>4. /\ edit' \in [Ids -> ConfigRec \cup {NoEdit}] /\ edit'[p] = e
      /\ \A q \in Ids : q # p => edit'[q] = edit[q]
  BY <1>1
<1>5. ProjectsTyped'
  BY <1>2, <1>3, <1>4 DEF ProjectsTyped
<1>6. \A q \in Ids : q # p => /\ ConfigOK(config[q], q, hooks', env.dev)
                              /\ EditOK(edit[q], q, hooks', env.dev)
                              /\ TaskOK(task[q], q, hooks', env.dev)
  BY GrownKeeps DEF ProjectsInv
<1>7. \A q \in Ids : /\ ConfigOK(config'[q], q, hooks', env.dev)
                     /\ EditOK(edit'[q], q, hooks', env.dev)
                     /\ TaskOK(task'[q], q, hooks', env.dev)
  BY <1>2, <1>3, <1>4, <1>6
<1> QED  BY <1>5, <1>7 DEF ProjectsInv

\* What the invariant says about one project.
LEMMA ProjectHas ==
    ASSUME ProjectsInv, NEW p \in Ids
    PROVE  /\ config[p] \in ConfigRec /\ edit[p] \in ConfigRec \cup {NoEdit} /\ task[p] \in TaskRec
           /\ config = [config EXCEPT ![p] = config[p]] /\ edit = [edit EXCEPT ![p] = edit[p]]
           /\ task = [task EXCEPT ![p] = task[p]]
           /\ ConfigOK(config[p], p, hooks, env.dev) /\ EditOK(edit[p], p, hooks, env.dev)
           /\ TaskOK(task[p], p, hooks, env.dev)
           /\ hooks \in Seq(HookRec) /\ drawn \in Nat /\ DevSigns(hooks, env.dev)
           /\ Grown(hooks, hooks) /\ Len(hooks) \in Nat
<1>1. /\ config \in [Ids -> ConfigRec] /\ task \in [Ids -> TaskRec]
      /\ edit \in [Ids -> ConfigRec \cup {NoEdit}] /\ hooks \in Seq(HookRec) /\ drawn \in Nat
  BY DEF ProjectsInv, ProjectsTyped
<1>2. Grown(hooks, hooks) /\ Len(hooks) \in Nat
  BY <1>1 DEF Grown
<1> QED  BY <1>1, <1>2 DEF ProjectsInv

\* A new hook at GitHub.
LEMMA HookAdded ==
    ASSUME ProjectsInv, NEW p \in Ids, Hooked(p), task[p].pc = "call"
    PROVE  /\ hooks' \in Seq(HookRec) /\ Grown(hooks, hooks') /\ DevSigns(hooks', env.dev)
           /\ Signs(hooks', Len(hooks) + 1, p, task[p].secret)
<1> DEFINE h == [project |-> p, secret |-> task[p].secret]
<1>1. /\ task[p] \in TaskRec /\ hooks \in Seq(HookRec) /\ Len(hooks) \in Nat
      /\ TaskOK(task[p], p, hooks, env.dev) /\ DevSigns(hooks, env.dev)
  BY ProjectHas
<1>2. h \in HookRec /\ h.project = p /\ h.secret = task[p].secret /\ (env.dev => h.secret = Dev)
  BY <1>1 DEF HookRec, TaskRec, TaskOK
<1>3. hooks' = Append(hooks, h)
  BY DEF Hooked
<1> HIDE DEF h
<1>4. /\ hooks' \in Seq(HookRec) /\ Len(hooks') = Len(hooks) + 1
      /\ \A i \in 1 .. Len(hooks) : hooks'[i] = hooks[i]
      /\ hooks'[Len(hooks) + 1] = h
  BY <1>1, <1>2, <1>3
<1>5. Grown(hooks, hooks')
  BY <1>1, <1>4 DEF Grown
<1>6. DevSigns(hooks', env.dev)
  <2>1. \A i \in 1 .. Len(hooks) + 1 : i \in 1 .. Len(hooks) \/ i = Len(hooks) + 1
    BY <1>1
  <2> QED  BY <1>1, <1>2, <1>4, <2>1 DEF DevSigns
<1>7. Signs(hooks', Len(hooks) + 1, p, task[p].secret)
  BY <1>1, <1>2, <1>4 DEF Signs
<1> QED  BY <1>4, <1>5, <1>6, <1>7

\* The steps that change at most the config and the task of a project, a new
\* task neither calling nor merging.
LEMMA TaskRests ==
    ASSUME ProjectsInv, NEW p \in Ids, NEW k \in ConfigRec, NEW t \in TaskRec,
           config' = [config EXCEPT ![p] = k], ConfigOK(k, p, hooks, env.dev),
           task' = [task EXCEPT ![p] = t], t.pc \notin {"call", "merge"},
           UNCHANGED <<env, hooks, drawn, edit>>
    PROVE  ProjectsInv'
<1>1. TaskOK(t, p, hooks, env.dev)
  BY DEF TaskOK
<1> QED  BY <1>1, ProjectHas, ProjectStep

LEMMA WithErrorOK ==
    ASSUME ProjectsInv, NEW p \in Ids
    PROVE  WithError(p) \in ConfigRec /\ ConfigOK(WithError(p), p, hooks, env.dev)
<1>1. config[p] \in ConfigRec /\ ConfigOK(config[p], p, hooks, env.dev)
  BY ProjectHas
<1> QED  BY <1>1 DEF WithError, ConfigRec, ConfigOK

\* What asynq makes of an attempt that is over.
LEMMA DisposedTask ==
    ASSUME ProjectsInv, NEW p \in Ids, Disposed(p)
    PROVE  \E t \in TaskRec : task' = [task EXCEPT ![p] = t] /\ t.pc \in {"archived", "queued"}
<1> DEFINE pc == IF LastTry(p) THEN "archived" ELSE "queued"
           n  == IF LastTry(p) THEN task[p].retried ELSE task[p].retried + 1
           t  == [[[[task[p] EXCEPT !.pc = pc] EXCEPT !.retried = n] EXCEPT !.secret = None] EXCEPT !.hook = None]
<1>1. task[p] \in TaskRec /\ task \in [Ids -> TaskRec]
  BY ProjectHas DEF ProjectsInv, ProjectsTyped
<1>2. task[p].retried \in Nat
  BY <1>1 DEF TaskRec
<1>3. n \in Nat /\ pc \in {"archived", "queued"}
  BY <1>2
<1>4. [task[p] EXCEPT !.pc = pc].retried = task[p].retried
  BY <1>1 DEF TaskRec
<1>5. task' = [task EXCEPT ![p] = t]
  <2>1. CASE LastTry(p)
    BY <1>1, <1>4, <2>1 DEF Disposed
  <2>2. CASE ~LastTry(p)
    BY <1>1, <1>4, <2>2 DEF Disposed
  <2> QED  BY <2>1, <2>2
<1> HIDE DEF n, pc
<1>6. t \in TaskRec /\ t.pc = pc
  BY <1>1, <1>3 DEF TaskRec, TaskSteps, None
<1> QED  BY <1>3, <1>5, <1>6

LEMMA WorkerKeeps ==
    ASSUME ProjectsInv, NEW p \in Ids, Worker(p)
    PROVE  ProjectsInv'
<1>1. /\ config[p] \in ConfigRec /\ edit[p] \in ConfigRec \cup {NoEdit} /\ task[p] \in TaskRec
      /\ config = [config EXCEPT ![p] = config[p]] /\ edit = [edit EXCEPT ![p] = edit[p]]
      /\ ConfigOK(config[p], p, hooks, env.dev) /\ EditOK(edit[p], p, hooks, env.dev)
      /\ TaskOK(task[p], p, hooks, env.dev)
      /\ hooks \in Seq(HookRec) /\ drawn \in Nat /\ DevSigns(hooks, env.dev)
      /\ Grown(hooks, hooks) /\ Len(hooks) \in Nat
  BY ProjectHas
<1>2. CASE AttemptStart(p)
  <2> DEFINE s == Decided(p)
             t == [[[[task[p] EXCEPT !.pc = IF env.url THEN "call" ELSE "return"]
                       EXCEPT !.secret = s] EXCEPT !.skip = FALSE] EXCEPT !.late = FALSE]
  <2>1. s \in Nat /\ s # None /\ (env.dev => s = Dev)
    BY <1>1 DEF Decided, ConfigOK, ConfigRec, None, Dev
  <2>2. t \in TaskRec /\ t.pc \in {"call", "return"} /\ t.secret = s
    BY <1>1, <2>1 DEF TaskRec, TaskSteps
  <2>3. /\ task' = [task EXCEPT ![p] = t] /\ drawn' \in {drawn, drawn + 1}
        /\ UNCHANGED <<env, config, hooks, edit>>
    BY <1>2 DEF AttemptStart
  <2>4. drawn' \in Nat
    BY <1>1, <2>3
  <2> HIDE DEF t, s
  <2>5. TaskOK(t, p, hooks, env.dev)
    BY <2>1, <2>2 DEF TaskOK
  <2> QED  BY <1>1, <2>2, <2>3, <2>4, <2>5, ProjectStep
<1>3. CASE CallAnswered(p)
  <2> DEFINE t == [[task[p] EXCEPT !.pc = "merge"] EXCEPT !.hook = Len(hooks) + 1]
  <2>1. /\ task[p].pc = "call" /\ Hooked(p) /\ task' = [task EXCEPT ![p] = t]
        /\ UNCHANGED <<env, config, drawn, edit>>
    BY <1>3 DEF CallAnswered
  <2>2. /\ hooks' \in Seq(HookRec) /\ Grown(hooks, hooks') /\ DevSigns(hooks', env.dev)
        /\ Signs(hooks', Len(hooks) + 1, p, task[p].secret)
    BY <2>1, HookAdded
  <2>3. /\ t \in TaskRec /\ t.secret = task[p].secret /\ t.hook = Len(hooks) + 1
    <3>1. Len(hooks) + 1 \in Nat
      BY <1>1
    <3> QED  BY <1>1, <3>1 DEF TaskRec, TaskSteps
  <2> HIDE DEF t
  <2>4. TaskOK(t, p, hooks', env.dev)
    BY <1>1, <2>1, <2>2, <2>3 DEF TaskOK
  <2>5. ConfigOK(config[p], p, hooks', env.dev) /\ EditOK(edit[p], p, hooks', env.dev)
    BY <1>1, <2>2, GrownKeeps
  <2> QED  BY <1>1, <2>1, <2>2, <2>3, <2>4, <2>5, ProjectStep
<1>4. CASE CallRefused(p)
  <2> DEFINE t == [[task[p] EXCEPT !.pc = "error"] EXCEPT !.skip = TRUE]
  <2>1. t \in TaskRec /\ t.pc = "error"
    BY <1>1 DEF TaskRec, TaskSteps
  <2>2. task' = [task EXCEPT ![p] = t] /\ UNCHANGED <<env, config, hooks, drawn, edit>>
    BY <1>4 DEF CallRefused
  <2> HIDE DEF t
  <2> QED  BY <1>1, <2>1, <2>2, TaskRests
<1>5. CASE CallFails(p)
  <2>1. PICK late \in BOOLEAN : task' = [task EXCEPT ![p].pc = "error", ![p].late = late]
    BY <1>5 DEF CallFails
  <2> DEFINE t == [[task[p] EXCEPT !.pc = "error"] EXCEPT !.late = late]
  <2>2. t \in TaskRec /\ t.pc = "error"
    BY <1>1 DEF TaskRec, TaskSteps
  <2>3. task' = [task EXCEPT ![p] = t]
    BY <2>1
  <2> HIDE DEF t
  <2>4. /\ task[p].pc = "call" /\ UNCHANGED <<env, config, drawn, edit>>
        /\ hooks' = hooks \/ Hooked(p)
    BY <1>5 DEF CallFails
  <2>5. hooks' \in Seq(HookRec) /\ Grown(hooks, hooks') /\ DevSigns(hooks', env.dev)
    BY <1>1, <2>4, HookAdded
  <2>6. ConfigOK(config[p], p, hooks', env.dev) /\ EditOK(edit[p], p, hooks', env.dev)
    BY <1>1, <2>5, GrownKeeps
  <2>7. TaskOK(t, p, hooks', env.dev)
    BY <2>2 DEF TaskOK
  <2> QED  BY <1>1, <2>2, <2>3, <2>4, <2>5, <2>6, <2>7, ProjectStep
<1>6. CASE MergeHook(p)
  <2>1. PICK at \in {"done", "return"} :
           /\ task[p].pc = "merge" /\ UNCHANGED <<env, hooks, drawn, edit>>
           /\ task' = [task EXCEPT ![p].pc = at]
           /\ config' = config \/ config' = [config EXCEPT ![p] = Registered(p)]
    BY <1>6 DEF MergeHook
  <2> DEFINE t == [task[p] EXCEPT !.pc = at]
  <2>2. t \in TaskRec /\ t.pc \notin {"call", "merge"}
    BY <1>1, <2>1 DEF TaskRec, TaskSteps
  <2>3. task' = [task EXCEPT ![p] = t]
    BY <2>1
  <2> HIDE DEF t
  <2>4. Registered(p) \in ConfigRec /\ ConfigOK(Registered(p), p, hooks, env.dev)
    BY <1>1, <2>1 DEF Registered, ConfigRec, ConfigOK, TaskRec, TaskOK, Signs, None, Dev
  <2>5. CASE config' = config
    <3>1. config' = [config EXCEPT ![p] = config[p]]
      BY <1>1, <2>5
    <3> QED  BY <1>1, <2>1, <2>2, <2>3, <3>1, TaskRests
  <2>6. CASE config' = [config EXCEPT ![p] = Registered(p)]
    BY <2>1, <2>2, <2>3, <2>4, <2>6, TaskRests
  <2> QED  BY <2>1, <2>5, <2>6
<1>7. CASE MergeError(p)
  <2> DEFINE t == [task[p] EXCEPT !.pc = "return"]
  <2>1. t \in TaskRec /\ t.pc \notin {"call", "merge"}
    BY <1>1 DEF TaskRec, TaskSteps
  <2>2. /\ task' = [task EXCEPT ![p] = t] /\ UNCHANGED <<env, hooks, drawn, edit>>
        /\ config' = config \/ config' = [config EXCEPT ![p] = WithError(p)]
    BY <1>7 DEF MergeError
  <2> HIDE DEF t
  <2> QED  BY <1>1, <2>1, <2>2, WithErrorOK, TaskRests
<1>8. CASE Return(p)
  <2>1. /\ Disposed(p) /\ UNCHANGED <<env, hooks, drawn, edit>>
        /\ config' = config \/ config' = [config EXCEPT ![p] = WithError(p)]
    BY <1>8 DEF Return
  <2>2. PICK t \in TaskRec : task' = [task EXCEPT ![p] = t] /\ t.pc \in {"archived", "queued"}
    BY <2>1, DisposedTask
  <2> QED  BY <1>1, <2>1, <2>2, WithErrorOK, TaskRests
<1> QED  BY <1>2, <1>3, <1>4, <1>5, <1>6, <1>7, <1>8 DEF Worker

LEMMA ProjectsStutter ==
    ASSUME ProjectsInv, UNCHANGED <<env, config, task, hooks, drawn, edit>>
    PROVE  ProjectsInv'
<1>1. ProjectsTyped'
  BY DEF ProjectsInv, ProjectsTyped
<1> QED  BY <1>1 DEF ProjectsInv

LEMMA ProjectsNextKeeps ==
    ASSUME ProjectsInv, [Next]_vars
    PROVE  ProjectsInv'
<1>1. CASE UNCHANGED vars
  BY <1>1, ProjectsStutter DEF vars
<1>2. ASSUME NEW p \in Ids, CreateRead(p) \/ CreateInsert(p) \/ Delete(p)
      PROVE  ProjectsInv'
  BY <1>2, ProjectsStutter DEF CreateRead, CreateInsert, Delete
<1>3. ASSUME NEW p \in Ids, Enqueue(p)
      PROVE  ProjectsInv'
  <2> DEFINE t == [task[p] EXCEPT !.pc = "queued"]
  <2>1. /\ UNCHANGED <<env, config, hooks, drawn, edit>>
        /\ task' = task \/ task' = [task EXCEPT ![p] = t]
    BY <1>3 DEF Enqueue
  <2>2. t \in TaskRec /\ t.pc = "queued"
    BY <1>3, ProjectHas DEF TaskRec, TaskSteps
  <2> HIDE DEF t
  <2>3. CASE task' = task
    BY <2>1, <2>3, ProjectsStutter
  <2>4. CASE task' = [task EXCEPT ![p] = t]
    BY <1>3, <2>1, <2>2, <2>4, ProjectHas, TaskRests
  <2> QED  BY <2>1, <2>3, <2>4
<1>4. ASSUME NEW p \in Ids, EditRead(p)
      PROVE  ProjectsInv'
  <2>0. /\ config[p] \in ConfigRec /\ edit[p] \in ConfigRec \cup {NoEdit} /\ task[p] \in TaskRec
        /\ config = [config EXCEPT ![p] = config[p]] /\ edit = [edit EXCEPT ![p] = edit[p]]
        /\ task = [task EXCEPT ![p] = task[p]]
        /\ ConfigOK(config[p], p, hooks, env.dev) /\ EditOK(edit[p], p, hooks, env.dev)
        /\ TaskOK(task[p], p, hooks, env.dev)
        /\ hooks \in Seq(HookRec) /\ drawn \in Nat /\ DevSigns(hooks, env.dev) /\ Grown(hooks, hooks)
    BY <1>4, ProjectHas
  <2>1. UNCHANGED <<env, config, task, hooks, drawn>> /\ edit' = [edit EXCEPT ![p] = config[p]]
    BY <1>4 DEF EditRead
  <2>2. EditOK(config[p], p, hooks, env.dev)
    BY <1>4, ProjectHas DEF EditOK
  <2> QED  BY <2>0, <2>1, <2>2, ProjectStep
<1>5. ASSUME NEW p \in Ids, EditWrite(p)
      PROVE  ProjectsInv'
  <2>0. /\ config[p] \in ConfigRec /\ edit[p] \in ConfigRec \cup {NoEdit} /\ task[p] \in TaskRec
        /\ config = [config EXCEPT ![p] = config[p]] /\ edit = [edit EXCEPT ![p] = edit[p]]
        /\ task = [task EXCEPT ![p] = task[p]]
        /\ ConfigOK(config[p], p, hooks, env.dev) /\ EditOK(edit[p], p, hooks, env.dev)
        /\ TaskOK(task[p], p, hooks, env.dev)
        /\ hooks \in Seq(HookRec) /\ drawn \in Nat /\ DevSigns(hooks, env.dev) /\ Grown(hooks, hooks)
    BY <1>5, ProjectHas
  <2>1. /\ UNCHANGED <<env, task, hooks, drawn>> /\ edit' = [edit EXCEPT ![p] = NoEdit]
        /\ config' = config \/ config' = [config EXCEPT ![p] = edit[p]]
        /\ edit[p] # NoEdit
    BY <1>5 DEF EditWrite
  <2>2. edit[p] \in ConfigRec /\ ConfigOK(edit[p], p, hooks, env.dev)
    BY <1>5, <2>1, ProjectHas DEF EditOK
  <2>3. EditOK(NoEdit, p, hooks, env.dev)
    BY DEF EditOK
  <2>4. CASE config' = config
    BY <2>0, <2>1, <2>3, <2>4, ProjectStep
  <2>5. CASE config' = [config EXCEPT ![p] = edit[p]]
    BY <2>0, <2>1, <2>2, <2>3, <2>5, ProjectStep
  <2> QED  BY <2>1, <2>4, <2>5
<1>6. ASSUME NEW p \in Ids, GetFails(p)
      PROVE  ProjectsInv'
  <2> DEFINE t == [[[task[p] EXCEPT !.pc = "return"] EXCEPT !.skip = FALSE] EXCEPT !.late = FALSE]
  <2>1. t \in TaskRec /\ t.pc = "return"
    BY <1>6, ProjectHas DEF TaskRec, TaskSteps
  <2>2. task' = [task EXCEPT ![p] = t] /\ UNCHANGED <<env, config, hooks, drawn, edit>>
    BY <1>6 DEF GetFails
  <2> HIDE DEF t
  <2> QED  BY <1>6, <2>1, <2>2, ProjectHas, TaskRests
<1>7. ASSUME NEW p \in Ids, Crash(p)
      PROVE  ProjectsInv'
  <2>1. Disposed(p) /\ UNCHANGED <<env, config, hooks, drawn, edit>>
    BY <1>7 DEF Crash
  <2>2. PICK t \in TaskRec : task' = [task EXCEPT ![p] = t] /\ t.pc \in {"archived", "queued"}
    BY <1>7, <2>1, DisposedTask
  <2> QED  BY <1>7, <2>1, <2>2, ProjectHas, TaskRests
<1> QED  BY <1>1, <1>2, <1>3, <1>4, <1>5, <1>6, <1>7, WorkerKeeps DEF Next

LEMMA ProjectsStart ==
    ASSUME Init
    PROVE  ProjectsInv
<1>1. /\ <<>> \in Seq(HookRec) /\ Len(<<>>) = 0
  OBVIOUS
<1>2. Fresh \in ConfigRec /\ NoTask \in TaskRec
  BY DEF Fresh, NoTask, ConfigRec, TaskRec, TaskSteps, None
<1>3. ProjectsTyped
  BY <1>1, <1>2 DEF Init, ProjectsTyped
<1>4. DevSigns(hooks, env.dev)
  BY <1>1 DEF Init, DevSigns
<1>5. \A p \in Ids : /\ ConfigOK(config[p], p, hooks, env.dev)
                     /\ EditOK(edit[p], p, hooks, env.dev)
                     /\ TaskOK(task[p], p, hooks, env.dev)
  BY DEF Init, Fresh, NoTask, ConfigOK, EditOK, TaskOK, None
<1> QED  BY <1>3, <1>4, <1>5 DEF ProjectsInv

LEMMA HooksFollow == ProjectsInv => HooksVerify
<1> SUFFICES ASSUME ProjectsInv PROVE HooksVerify
  OBVIOUS
<1>1. \A p \in Ids : config[p].hook # None =>
         hooks[config[p].hook].project = p /\ hooks[config[p].hook].secret = Resolved(p)
  BY DEF ProjectsInv, ConfigOK, Signs, Resolved
<1>2. ASSUME env.dev, NEW i \in 1 .. Len(hooks)
      PROVE  hooks[i].secret = Resolved(hooks[i].project)
  <2>1. hooks \in Seq(HookRec) /\ hooks[i].secret = Dev
    BY <1>2 DEF ProjectsInv, ProjectsTyped, DevSigns
  <2>2. hooks[i].project \in Ids
    <3>1. hooks[i] \in HookRec
      BY <2>1
    <3> QED  BY <3>1 DEF HookRec
  <2>3. config[hooks[i].project].secret \in {None, Dev}
    BY <1>2, <2>2 DEF ProjectsInv, ConfigOK
  <2> QED  BY <1>2, <2>1, <2>3 DEF Resolved, None, Dev
<1> QED  BY <1>1, <1>2 DEF HooksVerify

\* Whatever attempts at the registration are lost, retried or archived, and
\* whatever stale config a PATCH writes back (ProcessTask, MergeConfig, Update):
\* the hook a project's config names is its own and signs with the secret its
\* deliveries are checked against; with a development secret every hook does.
THEOREM HooksAreVerified == Spec => []HooksVerify
<1>1. Init => ProjectsInv
  BY ProjectsStart
<1>2. ProjectsInv /\ [Next]_vars => ProjectsInv'
  BY ProjectsNextKeeps
<1> QED  BY <1>1, <1>2, HooksFollow, PTL DEF Spec

=============================================================================
