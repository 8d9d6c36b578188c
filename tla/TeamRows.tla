------------------------------ MODULE TeamRows ------------------------------
(***************************************************************************)
(* A team: its row, members, invite link, channel and the rows below it    *)
(* (knowledge, projects, their tasks and documents).  A handler reads and  *)
(* checks in one step (Begin...) and commits in another; other requests    *)
(* run in between, on objects loaded before.                               *)
(***************************************************************************)
EXTENDS Naturals, Sequences, TLC

CONSTANTS
  Person, Founder,
  GivenRole,      \* roles a request may ask for
  Payload,        \* policies a client may put: functions of pairs <<permission, role>>
  MaxTeamRequests \* bound: requests

TeamRole   == {"owner", "admin", "member", "viewer"}
Permission == {"project.create", "project.edit", "project.delete", "knowledge.upload",
               "knowledge.delete", "agent.manage", "member.invite", "member.role", "member.remove"}
NoRole     == "none"
TeamRequest == 1..MaxTeamRequests
Column     == {"name", "channel_mode", "policy", "invite", "shared_agents", "shared_profile_ids"}
RowKind    == {"knowledge", "project", "task", "doc"}

ASSUME TeamConstants ==
  /\ Founder \in Person /\ GivenRole \subseteq TeamRole /\ MaxTeamRequests \in Nat
  /\ \A p \in Payload : DOMAIN p \subseteq Permission \X TeamRole
                          /\ \A c \in DOMAIN p : p[c] \in BOOLEAN
  /\ Person \cap 1..(MaxTeamRequests + 1) = {}   \* users and rows have different ids

VARIABLES
  team,  \* the database: alive, role (team_members), column (the request that wrote it),
         \* policy (the pairs that are true), invite (token 0: none), rows (id -> [kind,
         \* parent, text]; an id is the number of the creating request), channels
  treq,  \* [TeamRequest -> what its handler has loaded]; op "fresh" before, "done" after
  thist  \* history: lastWrite (of a column), issued (role of a token), joined (by link:
         \* token and role), gone (rows and members deleted), raced (tokens whose request
         \* had loaded the link of another token than the one it replaced)

teamVars == <<team, treq, thist>>

-----------------------------------------------------------------------------
(* governance.py *)

Defaults ==
  {c \in Permission \X TeamRole :
     \/ c[2] = "owner"
     \/ c[2] = "admin" /\ c[1] # "member.remove"
     \/ c[2] = "member" /\ c[1] \in {"project.create", "project.edit", "knowledge.upload"}}

EnsurePolicy(p) ==
  {c \in Permission \X TeamRole : IF c \in DOMAIN p THEN p[c] ELSE c \in Defaults}
  \cup Permission \X {"owner"}

Can(perm, r) == r = "owner" \/ <<perm, r>> \in team.policy

(* The permission an operation asks for; operations without one ask for a role. *)
Needs ==
  "shared_agents" :> "agent.manage" @@ "shared_profile_ids" :> "agent.manage"
  @@ "add_member" :> "member.invite" @@ "update_member" :> "member.role"
  @@ "remove_member" :> "member.remove"
  @@ "create_knowledge" :> "knowledge.upload" @@ "update_knowledge" :> "knowledge.upload"
  @@ "delete_knowledge" :> "knowledge.delete" @@ "create_project" :> "project.create"
  @@ "update_project" :> "project.edit" @@ "delete_project" :> "project.delete"
  @@ "create_task" :> "project.edit" @@ "update_task" :> "project.edit"
  @@ "delete_task" :> "project.edit" @@ "create_doc" :> "project.edit"
  @@ "delete_doc" :> "project.edit"

RequireMembership(u)     == team.alive /\ team.role[u] # NoRole
RequirePermission(u, op) == RequireMembership(u) /\ Can(Needs[op], team.role[u])
RequireRole(u, rs)       == RequireMembership(u) /\ team.role[u] \in rs

-----------------------------------------------------------------------------
(* What a handler does before its commit.  The requests begin in order.     *)

Loads(i, q) ==
  /\ treq[i].op = "fresh" /\ \A j \in 1..(i - 1) : treq[j].op # "fresh"
  /\ treq' = [treq EXCEPT ![i] = q]
  /\ UNCHANGED <<team, thist>>

(* The UPDATE will leave out an attribute that is set to the value loaded.  *)
LoadsColumn(i, f, p, r, changes) ==
  Loads(i, [op |-> "column", field |-> f, payload |-> p, given |-> r, seen |-> team.column,
            changes |-> changes, changesRole |-> r # team.invite.role])

LoadsPlain(i, f) == \E changes \in BOOLEAN : LoadsColumn(i, f, <<>>, NoRole, changes)

Managers == {"owner", "admin"}

BeginUpdateTeam(i, u)  == RequireRole(u, Managers) /\ LoadsPlain(i, "name")
BeginChannelMode(i, u) == RequireRole(u, Managers) /\ LoadsPlain(i, "channel_mode")
BeginPutPolicy(i, u) ==
  RequireRole(u, Managers) /\ \E p \in Payload :
    LoadsColumn(i, "policy", p, NoRole, EnsurePolicy(p) # team.policy)
BeginInviteToken(i, u) ==
  RequireRole(u, Managers) /\ \E r \in GivenRole : LoadsColumn(i, "invite", <<>>, r, TRUE)
BeginSharedAgents(i, u) ==
  RequirePermission(u, "shared_agents") /\ LoadsPlain(i, "shared_agents")
BeginSharedProfiles(i, u) ==
  RequirePermission(u, "shared_profile_ids") /\ LoadsPlain(i, "shared_profile_ids")

BeginDeleteTeam(i, u) == RequireRole(u, {"owner"}) /\ Loads(i, [op |-> "delete_team"])

BeginAddMember(i, u) ==
  /\ RequirePermission(u, "add_member")
  /\ \E x \in Person, r \in GivenRole :
       team.role[x] = NoRole /\ Loads(i, [op |-> "insert", who |-> x, given |-> r, token |-> 0])

BeginUpdateMember(i, u) ==
  /\ RequirePermission(u, "update_member")
  /\ \E x \in Person, r \in GivenRole :
       /\ team.role[x] \notin {NoRole, "owner"}
       /\ Loads(i, [op |-> "update_member", who |-> x, given |-> r])

BeginRemoveMember(i, u) ==
  /\ RequirePermission(u, "remove_member")
  /\ \E x \in Person :
       team.role[x] \notin {NoRole, "owner"} /\ Loads(i, [op |-> "remove_member", who |-> x])

(* join_by_token: one read of the row gives the token and the role. *)
BeginJoin(i, u) ==
  /\ team.alive /\ team.invite.token # 0 /\ team.role[u] = NoRole
  /\ Loads(i, [op |-> "insert", who |-> u, given |-> team.invite.role, token |-> team.invite.token])

(* An existing channel is returned. *)
BeginVisit(i, u) == RequireMembership(u) /\ team.channels = 0 /\ Loads(i, [op |-> "visit"])

Below(i, op, kind, parent) == Loads(i, [op |-> op, kind |-> kind, parent |-> parent])
Rows(kind)                 == {x \in DOMAIN team.rows : team.rows[x].kind = kind}
OnRow(i, op, x)            == Loads(i, [op |-> op, row |-> x])

(* The team's rows; a project's come with the permission on their project. *)
ProjectWithPerm(x, u, op) == x \in Rows("project") /\ RequirePermission(u, op)

BeginAddKnowledge(i, u) ==
  RequirePermission(u, "create_knowledge") /\ Below(i, "create_row", "knowledge", 0)
BeginUploadKnowledge(i, u) ==
  RequirePermission(u, "create_knowledge") /\ Below(i, "create_row", "knowledge", 0)
BeginUpdateKnowledge(i, u) ==
  RequirePermission(u, "update_knowledge") /\ \E x \in Rows("knowledge") : OnRow(i, "update_row", x)
BeginDeleteKnowledge(i, u) ==
  RequirePermission(u, "delete_knowledge") /\ \E x \in Rows("knowledge") : OnRow(i, "delete_row", x)
BeginCreateProject(i, u) ==
  RequirePermission(u, "create_project") /\ Below(i, "create_row", "project", 0)
BeginUpdateProject(i, u) ==
  \E x \in Rows("project") : ProjectWithPerm(x, u, "update_project") /\ OnRow(i, "update_row", x)
BeginProjectMembers(i, u) ==
  \E x \in Rows("project") : ProjectWithPerm(x, u, "update_project") /\ OnRow(i, "update_row", x)
BeginDeleteProject(i, u) ==
  \E x \in Rows("project") : ProjectWithPerm(x, u, "delete_project") /\ OnRow(i, "delete_row", x)
BeginCreateTask(i, u) ==
  \E x \in Rows("project") : ProjectWithPerm(x, u, "create_task") /\ Below(i, "create_row", "task", x)
BeginUpdateTask(i, u) ==
  \E x \in Rows("task") :
    ProjectWithPerm(team.rows[x].parent, u, "update_task") /\ OnRow(i, "update_row", x)
BeginDeleteTask(i, u) ==
  \E x \in Rows("task") :
    ProjectWithPerm(team.rows[x].parent, u, "delete_task") /\ OnRow(i, "delete_row", x)
BeginAddDoc(i, u) ==
  \E x \in Rows("project") : ProjectWithPerm(x, u, "create_doc") /\ Below(i, "create_row", "doc", x)
BeginUploadDoc(i, u) ==
  \E x \in Rows("project") : ProjectWithPerm(x, u, "create_doc") /\ Below(i, "create_row", "doc", x)
BeginDeleteDoc(i, u) ==
  \E x \in Rows("doc") :
    ProjectWithPerm(team.rows[x].parent, u, "delete_doc") /\ OnRow(i, "delete_row", x)

TeamBegin(i) ==
  \E u \in Person :
    \/ BeginUpdateTeam(i, u) \/ BeginChannelMode(i, u) \/ BeginPutPolicy(i, u)
    \/ BeginInviteToken(i, u) \/ BeginSharedAgents(i, u) \/ BeginSharedProfiles(i, u)
    \/ BeginDeleteTeam(i, u) \/ BeginAddMember(i, u) \/ BeginUpdateMember(i, u)
    \/ BeginRemoveMember(i, u) \/ BeginJoin(i, u) \/ BeginVisit(i, u)
    \/ BeginAddKnowledge(i, u) \/ BeginUploadKnowledge(i, u)
    \/ BeginUpdateKnowledge(i, u) \/ BeginDeleteKnowledge(i, u)
    \/ BeginCreateProject(i, u) \/ BeginUpdateProject(i, u) \/ BeginProjectMembers(i, u)
    \/ BeginDeleteProject(i, u)
    \/ BeginCreateTask(i, u) \/ BeginUpdateTask(i, u) \/ BeginDeleteTask(i, u)
    \/ BeginAddDoc(i, u) \/ BeginUploadDoc(i, u) \/ BeginDeleteDoc(i, u)

-----------------------------------------------------------------------------
(* The commits.  An UPDATE writes the changed columns of a row that must    *)
(* still be there, an INSERT needs its parent and a free primary key.       *)

Loaded(i, op) == treq[i].op = op

(* A function with the value v at k. *)
With(f, k, v) == [x \in DOMAIN f \cup {k} |-> IF x = k THEN v ELSE f[x]]

Answers(i) == treq' = [treq EXCEPT ![i] = [op |-> "done"]]

(* A new link has a token of its own, and the role when it is another one    *)
(* than was loaded.                                                         *)
NewLink(i) == [token |-> i,
               role  |-> IF treq[i].changesRole THEN treq[i].given ELSE team.invite.role]

SetColumns(i, columns) ==
  LET q == treq[i] IN
  /\ Loaded(i, "column") /\ q.changes /\ team.alive
  /\ team' = [team EXCEPT
       !.column = [columns EXCEPT ![q.field] = i],
       !.policy = IF q.field = "policy" THEN EnsurePolicy(q.payload) ELSE @,
       !.invite = IF q.field = "invite" THEN NewLink(i) ELSE @]
  /\ thist' = [thist EXCEPT
       !.lastWrite[q.field] = i,
       !.issued[i] = IF q.field = "invite" THEN q.given ELSE @,
       !.raced = IF q.field = "invite" /\ q.seen["invite"] # team.column["invite"]
                 THEN @ \cup {i} ELSE @]
  /\ Answers(i)

WriteLoadedRow(i) == SetColumns(i, treq[i].seen)
WriteColumn(i)    == SetColumns(i, team.column)

(* Nothing differs from what was loaded: no UPDATE, whatever the row is now. *)
SaveUnchanged(i) ==
  /\ Loaded(i, "column") /\ ~treq[i].changes
  /\ Answers(i) /\ UNCHANGED <<team, thist>>

DeleteTeam(i) ==
  /\ Loaded(i, "delete_team")
  /\ thist' = [thist EXCEPT !.joined = <<>>,
       !.gone = @ \cup DOMAIN team.rows \cup {u \in Person : team.role[u] # NoRole}]
  /\ team' = [team EXCEPT !.alive = FALSE, !.rows = <<>>, !.channels = 0,
       !.role = [u \in Person |-> NoRole], !.invite = [token |-> 0, role |-> NoRole]]
  /\ Answers(i)

InsertMember(i) ==
  LET q == treq[i] IN
  /\ Loaded(i, "insert") /\ team.alive /\ team.role[q.who] = NoRole
  /\ team' = [team EXCEPT !.role[q.who] = q.given]
  /\ thist' = [thist EXCEPT
       !.joined = IF q.token # 0 THEN With(@, q.who, [token |-> q.token, role |-> q.given]) ELSE @,
       !.gone = @ \ {q.who}]
  /\ Answers(i)

SetsRole(i) ==
  /\ Loaded(i, "update_member") /\ team.alive
  /\ team' = [team EXCEPT !.role[treq[i].who] = treq[i].given]
  /\ Answers(i)
  /\ UNCHANGED thist

UpsertMember(i) == SetsRole(i)
UpdateMember(i) == Loaded(i, "update_member") /\ team.role[treq[i].who] # NoRole /\ SetsRole(i)

(* A DELETE that matches nothing is only a warning. *)
RemoveMember(i) ==
  LET x == treq[i].who IN
  /\ Loaded(i, "remove_member")
  /\ thist' = [thist EXCEPT !.joined = [u \in DOMAIN @ \ {x} |-> @[u]],
                            !.gone = IF team.role[x] # NoRole THEN @ \cup {x} ELSE @]
  /\ team' = [team EXCEPT !.role[x] = NoRole]
  /\ Answers(i)

CreateChannel(i) ==
  /\ Loaded(i, "visit") /\ team.alive
  /\ team' = [team EXCEPT !.channels = @ + 1]
  /\ Answers(i) /\ UNCHANGED thist

CreateRow(i) ==
  LET q == treq[i] IN
  /\ Loaded(i, "create_row") /\ team.alive /\ q.parent \in {0} \cup DOMAIN team.rows
  /\ team' = [team EXCEPT !.rows = With(@, i, [kind |-> q.kind, parent |-> q.parent, text |-> i])]
  /\ Answers(i) /\ UNCHANGED thist

UpdateRow(i) ==
  /\ Loaded(i, "update_row") /\ treq[i].row \in DOMAIN team.rows
  /\ team' = [team EXCEPT !.rows[treq[i].row].text = i]
  /\ Answers(i) /\ UNCHANGED thist

(* ON DELETE CASCADE takes the tasks and documents of a project. *)
DeleteRow(i) ==
  LET dead == {x \in DOMAIN team.rows : treq[i].row \in {x, team.rows[x].parent}} IN
  /\ Loaded(i, "delete_row")
  /\ team' = [team EXCEPT !.rows = [x \in DOMAIN @ \ dead |-> @[x]]]
  /\ thist' = [thist EXCEPT !.gone = @ \cup dead]
  /\ Answers(i)

(* StaleDataError, a foreign key or a duplicate primary key: nothing is written. *)
TeamRollBack(i) ==
  /\ \/ Loaded(i, "column") /\ treq[i].changes /\ ~team.alive
     \/ Loaded(i, "visit") /\ ~team.alive
     \/ Loaded(i, "insert") /\ (~team.alive \/ team.role[treq[i].who] # NoRole)
     \/ Loaded(i, "update_member") /\ team.role[treq[i].who] = NoRole
     \/ Loaded(i, "create_row") /\ (~team.alive \/ treq[i].parent \notin {0} \cup DOMAIN team.rows)
     \/ Loaded(i, "update_row") /\ treq[i].row \notin DOMAIN team.rows
  /\ Answers(i)
  /\ UNCHANGED <<team, thist>>

-----------------------------------------------------------------------------
(* create_team has committed, and a project; the others have joined or not. *)
FirstProject == MaxTeamRequests + 1

TeamInit ==
  /\ \E r \in [Person -> {"owner", "admin", "member", NoRole}] :
       /\ \A u \in Person : r[u] = "owner" <=> u = Founder
       /\ team = [alive |-> TRUE, role |-> r, column |-> [f \in Column |-> 0],
                  policy |-> Defaults, invite |-> [token |-> 0, role |-> "member"],
                  rows |-> With(<<>>, FirstProject, [kind |-> "project", parent |-> 0, text |-> 0]),
                  channels |-> 0]
  /\ treq = [i \in TeamRequest |-> [op |-> "fresh"]]
  /\ thist = [lastWrite |-> [f \in Column |-> 0], issued |-> [i \in TeamRequest |-> NoRole],
              joined |-> <<>>, gone |-> {}, raced |-> {}]

TeamNext ==
  \E i \in TeamRequest :
    \/ TeamBegin(i)
    \/ WriteColumn(i) \/ SaveUnchanged(i) \/ DeleteTeam(i)
    \/ InsertMember(i) \/ UpdateMember(i) \/ RemoveMember(i)
    \/ CreateChannel(i) \/ CreateRow(i) \/ UpdateRow(i) \/ DeleteRow(i) \/ TeamRollBack(i)

TeamSpec == TeamInit /\ [][TeamNext]_teamVars

-----------------------------------------------------------------------------
(* The rows are of their kinds, a stored policy gives the owner everything  *)
(* (governance.py: "owner column is always on"), tasks and documents have   *)
(* their project, and nothing is left of a team that was deleted.           *)
TeamTypeOK ==
  /\ team.alive \in BOOLEAN /\ team.role \in [Person -> TeamRole \cup {NoRole}]
  /\ Permission \X {"owner"} \subseteq team.policy /\ team.policy \subseteq Permission \X TeamRole
  /\ \A x \in DOMAIN team.rows :
       team.rows[x].kind \in {"task", "doc"} => team.rows[x].parent \in DOMAIN team.rows
  /\ ~team.alive => team.rows = <<>> /\ team.channels = 0 /\ \A u \in Person : team.role[u] = NoRole

(* A team never loses its founder: the role that was read before the commit *)
(* of another member change still protects the owner.                       *)
FounderStays == team.alive => team.role[Founder] = "owner"

(* Whoever comes in by a link gets the role the presented token was issued  *)
(* with, also when the link is replaced between the read and the insert:    *)
(* unless the request for the token had loaded another link than the one it *)
(* replaced, whose role it may then have kept for its own.                  *)
TokenGivesItsRole ==
  \A u \in DOMAIN thist.joined :
    LET link == thist.joined[u]
    IN  link.role = thist.issued[link.token] \/ link.token \in thist.raced

(* A change that was under way when its member or row was deleted does not  *)
(* bring it back: only an add or a join does, and a row never returns.      *)
GoneStaysGone ==
  /\ \A u \in thist.gone \cap Person : team.role[u] = NoRole
  /\ DOMAIN team.rows \cap thist.gone = {}

(* Two requests that loaded the same teams row and change different columns *)
(* both survive: each column holds what was last changed in it.  Saving the *)
(* value that was loaded changes nothing, also when it is no longer there.  *)
FieldsSurvive == team.column = thist.lastWrite

(* A team keeps its founder, what was last changed in each column, and the   *)
(* roles its links were issued with.                                        *)
TeamConsistent == TeamTypeOK /\ FounderStays /\ TokenGivesItsRole /\ FieldsSurvive
=============================================================================
