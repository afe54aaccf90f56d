------------------------------- MODULE Access -------------------------------
(***************************************************************************)
(* Who may do what: workspaces, their members and roles, and the policy    *)
(* every handler asks (authz/policy, service/role, service/member,         *)
(* service/workspace with their handlers and repositories). A request asks *)
(* the policy first and works on the rows later, one statement at a time;  *)
(* what it was allowed on may have changed by then. A built-in role is     *)
(* identified by its name.                                                 *)
(***************************************************************************)
EXTENDS Rows, Integers, FiniteSets

CONSTANTS
    Users, Workspaces, Spaces, CustomRoles,
    Texts,          \* role names requests carry
    Names,          \* names of custom roles
    Ranks, GrantSets,
    Requests, NULL,
    OUTSIDE         \* somebody whose rows are all in workspaces not modelled

VARIABLES
    users,          \* table users
    owner,          \* table workspaces: owner_id of each that exists
    spaceHome,      \* table spaces: the workspace of each that exists
    roles,          \* table roles, the rows of custom roles
    grants,         \* table role_permissions, for custom roles
    member,         \* table workspace_members: text column and role_id
    spaceMember,    \* table space_members
    request,
    asked,          \* history: what the last committed call asked for, per role
    mixed           \* history: roles whose last two calls overlapped

accessVars == <<users, owner, spaceHome, roles, grants, member, spaceMember, request, asked, mixed>>

Builtin == {"owner", "admin", "member", "guest"}
\* The keys the requests below need.
Keys == {"member.invite", "member.remove", "member.manage_roles", "role.manage", "user.manage"}
\* The seed gives owner and admin all of these, member and guest none.
BuiltinGrants(name) == IF name \in {"owner", "admin"} THEN Keys ELSE {}

\* A request in flight: what it does next and what it has read. behind are the
\* transactions whose row locks it waits for.
Blank == [do |-> "none", ws |-> NULL, user |-> NULL, text |-> NULL, role |-> NULL,
          row |-> NULL, keys |-> {}, seen |-> {}, alone |-> TRUE, behind |-> {}]

AccessTypeOK ==
    /\ users \subseteq Users
    /\ DOMAIN owner \subseteq Workspaces /\ Range(owner) \subseteq users \cup {NULL}
    /\ DOMAIN spaceHome \subseteq Spaces /\ Range(spaceHome) \subseteq DOMAIN owner
    /\ DOMAIN roles \subseteq CustomRoles
    /\ DOMAIN grants = DOMAIN roles /\ DOMAIN asked = DOMAIN roles
    /\ DOMAIN member \subseteq (DOMAIN owner) \X users
    /\ DOMAIN spaceMember \subseteq (DOMAIN spaceHome) \X users
    /\ mixed \subseteq DOMAIN roles

AccessInit ==
    /\ \E u \in Users, w \in Workspaces :
         /\ users = {u}
         /\ owner = [v \in {w} |-> u]
         /\ member = [p \in {<<w, u>>} |-> [text |-> "owner", role |-> NULL]]
         /\ spaceHome = <<>>
    /\ roles = <<>> /\ grants = <<>> /\ asked = <<>> /\ mixed = {}
    /\ spaceMember = <<>>
    /\ request = [q \in Requests |-> Blank]

-----------------------------------------------------------------------------
(* The policy.                                                             *)

RoleRank(text) ==
    CASE text = "owner" -> 4 [] text = "admin" -> 3 [] text = "guest" -> 1 [] OTHER -> 2

Member(w, u) == <<w, u>> \in DOMAIN member

RankOf(role) == IF role \in Builtin THEN RoleRank(role) ELSE roles[role].rank
NameOf(role) == IF role \in Builtin THEN role ELSE roles[role].name
GrantsOf(role) == IF role \in Builtin THEN BuiltinGrants(role) ELSE grants[role]

workspaceRole(w, u) ==
    IF member[<<w, u>>].role # NULL THEN NameOf(member[<<w, u>>].role) ELSE member[<<w, u>>].text

\* Mutated form: the ladder of names comes first, as it did before there were role rows.
workspaceRoleRankByText(w, u) == IF Member(w, u) THEN RoleRank(member[<<w, u>>].text) ELSE -1

workspaceRoleRank(w, u) ==
    IF ~Member(w, u) THEN -1
    ELSE IF member[<<w, u>>].role # NULL THEN RankOf(member[<<w, u>>].role)
    ELSE RoleRank(member[<<w, u>>].text)

RequireWorkspaceMember(w, u) == Member(w, u)
RequireWorkspaceRole(w, u, min) == workspaceRoleRank(w, u) >= RoleRank(min)

\* Members of the workspace are members of its spaces; a row of the space's own counts too.
RequireSpaceMember(s, u) ==
    \/ <<s, u>> \in DOMAIN spaceMember
    \/ s \in DOMAIN spaceHome /\ RequireWorkspaceMember(spaceHome[s], u)
RequireSpaceRole(s, u, min) ==
    \/ <<s, u>> \in DOMAIN spaceMember /\ RoleRank(spaceMember[<<s, u>>]) >= RoleRank(min)
    \/ s \in DOMAIN spaceHome /\ RequireWorkspaceRole(spaceHome[s], u, min)

\* The role rows the permission queries join a member with: role_id, else the
\* built-in role of that name; none when the text names neither.
JoinedRoles(w, u) ==
    IF ~Member(w, u) THEN {}
    ELSE IF member[<<w, u>>].role # NULL THEN {member[<<w, u>>].role}
    ELSE Builtin \cap {member[<<w, u>>].text}

HasPermission(w, u, key) == \E r \in JoinedRoles(w, u) : key \in GrantsOf(r)
HasRoleAnywhere(u, name) == \E w \in Workspaces : \E r \in JoinedRoles(w, u) : NameOf(r) = name
HasPermissionAnywhere(u, key) == \E w \in Workspaces : HasPermission(w, u, key)

EffectivePermissions(w, u) == UNION {GrantsOf(r) : r \in JoinedRoles(w, u)}
RoleNamesForUser(w, u) == {NameOf(r) : r \in JoinedRoles(w, u)}

-----------------------------------------------------------------------------
(* Statements on the rows.                                                 *)

\* The role an invitation's text means: a custom one of the workspace before a built-in one.
Resolve(w, text) ==
    LET own == {r \in DOMAIN roles : roles[r].ws = w /\ roles[r].name = text}
    IN  IF own # {} THEN CHOOSE r \in own : TRUE
        ELSE IF text \in Builtin THEN text ELSE NULL

UpsertMember(w, u, text) ==
    /\ w \in DOMAIN owner /\ u \in users
    /\ member' = Put(member, <<w, u>>, [text |-> text, role |-> Resolve(w, text)])

\* The first member of a new workspace is entered without a role row.
AddMember(w, u) ==
    /\ w \in DOMAIN owner /\ u \in users
    /\ member' = IF Member(w, u) THEN member
                 ELSE Put(member, <<w, u>>, [text |-> "owner", role |-> NULL])

\* Nothing if the membership is gone, refused by the foreign key if the role is.
AssignMemberRole(w, u, r) ==
    \/ ~Member(w, u) /\ UNCHANGED member
    \/ /\ Member(w, u) /\ r \in Builtin \cup DOMAIN roles
       /\ member' = [member EXCEPT ![<<w, u>>] = [text |-> NameOf(r), role |-> r]]

NameFree(w, name, r) == \A x \in DOMAIN roles \ {r} : roles[x].ws = w => roles[x].name # name

\* A new row has a new id, which no request has read.
CreateRole(r, w, name, rank) ==
    /\ r \notin DOMAIN roles /\ \A q \in Requests : request[q].role # r
    /\ w \in DOMAIN owner /\ NameFree(w, name, r)
    /\ roles' = Put(roles, r, [ws |-> w, name |-> name, rank |-> rank])
    /\ grants' = Put(grants, r, {}) /\ asked' = Put(asked, r, {})

\* The row goes, its grants with it, and members fall back to their text.
DeleteRole(r) ==
    /\ roles' = Drop(roles, {r}) /\ grants' = Drop(grants, {r})
    /\ asked' = Drop(asked, {r}) /\ mixed' = mixed \ {r}
    /\ member' = [p \in DOMAIN member |->
         IF member[p].role = r THEN [member[p] EXCEPT !.role = NULL] ELSE member[p]]

-----------------------------------------------------------------------------
(* Requests in flight.                                                     *)

Admit(q, call) == request[q] = Blank /\ request' = [request EXCEPT ![q] = call]
Doing(q, op) == request[q].do = op
Done(q) == request' = [request EXCEPT ![q] = Blank]
Others(q) == Requests \ {q}

\* Replacing the grants is a transaction: DELETE of the rows its snapshot shows,
\* INSERT, COMMIT.
Replacing(q, r) == Doing(q, "SetRolePermissions") /\ request[q].role = r

\* Opens the transaction: seen is what its DELETE finds.
BeginReplace(q, r, keys) ==
    /\ r \in DOMAIN roles
    /\ request' = [p \in Requests |->
         IF p = q THEN [Blank EXCEPT !.do = "SetRolePermissions", !.role = r, !.keys = keys,
                        !.seen = grants[r],
                        !.alone = ~\E o \in Others(q) : Replacing(o, r),
                        !.behind = {o \in Others(q) :
                                      Replacing(o, r) /\ request[o].seen \cap grants[r] # {}}]
         ELSE IF Replacing(p, r) THEN [request[p] EXCEPT !.alone = FALSE] ELSE request[p]]

\* Mutated form: the new rows are added and none is deleted.
CommitReplaceOnTop(q) ==
    LET t == request[q]
    IN  /\ Doing(q, "SetRolePermissions") /\ t.role \in DOMAIN roles /\ t.behind = {}
        /\ grants' = [grants EXCEPT ![t.role] = @ \cup t.keys]
        /\ asked' = [asked EXCEPT ![t.role] = t.keys]
        /\ mixed' = IF t.alone THEN mixed \ {t.role} ELSE mixed \cup {t.role}
        /\ Done(q)
        /\ UNCHANGED <<users, owner, spaceHome, roles, member, spaceMember>>

\* A row another transaction deletes too is waited for; what that one inserted in
\* its place is not in this one's snapshot and stays.
CommitReplace(q) ==
    LET t == request[q]
    IN  /\ Doing(q, "SetRolePermissions") /\ t.role \in DOMAIN roles /\ t.behind = {}
        /\ \A o \in Others(q) : Replacing(o, t.role) /\ q \notin request[o].behind
                                  => request[o].seen \cap t.keys = {}
        /\ grants' = [grants EXCEPT ![t.role] = (@ \ t.seen) \cup t.keys]
        /\ asked' = [asked EXCEPT ![t.role] = t.keys]
        /\ mixed' = IF t.alone THEN mixed \ {t.role} ELSE mixed \cup {t.role}
        /\ request' = [p \in Requests |->
             IF p = q THEN Blank
             ELSE IF Replacing(p, t.role)
             THEN [request[p] EXCEPT !.seen = @ \ t.seen, !.behind = @ \ {q}] ELSE request[p]]
        /\ UNCHANGED <<users, owner, spaceHome, roles, member, spaceMember>>

\* A statement fails, a row it refers to is gone, or a check of the service
\* refuses; a transaction leaves nothing behind.
FailRequest(q) ==
    /\ request[q] # Blank
    /\ request' = [p \in Requests |->
         IF p = q THEN Blank
         ELSE IF Doing(p, "SetRolePermissions") THEN [request[p] EXCEPT !.behind = @ \ {q}]
         ELSE request[p]]
    /\ UNCHANGED <<users, owner, spaceHome, roles, grants, member, spaceMember, asked, mixed>>

-----------------------------------------------------------------------------
(* service/role, called once the policy has answered (handler/role). What  *)
(* single statements do happens with the answer.                           *)

MayManage(w, key) == \E a \in users : HasPermission(w, a, key)
\* Permission in the workspace the request names; the role may be of another.
MayManageRoles == \E w \in Workspaces : MayManage(w, "role.manage")

rowsFixed == UNCHANGED <<users, owner, spaceHome, spaceMember>>

createRole(q, w, r, name, rank, keys) ==
    /\ MayManage(w, "role.manage")
    /\ CreateRole(r, w, name, rank)
    /\ IF keys = {} THEN UNCHANGED request
       ELSE Admit(q, [Blank EXCEPT !.do = "SetPermissions", !.role = r, !.keys = keys])
    /\ rowsFixed /\ UNCHANGED <<member, mixed>>

\* Built-in roles are read-only. The row is read, changed and written back whole;
\* NULL is a field the request leaves out.
updateRole(q, r, name, rank) ==
    /\ r \in DOMAIN roles /\ MayManageRoles
    /\ Admit(q, [Blank EXCEPT !.do = "UpdateRole", !.role = r,
         !.row = [roles[r] EXCEPT !.name = IF name = NULL THEN @ ELSE name,
                                  !.rank = IF rank = NULL THEN @ ELSE rank]])
    /\ rowsFixed /\ UNCHANGED <<roles, grants, member, asked, mixed>>

UpdateRole(q) ==
    /\ Doing(q, "UpdateRole")
    /\ LET r == request[q].role row == request[q].row
       IN  /\ NameFree(row.ws, row.name, r)
           /\ roles' = IF r \in DOMAIN roles THEN [roles EXCEPT ![r] = row] ELSE roles
    /\ Done(q)
    /\ rowsFixed /\ UNCHANGED <<grants, member, asked, mixed>>

deleteRole(r) ==
    /\ r \in DOMAIN roles /\ MayManageRoles
    /\ \A o \in Requests : ~Replacing(o, r)
    /\ DeleteRole(r)
    /\ rowsFixed /\ UNCHANGED request

setRolePermissions(q, r, keys) ==
    /\ r \in DOMAIN roles /\ MayManageRoles
    /\ Admit(q, [Blank EXCEPT !.do = "SetPermissions", !.role = r, !.keys = keys])
    /\ rowsFixed /\ UNCHANGED <<roles, grants, member, asked, mixed>>

SetPermissions(q) ==
    /\ Doing(q, "SetPermissions")
    /\ BeginReplace(q, request[q].role, request[q].keys)
    /\ rowsFixed /\ UNCHANGED <<roles, grants, member, asked, mixed>>

assignToMember(q, w, u, r) ==
    /\ MayManage(w, "member.manage_roles")
    /\ r \in Builtin \cup DOMAIN roles
    /\ Admit(q, [Blank EXCEPT !.do = "AssignToMember", !.ws = w, !.user = u, !.role = r])
    /\ rowsFixed /\ UNCHANGED <<roles, grants, member, asked, mixed>>

\* Mutated form: the role's workspace is not compared.
AssignToMemberAny(q) ==
    /\ Doing(q, "AssignToMember") /\ request[q].role \in Builtin \cup DOMAIN roles
    /\ request' = [request EXCEPT ![q].do = "AssignMemberRole"]
    /\ rowsFixed /\ UNCHANGED <<roles, grants, member, asked, mixed>>

\* The look at the role: it must exist and be built in or of the same workspace. The
\* statement that assigns it comes after, with what may have changed by then.
AssignToMember(q) ==
    LET r == request[q].role IN
    /\ Doing(q, "AssignToMember") /\ r \in Builtin \cup DOMAIN roles
    /\ r \in DOMAIN roles => roles[r].ws = request[q].ws
    /\ request' = [request EXCEPT ![q].do = "AssignMemberRole"]
    /\ rowsFixed /\ UNCHANGED <<roles, grants, member, asked, mixed>>

AssignChecked(q) ==
    /\ Doing(q, "AssignMemberRole")
    /\ AssignMemberRole(request[q].ws, request[q].user, request[q].role)
    /\ Done(q)
    /\ rowsFixed /\ UNCHANGED <<roles, grants, asked, mixed>>

-----------------------------------------------------------------------------
(* service/member, service/workspace, service/space and the accounts.      *)

membersFixed == UNCHANGED <<users, owner, spaceHome, roles, grants, asked, mixed>>

AddWorkspaceMember(w, u, text) ==
    /\ UpsertMember(w, u, text)
    /\ membersFixed /\ UNCHANGED spaceMember

RemoveWorkspaceMember(w, u) ==
    /\ member' = Drop(member, {<<w, u>>})
    /\ membersFixed /\ UNCHANGED <<spaceMember, request>>

addWS(w, u, text) ==
    MayManage(w, "member.invite") /\ AddWorkspaceMember(w, u, text) /\ UNCHANGED request
removeWS(w, u) == MayManage(w, "member.remove") /\ RemoveWorkspaceMember(w, u)

\* The members of a space are anybody's to change.
AddSpaceMember(s, u, text) ==
    /\ s \in DOMAIN spaceHome /\ u \in users
    /\ spaceMember' = Put(spaceMember, <<s, u>>, text)
    /\ membersFixed /\ UNCHANGED <<member, request>>

RemoveSpaceMember(s, u) ==
    /\ spaceMember' = Drop(spaceMember, {<<s, u>>})
    /\ membersFixed /\ UNCHANGED <<member, request>>

createSpace(w, s) ==
    /\ \E a \in users : RequireWorkspaceMember(w, a)
    /\ s \notin DOMAIN spaceHome
    /\ spaceHome' = Put(spaceHome, s, w)
    /\ UNCHANGED <<users, owner, roles, grants, member, spaceMember, request, asked, mixed>>

deleteSpace(s) ==
    /\ \E a \in users : RequireSpaceRole(s, a, "admin")
    /\ spaceHome' = Drop(spaceHome, {s})
    /\ spaceMember' = Drop(spaceMember, {s} \X Users)
    /\ UNCHANGED <<users, owner, roles, grants, member, request, asked, mixed>>

\* The workspace's row comes first, its owner's membership second.
CreateWorkspace(q, w, u) ==
    /\ w \notin DOMAIN owner /\ u \in users
    /\ owner' = Put(owner, w, u)
    /\ Admit(q, [Blank EXCEPT !.do = "AddMember", !.ws = w, !.user = u])
    /\ UNCHANGED <<users, spaceHome, roles, grants, member, spaceMember, asked, mixed>>

JoinOwnWorkspace(q) ==
    /\ Doing(q, "AddMember")
    /\ AddMember(request[q].ws, request[q].user)
    /\ Done(q)
    /\ membersFixed /\ UNCHANGED spaceMember

\* An admin of any workspace, though not its owner.
globalAdminContext(a) == a = OUTSIDE \/ HasRoleAnywhere(a, "admin")
adminContext(w, a) == HasPermission(w, a, "user.manage")
requireTargetMember(w, u) == Member(w, u)

\* A new account has a new id, which no request has read.
CreateUser(u) ==
    /\ u \notin users /\ \A q \in Requests : request[q].user # u
    /\ users' = users \cup {u}
    /\ UNCHANGED <<owner, spaceHome, roles, grants, member, spaceMember, asked, mixed>>

\* The account and its membership are two calls; the first is not undone when
\* the second fails.
adminCreate(q, w, u, text) ==
    /\ \E a \in users : adminContext(w, a)
    /\ CreateUser(u)
    /\ Admit(q, [Blank EXCEPT !.do = "AddWorkspaceMember", !.ws = w, !.user = u, !.text = text])

JoinCreated(q) ==
    /\ Doing(q, "AddWorkspaceMember")
    /\ AddWorkspaceMember(request[q].ws, request[q].user, request[q].text)
    /\ Done(q)

adminGlobalCreate(u) ==
    (\E a \in users \cup {OUTSIDE} : globalAdminContext(a)) /\ CreateUser(u) /\ UNCHANGED request

\* The memberships go with the user; a workspace stays, without an owner.
DeleteUser(u) ==
    /\ u \in users
    /\ users' = users \ {u}
    /\ member' = Drop(member, Workspaces \X {u})
    /\ spaceMember' = Drop(spaceMember, Spaces \X {u})
    /\ owner' = [w \in DOMAIN owner |-> IF owner[w] = u THEN NULL ELSE owner[w]]
    /\ UNCHANGED <<spaceHome, roles, grants, request, asked, mixed>>

\* Nobody deletes their own account this way.
adminDelete(u) ==
    /\ \E a \in users \ {u}, w \in Workspaces : adminContext(w, a) /\ requireTargetMember(w, u)
    /\ DeleteUser(u)
adminGlobalDelete(u) ==
    /\ \E a \in (users \cup {OUTSIDE}) \ {u} : globalAdminContext(a)
    /\ DeleteUser(u)

-----------------------------------------------------------------------------
RoleNext ==
    \/ \E q \in Requests, r \in CustomRoles, g \in GrantSets :
         \/ setRolePermissions(q, r, g)
         \/ \E w \in Workspaces, n \in Names, k \in Ranks : createRole(q, w, r, n, k, g)
    \/ \E q \in Requests, r \in CustomRoles, n \in Names \cup {NULL}, k \in Ranks \cup {NULL} :
         updateRole(q, r, n, k)
    \/ \E q \in Requests :
         \/ UpdateRole(q) \/ SetPermissions(q) \/ CommitReplace(q)
         \/ AssignToMember(q) \/ AssignChecked(q)
    \/ \E r \in CustomRoles : deleteRole(r)
    \/ \E q \in Requests, w \in Workspaces, u \in Users, r \in CustomRoles \cup {"guest"} :
         assignToMember(q, w, u, r)

MemberNext ==
    \/ \E w \in Workspaces, u \in Users :
         \/ removeWS(w, u)
         \/ \E t \in Texts : addWS(w, u, t)
         \/ \E q \in Requests : CreateWorkspace(q, w, u)
    \/ \E q \in Requests : JoinOwnWorkspace(q) \/ FailRequest(q)

SpaceNext == \E s \in Spaces :
    \/ deleteSpace(s) \/ \E w \in Workspaces : createSpace(w, s)
    \/ \E u \in Users : \/ RemoveSpaceMember(s, u)
                        \/ \E t \in Texts : AddSpaceMember(s, u, t)

AccountNext ==
    \/ \E u \in Users :
         \/ adminGlobalCreate(u) \/ adminDelete(u) \/ adminGlobalDelete(u)
         \/ \E q \in Requests, w \in Workspaces, t \in Texts : adminCreate(q, w, u, t)
    \/ \E q \in Requests : JoinCreated(q)

AccessNext == RoleNext \/ MemberNext \/ SpaceNext \/ AccountNext

AccessSpec == AccessInit /\ [][AccessNext]_accessVars

-----------------------------------------------------------------------------
\* "SetPermissions atomically replaces the role's grant set": the grants are those the
\* last call asked for. Two calls that overlap may leave grants of both, and then too
\* all of the last one's.
GrantsOfOneCall ==
    \A r \in DOMAIN roles :
        /\ asked[r] \subseteq grants[r]
        /\ r \notin mixed => grants[r] = asked[r]

\* The checks by rank, by name and by permission resolve a member to the same role,
\* whatever was renamed, deleted, reassigned or invited again: "they are equivalent for
\* the four built-in roles". A text that names no role ranks as member and grants nothing.
\* Who passes the check of a space's role passes that of its membership.
ChecksAgree ==
    /\ \A p \in DOMAIN member : LET w == p[1] u == p[2] IN
         IF JoinedRoles(w, u) = {}
         THEN workspaceRoleRank(w, u) = 2 /\ EffectivePermissions(w, u) = {}
         ELSE \E r \in JoinedRoles(w, u) :
                /\ RoleNamesForUser(w, u) = {workspaceRole(w, u)}
                /\ workspaceRoleRank(w, u) = RankOf(r)
                /\ r \in Builtin => (RequireWorkspaceRole(w, u, "admin")
                                       <=> HasPermission(w, u, "user.manage"))
    /\ \A s \in DOMAIN spaceHome, u \in users, min \in Builtin :
         RequireSpaceRole(s, u, min) => RequireSpaceMember(s, u)

\* A member's role exists and is built in or of the member's own workspace, though it is
\* looked up in one step and assigned in a later one: between them it may be renamed or
\* deleted, the member removed and invited again, and roles made elsewhere.
RoleFitsWorkspace ==
    \A p \in DOMAIN member :
        member[p].role \in {NULL} \cup Builtin \cup {r \in DOMAIN roles : roles[r].ws = p[1]}

=============================================================================
