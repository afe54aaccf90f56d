----------------------------- MODULE MCWorkspace -----------------------------
(***************************************************************************)
(* The services of a workspace beside its tasks, for TLC: who may do what, *)
(* the accounts and their logins, comments, chat, the hierarchy with its   *)
(* forms and files, and the catalogue rows. None of them writes another's  *)
(* rows as modelled here, so a behaviour is taken up by one service: Init  *)
(* chooses which, and the bounds of each can be its own.                   *)
(***************************************************************************)
EXTENDS Access, Identity, Comments, Chat, Content, Catalog, TLC

VARIABLE service

workspaceVars ==
    <<service, accessVars, identityVars, commentVars, chatVars, contentVars, catalogVars>>

AccessServices == {"role", "account", "space"}
IdentityServices == {"mfa", "oidc"}
ContentServices == {"list", "form", "attachment"}
CatalogServices == {"doc", "whiteboard", "view", "dashboard", "customfield", "status", "tag",
                    "credential", "savedsearch", "template"}

\* Whoever comes first, and wherever, the rest is the same but for the names.
OneStart ==
    /\ member = [p \in {<<CHOOSE w \in Workspaces : TRUE, CHOOSE u \in Users : TRUE>>} |->
                   [text |-> "owner", role |-> NULL]]
    /\ service \notin IdentityServices => \A a \in Accounts : account[a] = "password"

WorkspaceInit ==
    /\ service \in AccessServices \cup IdentityServices \cup {"comment", "channel", "message"}
                     \cup ContentServices \cup CatalogServices
    /\ AccessInit /\ IdentityInit /\ CommentInit /\ ChatInit /\ ContentInit /\ CatalogInit
    /\ OneStart

\* Each service with the steps of others that take away what it works on.
AccessStep ==
    \/ service = "role" /\ (RoleNext \/ MemberNext)
    \/ service = "account" /\ (AccountNext \/ MemberNext)
    \/ service = "space" /\ (SpaceNext \/ MemberNext \/ \E u \in Users : adminGlobalCreate(u))

IdentityStep ==
    \/ service = "mfa" /\ (PasswordNext(Enrolling) \/ MfaNext)
    \/ service = "oidc" /\ (PasswordNext(Accounts) \/ OidcNext \/ SessionNext)

\* Of the steps of the channels, messages only need that they come and go.
ChatStep ==
    \/ service = "channel" /\ ChannelNext
    \/ /\ service = "message"
       /\ \/ MessageNext \/ changeChannel
          \/ \E u \in ChatUsers : createForSpace(u, NOCHAT)

ContentStep ==
    \/ /\ service = "list"
       /\ \/ HierarchyNext \/ TaskNext
          \/ \E f \in Forms, l \in ContentLists : FormCreate(f, l, TRUE)
    \/ service = "form" /\ (FormNext \/ TaskNext)
    \/ service = "attachment" /\ (FileNext \/ TaskNext)

CatalogStep == \E c \in EditCalls :
    \/ service = "doc" /\ docNext(c)
    \/ service = "whiteboard" /\ whiteboardNext(c)
    \/ service = "view" /\ viewNext(c)
    \/ service = "dashboard" /\ dashboardNext(c)
    \/ service = "customfield" /\ fieldNext(c)
    \/ service = "status" /\ statusNext(c)
    \/ service = "tag" /\ tagNext
    \/ service = "credential" /\ credentialNext(c)
    \/ service = "savedsearch" /\ searchNext(c)
    \/ service = "template" /\ templateNext(c)

WorkspaceNext ==
    /\ UNCHANGED service
    /\ \/ /\ AccessStep
          /\ UNCHANGED <<identityVars, commentVars, chatVars, contentVars, catalogVars>>
       \/ /\ IdentityStep
          /\ UNCHANGED <<accessVars, commentVars, chatVars, contentVars, catalogVars>>
       \/ /\ service = "comment" /\ CommentNext
          /\ UNCHANGED <<accessVars, identityVars, chatVars, contentVars, catalogVars>>
       \/ /\ ChatStep
          /\ UNCHANGED <<accessVars, identityVars, commentVars, contentVars, catalogVars>>
       \/ /\ ContentStep
          /\ UNCHANGED <<accessVars, identityVars, commentVars, chatVars, catalogVars>>
       \/ /\ CatalogStep
          /\ UNCHANGED <<accessVars, identityVars, commentVars, chatVars, contentVars>>

WorkspaceSpec == WorkspaceInit /\ [][WorkspaceNext]_workspaceVars

\* Calls are interchangeable; the sets of them share their two values, so that one
\* exchange serves all.
Interchangeable == Permutations(Requests)
=============================================================================
