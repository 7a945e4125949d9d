------------------------------ MODULE Accounts ------------------------------
(***************************************************************************)
(* Users, roles and sessions: internal/auth (service.go, jwt.go) and the    *)
(* handlers of internal/api that edit them (user_handlers.go,               *)
(* role_handlers.go, auth_handlers.go) behind the middleware.               *)
(*                                                                         *)
(* The database has one connection (db.go:31): a statement or a transaction *)
(* is one step, and the steps of several requests interleave.  A token is   *)
(* signed with the role_version its owner had when Login read the row, and  *)
(* is accepted as long as the owner still has it, also by a panel that was    *)
(* started again: the secret is kept (secret.go).                           *)
(***************************************************************************)
EXTENDS Naturals, FiniteSets, Sequences

CONSTANTS
    Callers,     \* browsers, each with the token of its last login
    MaxUsers,    \* bound: users ever created (AUTOINCREMENT: ids are not reused)
    Custom,      \* roles that are not built in (ids are not reused either)
    Builtin,     \* the built-in roles besides admin: operator, viewer
    SeedCodes,   \* the codes Seed gives each of them
    Codes,       \* permission codes
    Instances,   \* the instances users may be granted
    MaxRequests, \* bound: requests that edit something
    MaxRestarts  \* bound: starts of the panel after the first

ASSUME AccountsAssumption ==
    /\ MaxUsers \in Nat \ {0}
    /\ MaxRequests \in Nat
    /\ MaxRestarts \in Nat
    /\ "admin" \notin Custom \cup Builtin /\ Custom \cap Builtin = {}
    /\ {"user.manage", "role.manage", "instance.manage"} \subseteq Codes
    /\ SeedCodes \in [Builtin -> SUBSET (Codes \ {"instance.manage"})]

Uids  == 1 .. MaxUsers
Roles == Custom \cup Builtin \cup {"admin"}

VARIABLES
    lastUid,   \* the id of the last user created
    users,     \* the row of every user; pw counts the passwords it has had
    userRoles, \* table user_roles
    roles,     \* table roles: is it new, there or gone?
    carries,   \* role_permissions: the codes of every role
    grants,    \* instance_grants of users (nothing grants to roles)
    cut,       \* users whose last patch failed after its first statement (history)
    token,     \* what each browser holds
    req,       \* the request each browser waits for
    count,     \* how many of them there have been
    reseeded,  \* the codes of each role that only a Seed put back (history)
    restarts   \* starts of the panel after the first

tables == <<lastUid, users, userRoles, roles, carries, grants>>
seeding == <<reseeded, restarts>>
accountsVars == <<tables, cut, token, req, count, seeding>>

NoUser  == [there |-> FALSE, active |-> FALSE, pw |-> 0, rv |-> 0]
NewUser == [there |-> TRUE, active |-> TRUE, pw |-> 0, rv |-> 0]
NoToken == [uid |-> 0, rv |-> 0, pw |-> 0, codes |-> {}, reach |-> {}]
Idle    == [at |-> "none"]

\* The codes of a user, through its roles (Can).
Perms(u) == UNION {carries[r] : r \in {s \in Roles : <<u, s>> \in userRoles}}

\* The instances they are good for.
Reach(u) == {i \in Instances : "instance.manage" \in Perms(u) \/ <<u, i>> \in grants}

\* What Seed makes sure of: the admin role carries everything.
Seeds(r) == IF r = "admin" THEN Codes ELSE IF r \in Builtin THEN SeedCodes[r] ELSE {}

\* Seed has run for the first time.
AccountsInit ==
    /\ lastUid = 0
    /\ users = [u \in Uids |-> NoUser]
    /\ userRoles = {}
    /\ roles = [r \in Roles |-> IF r \in Custom THEN "new" ELSE "there"]
    /\ carries = [r \in Roles |-> Seeds(r)]
    /\ grants = {}
    /\ cut = {}
    /\ token = [c \in Callers |-> NoToken]
    /\ req = [c \in Callers |-> Idle]
    /\ count = 0
    /\ reseeded = [r \in Roles |-> {}]
    /\ restarts = 0

\* The edits, and the code each asks for.
Edits ==
    [kind : {"patch"}, uid : Uids, pw : BOOLEAN, active : {"keep", "on", "off"}]
        \cup [kind : {"roles"}, uid : Uids, roles : SUBSET Roles]
        \cup [kind : {"grants"}, uid : Uids, instances : SUBSET Instances]
        \cup [kind : {"create"}, roles : SUBSET Roles]
        \cup [kind : {"delete"}, uid : Uids]
        \cup [kind : {"newRole"}, role : Custom, codes : SUBSET Codes]
        \cup [kind : {"rolePerms"}, role : Roles, codes : SUBSET Codes]
        \cup [kind : {"dropRole"}, role : Roles]
CodeFor(e) == IF e.kind \in {"newRole", "rolePerms", "dropRole"}
              THEN "role.manage" ELSE "user.manage"

\* The statements of handleUserPatch, in their order; a mistaken order.
PatchBumpsFirst == <<"bump", "password", "active">>
PatchSteps == <<"password", "active", "bump">>

\* A new role_version for the users us, by table rows.
Bump(rows, us) ==
    [u \in Uids |-> IF u \in us /\ rows[u].there THEN [rows[u] EXCEPT !.rv = @ + 1]
                    ELSE rows[u]]
HoldersOf(r) == {u \in Uids : <<u, r>> \in userRoles}

Answer(c) == req' = [req EXCEPT ![c] = Idle]

-----------------------------------------------------------------------------
(* POST /setup: the password is hashed, then everything happens in one      *)
(* transaction.                                                             *)

Setup(c) ==
    /\ req[c].at = "none"
    /\ req' = [req EXCEPT ![c] = [at |-> "setup"]]
    /\ UNCHANGED <<tables, cut, token, count, seeding>>

SetupCommits(c) ==
    /\ req[c].at = "setup"
    /\ \A u \in Uids : ~users[u].there
    /\ lastUid < MaxUsers
    /\ lastUid' = lastUid + 1
    /\ users' = [users EXCEPT ![lastUid'] = NewUser]
    /\ userRoles' = userRoles \cup {<<lastUid', "admin">>}
    /\ Answer(c)
    /\ UNCHANGED <<roles, carries, grants, cut, token, count, seeding>>

SetupRefused(c) ==
    /\ req[c].at = "setup"
    /\ \/ \E u \in Uids : users[u].there
       \/ lastUid = MaxUsers
    /\ Answer(c)
    /\ UNCHANGED <<tables, cut, token, count, seeding>>

-----------------------------------------------------------------------------
(* POST /login: one SELECT; then the password is compared and a token is    *)
(* signed, or the answer is that name or password are wrong.                *)

LoginReads(c) ==
    /\ req[c].at = "none"
    /\ \E u \in Uids :
          /\ users[u].there
          /\ req' = [req EXCEPT ![c] =
                [at |-> "login", active |-> users[u].active,
                 new |-> [uid |-> u, rv |-> users[u].rv, pw |-> users[u].pw,
                          codes |-> Perms(u), reach |-> Reach(u)]]]
    /\ UNCHANGED <<tables, cut, token, count, seeding>>

LoginSigns(c) ==
    /\ req[c].at = "login"
    /\ req[c].active
    /\ token' = [token EXCEPT ![c] = req[c].new]
    /\ Answer(c)
    /\ UNCHANGED <<tables, cut, count, seeding>>

LoginRefused(c) ==
    /\ req[c].at = "login"
    /\ Answer(c)
    /\ UNCHANGED <<tables, cut, token, count, seeding>>

-----------------------------------------------------------------------------
(* authRequired and requirePerm, one query after the other *)

\* SessionUser
Accepted(t) == /\ t.uid # 0
               /\ users[t.uid].there
               /\ users[t.uid].active
               /\ users[t.uid].rv = t.rv

Request(c) ==
    /\ req[c].at = "none"
    /\ count < MaxRequests
    /\ Accepted(token[c])
    /\ count' = count + 1
    /\ \E e \in Edits :
          req' = [req EXCEPT ![c] = [at |-> "perm", caller |-> token[c].uid, edit |-> e]]
    /\ UNCHANGED <<tables, cut, token, seeding>>

\* What a permitted edit begins with.
First(e) ==
    CASE e.kind = "patch"   -> [at |-> "patch", edit |-> e, todo |-> PatchSteps]
      [] e.kind = "rolePerms" -> [at |-> "builtin", edit |-> e]
      [] e.kind = "dropRole" -> [at |-> "builtin", edit |-> e]
      [] OTHER -> [at |-> e.kind, edit |-> e]

Permitted(c) ==
    /\ req[c].at = "perm"
    /\ CodeFor(req[c].edit) \in Perms(req[c].caller)
    /\ req[c].edit.kind = "delete" => req[c].edit.uid # req[c].caller
    /\ req' = [req EXCEPT ![c] = First(req[c].edit)]
    /\ UNCHANGED <<tables, cut, token, count, seeding>>

\* No permission; or a user is to delete itself.
Refused(c) ==
    /\ req[c].at = "perm"
    /\ \/ CodeFor(req[c].edit) \notin Perms(req[c].caller)
       \/ req[c].edit.kind = "delete" /\ req[c].edit.uid = req[c].caller
    /\ Answer(c)
    /\ UNCHANGED <<tables, cut, token, count, seeding>>

-----------------------------------------------------------------------------
(* Users *)

\* One statement of handleUserPatch.
Patched(row, e, step) ==
    IF ~row.there THEN row
    ELSE CASE step = "password" -> [row EXCEPT !.pw = IF e.pw THEN @ + 1 ELSE @]
           [] step = "active" -> [row EXCEPT !.active =
                                    IF e.active = "keep" THEN @ ELSE e.active = "on"]
           [] step = "bump" -> [row EXCEPT !.rv = @ + 1]

PatchStep(c) ==
    /\ req[c].at = "patch"
    /\ LET e == req[c].edit  todo == req[c].todo
       IN  /\ users' = [users EXCEPT ![e.uid] = Patched(@, e, Head(todo))]
           /\ IF Tail(todo) = <<>> THEN Answer(c)
                                   ELSE req' = [req EXCEPT ![c].todo = Tail(todo)]
           /\ cut' = IF Head(todo) = "bump" THEN cut \ {e.uid} ELSE cut
    /\ UNCHANGED <<lastUid, userRoles, roles, carries, grants, token, count, seeding>>

\* A statement fails: the ones before it stay.
Past(c) == req[c].at = "patch" /\ req[c].todo # PatchSteps
PatchFails(c) ==
    /\ req[c].at = "patch"
    /\ cut' = IF Past(c) THEN cut \cup {req[c].edit.uid} ELSE cut
    /\ Answer(c)
    /\ UNCHANGED <<tables, token, count, seeding>>

\* ReplaceUserRoles, a transaction; of the user nothing is asked.  A mistaken
\* form does not bump.
ReplaceWithoutBump(c) ==
    /\ req[c].at = "roles"
    /\ LET u == req[c].edit.uid
       IN  /\ userRoles' = {p \in userRoles : p[1] # u} \cup ({u} \X req[c].edit.roles)
           /\ users' = users
    /\ Answer(c)
    /\ UNCHANGED <<lastUid, roles, carries, grants, cut, token, count, seeding>>

ReplaceUserRoles(c) ==
    /\ req[c].at = "roles"
    /\ LET u == req[c].edit.uid
       IN  /\ userRoles' = {p \in userRoles : p[1] # u} \cup ({u} \X req[c].edit.roles)
           /\ users' = Bump(users, {u})
    /\ Answer(c)
    /\ UNCHANGED <<lastUid, roles, carries, grants, cut, token, count, seeding>>

\* ReplaceUserGrants, which asks for neither the user nor the instances.
ReplaceUserGrants(c) ==
    /\ req[c].at = "grants"
    /\ LET u == req[c].edit.uid
       IN  /\ grants' = {p \in grants : p[1] # u} \cup ({u} \X req[c].edit.instances)
           /\ users' = Bump(users, {u})
    /\ Answer(c)
    /\ UNCHANGED <<lastUid, userRoles, roles, carries, cut, token, count, seeding>>

\* handleUserCreate: the row first, its roles in a transaction of their own.
UserCreate(c) ==
    /\ req[c].at = "create"
    /\ lastUid < MaxUsers
    /\ lastUid' = lastUid + 1
    /\ users' = [users EXCEPT ![lastUid'] = NewUser]
    /\ IF req[c].edit.roles = {} THEN Answer(c)
       ELSE req' = [req EXCEPT ![c] =
                [at |-> "roles",
                 edit |-> [kind |-> "roles", uid |-> lastUid', roles |-> req[c].edit.roles]]]
    /\ UNCHANGED <<userRoles, roles, carries, grants, cut, token, count, seeding>>

\* handleUserDelete: the last admin is looked for inside the transaction, by the
\* rows of user_roles.
Admins == HoldersOf("admin")

UserDelete(c) ==
    /\ req[c].at = "delete"
    /\ LET u == req[c].edit.uid
       IN  /\ users[u].there
           /\ u \in Admins => Cardinality(Admins) > 1
           /\ users' = [users EXCEPT ![u] = NoUser]
           /\ userRoles' = {p \in userRoles : p[1] # u}
           /\ grants' = {p \in grants : p[1] # u}
    /\ Answer(c)
    /\ UNCHANGED <<lastUid, roles, carries, cut, token, count, seeding>>

\* Any other edit that fails, or is refused, changes nothing: it is one
\* transaction, or one insert that comes first.
EditFails(c) ==
    /\ req[c].at \in {"roles", "grants", "create", "delete", "newRole", "perms", "builtin", "dropRole"}
    /\ Answer(c)
    /\ UNCHANGED <<tables, cut, token, count, seeding>>

-----------------------------------------------------------------------------
(* Roles *)

\* handleRoleCreate: the role first, its permissions in a transaction.
RoleCreate(c) ==
    /\ req[c].at = "newRole"
    /\ roles[req[c].edit.role] = "new"
    /\ roles' = [roles EXCEPT ![req[c].edit.role] = "there"]
    /\ req' = [req EXCEPT ![c].at = "perms"]
    /\ UNCHANGED <<lastUid, users, userRoles, carries, grants, cut, token, count, seeding>>

\* handleRolePerms and handleRoleDelete look before their transaction whether
\* the role is there; admin keeps its permissions, and every built-in role stays.
BuiltinAsked(c) ==
    /\ req[c].at = "builtin"
    /\ roles[req[c].edit.role] = "there"
    /\ req[c].edit.role # "admin"
    /\ req[c].edit.kind = "dropRole" => req[c].edit.role \in Custom
    /\ req' = [req EXCEPT ![c].at =
                  IF req[c].edit.kind = "dropRole" THEN "dropRole" ELSE "perms"]
    /\ UNCHANGED <<tables, cut, token, count, seeding>>

\* ReplaceRolePermissions bumps the holders of the role.
ReplaceRolePermissions(c) ==
    /\ req[c].at = "perms"
    /\ carries' = [carries EXCEPT ![req[c].edit.role] = req[c].edit.codes]
    /\ users' = Bump(users, HoldersOf(req[c].edit.role))
    /\ reseeded' = [reseeded EXCEPT ![req[c].edit.role] = {}]
    /\ Answer(c)
    /\ UNCHANGED <<lastUid, userRoles, roles, grants, cut, token, count, restarts>>

\* handleRoleDelete bumps no one.
RoleDelete(c) ==
    /\ req[c].at = "dropRole"
    /\ LET r == req[c].edit.role
       IN  /\ roles' = [roles EXCEPT ![r] = "gone"]
           /\ carries' = [carries EXCEPT ![r] = {}]
           /\ userRoles' = {p \in userRoles : p[2] # r}
    /\ Answer(c)
    /\ UNCHANGED <<lastUid, users, grants, cut, token, count, seeding>>

-----------------------------------------------------------------------------
(* The panel dies and is started again: the requests are gone wherever they   *)
(* were, the tokens are as good as before, and Seed puts back what the edits  *)
(* took from a built-in role, without a bump.                                *)

PanelRestarts ==
    /\ restarts < MaxRestarts
    /\ restarts' = restarts + 1
    /\ carries' = [r \in Roles |-> carries[r] \cup Seeds(r)]
    /\ reseeded' = [r \in Roles |-> reseeded[r] \cup (Seeds(r) \ carries[r])]
    /\ cut' = cut \cup {req[c].edit.uid : c \in {d \in Callers : Past(d)}}
    /\ req' = [c \in Callers |-> Idle]
    /\ UNCHANGED <<lastUid, users, userRoles, roles, grants, token, count>>

-----------------------------------------------------------------------------
AuthNext(c) ==
    \/ Setup(c) \/ SetupCommits(c) \/ SetupRefused(c)
    \/ LoginReads(c) \/ LoginSigns(c) \/ LoginRefused(c)
    \/ Request(c) \/ Permitted(c) \/ Refused(c)
UserNext(c) ==
    \/ PatchStep(c) \/ PatchFails(c) \/ ReplaceUserRoles(c) \/ ReplaceUserGrants(c)
    \/ UserCreate(c) \/ UserDelete(c) \/ EditFails(c)
RoleNext(c) ==
    \/ RoleCreate(c) \/ BuiltinAsked(c) \/ ReplaceRolePermissions(c) \/ RoleDelete(c)

AccountsNext == \/ \E c \in Callers : AuthNext(c) \/ UserNext(c) \/ RoleNext(c)
                \/ PanelRestarts

AccountsSpec == AccountsInit /\ [][AccountsNext]_accountsVars

-----------------------------------------------------------------------------
(* Properties *)

\* The types of the variables; the admin role is always there.
TypeOK ==
    /\ lastUid \in 0 .. MaxUsers
    /\ users \in [Uids -> [there : BOOLEAN, active : BOOLEAN, pw : Nat, rv : Nat]]
    /\ \A u \in Uids : users[u].there => u <= lastUid
    /\ userRoles \subseteq Uids \X Roles
    /\ roles \in [Roles -> {"new", "there", "gone"}] /\ roles["admin"] = "there"
    /\ carries \in [Roles -> SUBSET Codes]
    /\ grants \subseteq Uids \X Instances
    /\ cut \subseteq Uids
    /\ token \in [Callers -> [uid : 0 .. MaxUsers, rv : Nat, pw : Nat, codes : SUBSET Codes,
                              reach : SUBSET Instances]]
    /\ count \in 0 .. MaxRequests
    /\ reseeded \in [Roles -> SUBSET Codes] /\ restarts \in 0 .. MaxRestarts

\* A patch of u that has not come to its bump yet.
InPatch(u) == \E c \in Callers : req[c].at = "patch" /\ req[c].edit.uid = u

\* A token that is accepted was signed for the password its owner has now
\* (service.go:131): a password change ends the sessions from before, whatever
\* login ran beside it.  While the change is under way, or when it failed half
\* way, it has not done so yet.
TokensFollowPasswords ==
    \A c \in Callers :
        Accepted(token[c]) /\ ~InPatch(token[c].uid) /\ token[c].uid \notin cut
            => token[c].pw = users[token[c].uid].pw

\* The permissions of a user but for what only a Seed put back.
Held(u) == UNION {carries[r] \ reseeded[r] : r \in {s \in Roles : <<u, s>> \in userRoles}}

\* Nobody gets a permission by an edit without logging in again (service.go:181, 202,
\* 223): an accepted token's owner has at most the permissions of its login, for at
\* most the instances it had then.  The one way around it is a start of the panel: its
\* Seed gives a built-in role codes back that an edit took, and bumps nobody
\* (seed.go:25-30); no instance comes with them.
NoPermissionWithoutLogin ==
    \A c \in Callers :
        Accepted(token[c]) =>
            /\ Held(token[c].uid) \subseteq token[c].codes
            /\ Reach(token[c].uid) \subseteq token[c].reach

=============================================================================
