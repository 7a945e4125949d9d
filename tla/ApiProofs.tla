------------------------------ MODULE ApiProofs -----------------------------
(***************************************************************************)
(* Machine-checked facts about three parts that the API's requests reach:    *)
(* Accounts, Settings, and the cron expressions of Algorithms.  They share   *)
(* nothing but this module, and the states of each are its own.              *)
(*                                                                         *)
(* Accounts: for any browsers, roles, codes and instances, and any number of *)
(* users and requests.  The inductive invariant speaks of the tokens browsers*)
(* hold and of the ones a login has read and not signed yet alike.           *)
(*                                                                         *)
(* Settings: for any handlers, keys and cases.  TalkInv is about the packets *)
(* of a connection, FileInv about the file, HotInv about what a server was   *)
(* told.  Of the codec the last two need that one edit is read again as it   *)
(* was written (Sound), which TLC checks of the cases of its run.            *)
(*                                                                         *)
(* Cron expressions: for any expressions, times and calendar.  The bits of a *)
(* parsed expression match the minutes it means (MatchesIsDue), so the first *)
(* match of the scan is the first due minute.                                *)
(***************************************************************************)
EXTENDS Accounts, Algorithms, TLAPS, FiniteSetTheorems, SequenceTheorems,
        WellFoundedInduction

-----------------------------------------------------------------------------
(*                               Accounts                                  *)

\* What a browser holds, or a login is about to give it.
Tokens == [uid : 0 .. MaxUsers, rv : Nat, pw : Nat, codes : SUBSET Codes,
           reach : SUBSET Instances]

UserRows == [there : BOOLEAN, active : BOOLEAN, pw : Nat, rv : Nat]

\* The requests, by how far they have come.
EditsOf(kinds) == {e \in Edits : e.kind \in kinds}
Logins  == [at : {"login"}, active : BOOLEAN, new : Tokens]
Asked   == [at : {"perm"}, caller : 0 .. MaxUsers, edit : Edits]
Patches == [at : {"patch"}, edit : EditsOf({"patch"}),
            todo : {PatchSteps, <<"active", "bump">>, <<"bump">>}]
Single  == UNION {[at : {kind}, edit : EditsOf({kind})] :
                     kind \in {"roles", "grants", "create", "delete", "newRole"}}
OfRoles == [at : {"perms"}, edit : {e \in EditsOf({"newRole", "rolePerms"}) : e.role # "admin"}]
             \cup [at : {"builtin"}, edit : EditsOf({"rolePerms", "dropRole"})]
             \cup [at : {"dropRole"}, edit : {e \in EditsOf({"dropRole"}) : e.role # "admin"}]
Reqs == {Idle, [at |-> "setup"]} \cup Logins \cup Asked \cup Patches \cup Single \cup OfRoles

\* A patch of u that has changed its password, perhaps, and not bumped it yet.
PastPassword(u) ==
    \E c \in Callers : req[c].at = "patch" /\ req[c].edit.uid = u /\ req[c].todo # PatchSteps

\* What a token is good for: its role_version is never ahead of the row's, and
\* while it is the row's the owner has no more than it had at the login, nor
\* another password, except for a patch that has yet to bump.
TokenOK(t) ==
    t.uid # 0 =>
        /\ t.uid <= lastUid
        /\ users[t.uid].there =>
               /\ t.rv <= users[t.uid].rv
               /\ t.rv = users[t.uid].rv =>
                      /\ Held(t.uid) \subseteq t.codes
                      /\ Reach(t.uid) \subseteq t.reach
                      /\ \/ t.pw = users[t.uid].pw
                         \/ PastPassword(t.uid)
                         \/ t.uid \in cut

TokenInv == \A c \in Callers : /\ TokenOK(token[c])
                               /\ req[c].at = "login" => TokenOK(req[c].new)

\* Nobody takes anything from the admin role: Seed has nothing to put back there.
AdminInv == carries["admin"] = Codes

Inv == TypeOK /\ req \in [Callers -> Reqs] /\ TokenInv /\ AdminInv
-----------------------------------------------------------------------------
(* Requests *)

LEMMA EditFacts ==
    ASSUME NEW e \in Edits
    PROVE  /\ e.kind \in {"patch", "roles", "grants", "delete"} => e.uid \in Uids
           /\ e.kind \in {"roles", "create"} => e.roles \in SUBSET Roles
           /\ e.kind = "grants" => e.instances \in SUBSET Instances
           /\ e.kind = "newRole" => e.role \in Custom
           /\ e.kind \in {"rolePerms", "dropRole"} => e.role \in Roles
           /\ e.kind \in {"newRole", "rolePerms"} => e.codes \in SUBSET Codes
           /\ e.kind \in {"patch", "roles", "grants", "create", "delete", "newRole",
                          "rolePerms", "dropRole"}
  BY DEF Edits

\* The form of a request follows from how far it has come.
LEMMA ReqFacts ==
    ASSUME NEW q \in Reqs
    PROVE  /\ q.at = "login" => q \in Logins
           /\ q.at = "perm" => q \in Asked
           /\ q.at = "patch" => q \in Patches
           /\ q.at \in {"roles", "grants", "create", "delete", "newRole"}
                  => q.edit \in Edits /\ q.edit.kind = q.at
           /\ q.at = "perms" => /\ q.edit \in Edits /\ q.edit.kind \in {"newRole", "rolePerms"}
                                /\ q.edit.role # "admin"
           /\ q.at = "builtin" => q.edit \in Edits /\ q.edit.kind \in {"rolePerms", "dropRole"}
           /\ q.at = "dropRole" => /\ q.edit \in Edits /\ q.edit.kind = "dropRole"
                                   /\ q.edit.role # "admin"
<1>1. CASE q \in {Idle, [at |-> "setup"]}
  BY <1>1 DEF Idle
<1>2. CASE q \in Logins \cup Asked \cup Patches
  BY <1>2 DEF Logins, Asked, Patches
<1>3. CASE q \in Single
  BY <1>3 DEF Single, EditsOf
<1>4. CASE q \in OfRoles
  BY <1>4 DEF OfRoles, EditsOf
<1> QED BY <1>1, <1>2, <1>3, <1>4 DEF Reqs

LEMMA PatchFacts ==
    ASSUME NEW q \in Patches
    PROVE  /\ q.at = "patch" /\ q.edit \in Edits /\ q.edit.kind = "patch"
           /\ q.todo \in {PatchSteps, <<"active", "bump">>, <<"bump">>}
  BY DEF Patches, EditsOf

LEMMA TodoFacts ==
    /\ Head(PatchSteps) = "password" /\ Tail(PatchSteps) = <<"active", "bump">>
    /\ Head(<<"active", "bump">>) = "active" /\ Tail(<<"active", "bump">>) = <<"bump">>
    /\ Head(<<"bump">>) = "bump" /\ Tail(<<"bump">>) = <<>>
    /\ PatchSteps # <<"active", "bump">> /\ PatchSteps # <<"bump">>
    /\ <<"active", "bump">> # <<>> /\ <<"bump">> # <<>>
  BY DEF PatchSteps

LEMMA IdleIs == Idle \in Reqs /\ Idle.at = "none"
  BY DEF Idle, Reqs

-----------------------------------------------------------------------------
(* What a step may do to the rows of a user that tokens were signed for     *)

\* No user comes back, no role_version goes back, and while it stays the user
\* gains nothing and keeps its password, but for a patch that has yet to bump.
Tame(u) ==
    users'[u].there =>
        /\ users[u].there
        /\ users[u].rv <= users'[u].rv
        /\ users[u].rv = users'[u].rv =>
               /\ Held(u)' \subseteq Held(u)
               /\ Reach(u)' \subseteq Reach(u)
               /\ users'[u].pw = users[u].pw \/ PastPassword(u)'
               /\ PastPassword(u) => PastPassword(u)' \/ u \in cut'
               /\ u \in cut => u \in cut'
TameStep == /\ lastUid <= lastUid' /\ lastUid' \in Nat
            /\ \A u \in 1 .. lastUid : Tame(u)

LEMMA TokenKept ==
    ASSUME Inv, users' \in [Uids -> UserRows],
           TameStep, NEW t \in Tokens, TokenOK(t)
    PROVE  TokenOK(t)'
<1> SUFFICES ASSUME t.uid # 0
             PROVE  /\ t.uid <= lastUid'
                    /\ users'[t.uid].there =>
                           /\ t.rv <= users'[t.uid].rv
                           /\ t.rv = users'[t.uid].rv =>
                                  /\ Held(t.uid)' \subseteq t.codes
                                  /\ Reach(t.uid)' \subseteq t.reach
                                  /\ \/ t.pw = users'[t.uid].pw
                                     \/ PastPassword(t.uid)'
                                     \/ t.uid \in cut'
  BY DEF TokenOK
<1> DEFINE u == t.uid
<1>1. /\ u \in 1 .. lastUid /\ u <= lastUid' /\ u \in Uids /\ Tame(u) /\ t.rv \in Nat
      /\ lastUid \in Nat
  BY AccountsAssumption DEF TokenOK, TameStep, Inv, TypeOK, Tokens, Uids
<1>2. users[u].rv \in Nat /\ users'[u].rv \in Nat
  BY <1>1 DEF Inv, TypeOK, UserRows
<1> HIDE DEF u
<1> SUFFICES ASSUME users'[u].there
             PROVE  /\ t.rv <= users'[u].rv
                    /\ t.rv = users'[u].rv =>
                           /\ Held(u)' \subseteq t.codes
                           /\ Reach(u)' \subseteq t.reach
                           /\ t.pw = users'[u].pw \/ PastPassword(u)' \/ u \in cut'
  BY <1>1 DEF u
<1>3. /\ t.rv <= users[u].rv
      /\ t.rv = users[u].rv =>
             /\ Held(u) \subseteq t.codes
             /\ Reach(u) \subseteq t.reach
             /\ t.pw = users[u].pw \/ PastPassword(u) \/ u \in cut
  BY <1>1 DEF TokenOK, Tame, u
<1>4. t.rv <= users'[u].rv
  BY <1>1, <1>2, <1>3 DEF Tame
<1>5. ASSUME t.rv = users'[u].rv
      PROVE  t.rv = users[u].rv /\ users[u].rv = users'[u].rv
  BY <1>1, <1>2, <1>3, <1>5 DEF Tame
<1> QED BY <1>1, <1>3, <1>4, <1>5 DEF Tame

\* What a step does not sign stays good.
LEMMA TokensKept ==
    ASSUME Inv, users' \in [Uids -> UserRows],
           TameStep, token' = token,
           \A d \in Callers : req'[d].at = "login" => req'[d] = req[d]
    PROVE  TokenInv'
<1>1. \A t \in Tokens : TokenOK(t) => TokenOK(t)'
  BY TokenKept
<1>2. ASSUME NEW d \in Callers PROVE TokenOK(token[d])'
  <2>1. PICK t \in Tokens : t = token[d] /\ TokenOK(t)
    BY DEF Inv, TypeOK, TokenInv, Tokens
  <2>2. TokenOK(t)' /\ token'[d] = t
    BY <1>1, <2>1
  <2> QED BY <2>2 DEF TokenOK
<1>3. ASSUME NEW d \in Callers, req'[d].at = "login" PROVE TokenOK(req[d].new)'
  <2>1. PICK t \in Tokens : t = req[d].new /\ TokenOK(t)
    BY <1>3, ReqFacts DEF Inv, TokenInv, Logins
  <2>2. TokenOK(t)' /\ req'[d].new = t
    BY <1>1, <1>3, <2>1
  <2> QED BY <2>2 DEF TokenOK
<1> QED BY <1>2, <1>3 DEF TokenInv

\* Nothing but the request of one browser changes, and it is no patch under way.
LEMMA PastKept ==
    ASSUME Inv, NEW c \in Callers, NEW q \in Reqs, req' = [req EXCEPT ![c] = q],
           req[c].at = "patch" => req[c].todo = PatchSteps
    PROVE  \A u : PastPassword(u) => PastPassword(u)'
  BY DEF Inv, PastPassword

LEMMA AsBefore ==
    ASSUME TypeOK, NEW u \in Uids, UNCHANGED <<users, userRoles, carries, grants, reseeded>>
    PROVE  /\ users'[u].rv = users[u].rv /\ users[u].rv <= users'[u].rv
           /\ Held(u)' = Held(u) /\ Reach(u)' = Reach(u)
  BY DEF TypeOK, Held, Perms, Reach

LEMMA ReqKept ==
    ASSUME Inv, NEW c \in Callers, NEW q \in Reqs, req' = [req EXCEPT ![c] = q]
    PROVE  /\ req' \in [Callers -> Reqs] /\ req'[c] = q
           /\ \A d \in Callers \ {c} : req'[d] = req[d]
  BY DEF Inv

\* A request goes on or is answered, and the tables stay.
LEMMA QuietInv ==
    ASSUME Inv, NEW c \in Callers, NEW q \in Reqs, req' = [req EXCEPT ![c] = q],
           q.at # "login", req[c].at # "patch", UNCHANGED <<tables, cut, token, reseeded, restarts>>,
           count' \in 0 .. MaxRequests
    PROVE  Inv'
<1>1. TypeOK'
  BY DEF Inv, TypeOK, tables
<1>2. req' \in [Callers -> Reqs] /\ \A d \in Callers : req'[d].at = "login" => req'[d] = req[d]
  BY ReqKept
<1>3. TameStep
  <2>1. lastUid' = lastUid /\ lastUid \in Nat /\ 1 .. lastUid \subseteq Uids
    BY AccountsAssumption DEF Inv, TypeOK, tables, Uids
  <2>2. ASSUME NEW u \in 1 .. lastUid PROVE Tame(u)
    <3>1. u \in Uids /\ users' = users /\ cut' = cut
      BY <2>1 DEF tables
    <3> QED BY <3>1, AsBefore, PastKept DEF Tame, Inv, tables
  <2> QED BY <2>1, <2>2 DEF TameStep
<1>4. TokenInv'
  BY <1>1, <1>2, <1>3, TokensKept DEF TypeOK, UserRows
<1> QED BY <1>1, <1>2, <1>4 DEF Inv, AdminInv, tables

LEMMA InitInv == AccountsInit => Inv
<1> SUFFICES ASSUME AccountsInit PROVE Inv
  OBVIOUS
<1>1. TypeOK
  <2>1. \A r \in Roles : Seeds(r) \in SUBSET Codes
    BY AccountsAssumption DEF Seeds
  <2>2. carries \in [Roles -> SUBSET Codes] /\ reseeded \in [Roles -> SUBSET Codes]
    BY <2>1 DEF AccountsInit
  <2> QED BY <2>2, AccountsAssumption DEF AccountsInit, TypeOK, NoUser, NoToken, Roles
<1>2. req \in [Callers -> Reqs] /\ TokenInv
  BY IdleIs DEF AccountsInit, TokenInv, TokenOK, NoToken
<1>3. AdminInv
  BY DEF AccountsInit, AdminInv, Seeds, Roles
<1> QED BY <1>1, <1>2, <1>3 DEF Inv

-----------------------------------------------------------------------------
(* The steps *)

LEMMA SetupInv ==
    ASSUME Inv, NEW c \in Callers, Setup(c)
    PROVE  Inv'
<1>1. [at |-> "setup"] \in Reqs /\ [at |-> "setup"].at = "setup"
  BY DEF Reqs
<1> QED BY <1>1, QuietInv DEF Setup, seeding, Inv, TypeOK

\* Requests that are answered with nothing done.
LEMMA AnsweredInv ==
    ASSUME Inv, NEW c \in Callers, SetupRefused(c) \/ LoginRefused(c) \/ Refused(c) \/ EditFails(c)
    PROVE  Inv'
<1>1. Answer(c) /\ req[c].at # "patch" /\ UNCHANGED <<tables, cut, token, count, reseeded, restarts>>
  BY DEF SetupRefused, LoginRefused, Refused, EditFails, seeding
<1> QED BY <1>1, IdleIs, QuietInv DEF Answer, Inv, TypeOK

LEMMA RequestInv ==
    ASSUME Inv, NEW c \in Callers, Request(c)
    PROVE  Inv'
<1>1. PICK e \in Edits :
         req' = [req EXCEPT ![c] = [at |-> "perm", caller |-> token[c].uid, edit |-> e]]
  BY DEF Request
<1>2. token[c].uid \in 0 .. MaxUsers
  BY DEF Inv, TypeOK
<1> DEFINE q == [at |-> "perm", caller |-> token[c].uid, edit |-> e]
<1>3. q \in Reqs /\ q.at = "perm"
  BY <1>2 DEF Reqs, Asked
<1>4. count' \in 0 .. MaxRequests
  BY AccountsAssumption DEF Inv, TypeOK, Request
<1> HIDE DEF q
<1>5. req' = [req EXCEPT ![c] = q]
  BY <1>1 DEF q
<1> QED BY <1>3, <1>4, <1>5, QuietInv DEF Request, seeding

LEMMA PermittedInv ==
    ASSUME Inv, NEW c \in Callers, Permitted(c)
    PROVE  Inv'
<1> DEFINE e == req[c].edit
           q == First(e)
<1>1. e \in Edits
  BY ReqFacts DEF Permitted, Inv, Asked
<1> HIDE DEF e
<1>2. q \in Reqs /\ q.at # "login"
  <2>1. CASE e.kind = "patch"
    <3>1. q = [at |-> "patch", edit |-> e, todo |-> PatchSteps]
      BY <2>1 DEF First
    <3> QED BY <1>1, <2>1, <3>1 DEF Reqs, Patches, EditsOf
  <2>2. CASE e.kind \in {"rolePerms", "dropRole"}
    <3>1. q = [at |-> "builtin", edit |-> e]
      BY <2>2 DEF First
    <3> QED BY <1>1, <2>2, <3>1 DEF Reqs, OfRoles, EditsOf
  <2>3. CASE e.kind \in {"roles", "grants", "create", "delete", "newRole"}
    <3>1. q = [at |-> e.kind, edit |-> e]
      BY <2>3 DEF First
    <3>2. q \in [at : {e.kind}, edit : EditsOf({e.kind})]
      BY <1>1, <3>1 DEF EditsOf
    <3> QED BY <2>3, <3>1, <3>2 DEF Reqs, Single
  <2> QED BY <1>1, <2>1, <2>2, <2>3, EditFacts
<1> HIDE DEF q
<1>3. req' = [req EXCEPT ![c] = q]
  BY DEF Permitted, q, e
<1> QED BY <1>2, <1>3, QuietInv DEF Permitted, seeding, Inv, TypeOK

LEMMA BuiltinAskedInv ==
    ASSUME Inv, NEW c \in Callers, BuiltinAsked(c)
    PROVE  Inv'
<1> DEFINE e == req[c].edit
           at == IF e.kind = "dropRole" THEN "dropRole" ELSE "perms"
           q == [req[c] EXCEPT !.at = at]
<1>1. req[c] \in [at : {"builtin"}, edit : EditsOf({"rolePerms", "dropRole"})]
  BY DEF BuiltinAsked, Inv, Reqs, Idle, Logins, Asked, Patches, Single, OfRoles
<1>2. q = [at |-> at, edit |-> e] /\ e \in EditsOf({"rolePerms", "dropRole"}) /\ e.role # "admin"
  BY <1>1 DEF BuiltinAsked
<1> HIDE DEF e
<1>3. q \in OfRoles /\ q.at # "login"
  <2>1. CASE e.kind = "dropRole"
    BY <1>2, <2>1 DEF OfRoles, EditsOf
  <2>2. CASE e.kind # "dropRole"
    BY <1>2, <2>2 DEF OfRoles, EditsOf
  <2> QED BY <2>1, <2>2
<1>4. req' = [req EXCEPT ![c] = q]
  BY DEF BuiltinAsked, e
<1> HIDE DEF q
<1>5. q \in Reqs
  BY <1>3 DEF Reqs
<1> QED BY <1>3, <1>4, <1>5, QuietInv DEF BuiltinAsked, seeding, Inv, TypeOK

LEMMA BumpFacts ==
    ASSUME TypeOK, NEW us
    PROVE  /\ Bump(users, us) \in [Uids -> UserRows]
           /\ \A u \in Uids :
                 /\ Bump(users, us)[u].there = users[u].there
                 /\ Bump(users, us)[u].pw = users[u].pw
                 /\ users[u].rv <= Bump(users, us)[u].rv
                 /\ u \in us /\ users[u].there => Bump(users, us)[u].rv # users[u].rv
  BY DEF TypeOK, Bump, UserRows

\* What the permissions and the reach of a user are made of.
LEMMA PermsFrom ==
    ASSUME NEW u,
           \A r \in Roles : <<u, r>> \in userRoles' =>
               /\ <<u, r>> \in userRoles
               /\ carries'[r] \ reseeded'[r] \subseteq carries[r] \ reseeded[r]
               /\ "instance.manage" \in carries'[r] => "instance.manage" \in carries[r],
           \A i \in Instances : <<u, i>> \in grants' => <<u, i>> \in grants
    PROVE  Held(u)' \subseteq Held(u) /\ Reach(u)' \subseteq Reach(u)
<1>1. Held(u)' \subseteq Held(u)
  <2> SUFFICES ASSUME NEW p \in Held(u)' PROVE p \in Held(u)
    OBVIOUS
  <2>1. PICK r \in Roles : <<u, r>> \in userRoles' /\ p \in carries'[r] \ reseeded'[r]
    BY DEF Held
  <2>2. <<u, r>> \in userRoles /\ p \in carries[r] \ reseeded[r]
    BY <2>1
  <2> QED BY <2>2 DEF Held
<1>2. "instance.manage" \in Perms(u)' => "instance.manage" \in Perms(u)
  <2> SUFFICES ASSUME "instance.manage" \in Perms(u)' PROVE "instance.manage" \in Perms(u)
    OBVIOUS
  <2>1. PICK r \in Roles : <<u, r>> \in userRoles' /\ "instance.manage" \in carries'[r]
    BY DEF Perms
  <2> QED BY <2>1 DEF Perms
<1> QED BY <1>1, <1>2 DEF Reach

\* A user is new: it has a row of its own, which no token was signed for.
LEMMA NewUserInv ==
    ASSUME Inv, NEW c \in Callers, NEW q \in Reqs, req' = [req EXCEPT ![c] = q],
           q.at # "login", req[c].at # "patch",
           lastUid < MaxUsers, lastUid' = lastUid + 1, users' = [users EXCEPT ![lastUid'] = NewUser],
           userRoles' \in {userRoles, userRoles \cup {<<lastUid', "admin">>}},
           UNCHANGED <<roles, carries, grants, cut, token, count, reseeded, restarts>>
    PROVE  Inv'
<1>1. lastUid \in Nat /\ lastUid' \in Uids /\ lastUid' \notin 1 .. lastUid
      /\ 1 .. lastUid \subseteq Uids /\ lastUid' \in 0 .. MaxUsers
  BY AccountsAssumption DEF Inv, TypeOK, Uids
<1>2. users' \in [Uids -> UserRows] /\ \A u \in Uids : users'[u].there => u <= lastUid'
  BY <1>1 DEF Inv, TypeOK, UserRows, NewUser
<1>3. TypeOK'
  <2>1. userRoles' \subseteq Uids \X Roles
    BY <1>1 DEF Inv, TypeOK, Roles
  <2> QED BY <1>1, <1>2, <2>1 DEF Inv, TypeOK, UserRows
<1>4. TameStep
  <2>1. ASSUME NEW u \in 1 .. lastUid PROVE Tame(u)
    <3>1. u \in Uids /\ u # lastUid' /\ users'[u] = users[u] /\ cut' = cut /\ users[u].rv \in Nat
      BY <1>1 DEF Inv, TypeOK
    <3>2. Held(u)' \subseteq Held(u) /\ Reach(u)' \subseteq Reach(u)
      BY <3>1, PermsFrom
    <3>3. PastPassword(u) => PastPassword(u)'
      BY PastKept
    <3> QED BY <3>1, <3>2, <3>3 DEF Tame
  <2> QED BY <1>1, <2>1 DEF TameStep
<1>5. req' \in [Callers -> Reqs] /\ \A d \in Callers : req'[d].at = "login" => req'[d] = req[d]
  BY ReqKept
<1>6. TokenInv'
  BY <1>2, <1>4, <1>5, TokensKept
<1> QED BY <1>3, <1>5, <1>6 DEF Inv, AdminInv

LEMMA SetupCommitsInv ==
    ASSUME Inv, NEW c \in Callers, SetupCommits(c)
    PROVE  Inv'
  BY IdleIs, NewUserInv DEF SetupCommits, Answer, seeding

LEMMA UserCreateInv ==
    ASSUME Inv, NEW c \in Callers, UserCreate(c)
    PROVE  Inv'
<1>1. CASE req[c].edit.roles = {}
  BY <1>1, IdleIs, NewUserInv DEF UserCreate, Answer, seeding
<1>2. CASE req[c].edit.roles # {}
  <2> DEFINE e == [kind |-> "roles", uid |-> lastUid', roles |-> req[c].edit.roles]
             q == [at |-> "roles", edit |-> e]
  <2>1. req[c].edit.roles \in SUBSET Roles /\ lastUid' \in Uids
    <3>1. req[c].edit \in Edits /\ req[c].edit.kind = "create"
      BY ReqFacts DEF UserCreate, Inv
    <3>2. lastUid' \in Uids
      BY AccountsAssumption DEF UserCreate, Inv, TypeOK, Uids
    <3> QED BY <3>1, <3>2, EditFacts
  <2>2. e \in EditsOf({"roles"})
    BY <2>1 DEF EditsOf, Edits
  <2> HIDE DEF e
  <2>3. q \in [at : {"roles"}, edit : EditsOf({"roles"})] /\ q.at = "roles"
    BY <2>2
  <2>4. q \in Reqs
    BY <2>3 DEF Reqs, Single
  <2> HIDE DEF q
  <2>5. req' = [req EXCEPT ![c] = q]
    BY <1>2 DEF UserCreate, q, e
  <2> QED BY <2>3, <2>4, <2>5, NewUserInv DEF UserCreate, seeding
<1> QED BY <1>1, <1>2

\* A login reads: the token it may sign is good.
LEMMA LoginReadsInv ==
    ASSUME Inv, NEW c \in Callers, LoginReads(c)
    PROVE  Inv'
<1>1. PICK u \in Uids :
          /\ users[u].there
          /\ req' = [req EXCEPT ![c] =
                [at |-> "login", active |-> users[u].active,
                 new |-> [uid |-> u, rv |-> users[u].rv, pw |-> users[u].pw,
                          codes |-> Perms(u), reach |-> Reach(u)]]]
  BY DEF LoginReads
<1> DEFINE t == [uid |-> u, rv |-> users[u].rv, pw |-> users[u].pw,
                 codes |-> Perms(u), reach |-> Reach(u)]
           q == [at |-> "login", active |-> users[u].active, new |-> t]
<1>2. t \in Tokens
  <2>1. Perms(u) \subseteq Codes /\ Reach(u) \subseteq Instances
    <3>1. \A r \in Roles : carries[r] \subseteq Codes
      BY DEF Inv, TypeOK
    <3> QED BY <3>1 DEF Perms, Reach
  <2>2. u \in 0 .. MaxUsers
    BY AccountsAssumption DEF Uids
  <2> QED BY <2>1, <2>2 DEF Inv, TypeOK, Tokens
<1>3. TokenOK(t)
  <2>1. u <= lastUid /\ users[u].rv <= users[u].rv
    <3>1. u \in Uids /\ users[u] \in UserRows /\ (users[u].there => u <= lastUid)
      BY DEF Inv, TypeOK, UserRows
    <3>2. users[u].rv \in Nat
      BY <3>1 DEF UserRows
    <3> QED BY <1>1, <3>1, <3>2
  <2>2. Held(u) \subseteq Perms(u)
    BY DEF Held, Perms
  <2> QED BY <2>1, <2>2 DEF TokenOK
<1> HIDE DEF t
<1>4. q \in Reqs /\ q.new = t
  BY <1>2 DEF Reqs, Logins, Inv, TypeOK
<1> HIDE DEF q
<1>5. req' = [req EXCEPT ![c] = q]
  BY <1>1 DEF q, t
<1>6. req' \in [Callers -> Reqs] /\ req'[c] = q /\ \A d \in Callers \ {c} : req'[d] = req[d]
  BY <1>4, <1>5, ReqKept
<1>7. req[c].at = "none" /\ UNCHANGED <<lastUid, users, userRoles, roles, carries, grants, cut, token, count, reseeded, restarts>>
  BY DEF LoginReads, tables, seeding
<1>8. \A v : PastPassword(v) => PastPassword(v)'
  BY <1>4, <1>5, <1>7, PastKept
<1>9. \A s : TokenOK(s) => TokenOK(s)'
  BY <1>7, <1>8 DEF TokenOK, Held, Perms, Reach
<1>10. TokenInv'
  <2>1. ASSUME NEW d \in Callers PROVE TokenOK(token[d])'
    BY <1>7, <1>9 DEF Inv, TokenInv, TokenOK
  <2>2. ASSUME NEW d \in Callers \ {c}, req'[d].at = "login" PROVE TokenOK(req[d].new)'
    <3>1. req'[d] = req[d] /\ TokenOK(req[d].new)
      BY <1>6, <2>2 DEF Inv, TokenInv
    <3> QED BY <1>9, <3>1 DEF TokenOK
  <2>3. TokenOK(req[c].new)'
    BY <1>3, <1>4, <1>6, <1>9 DEF TokenOK
  <2> QED BY <2>1, <2>2, <2>3 DEF TokenInv
<1>11. TypeOK'
  BY <1>7 DEF Inv, TypeOK
<1> QED BY <1>6, <1>7, <1>10, <1>11 DEF Inv, AdminInv

\* It signs: the browser holds the token that was good when it was read.
LEMMA LoginSignsInv ==
    ASSUME Inv, NEW c \in Callers, LoginSigns(c)
    PROVE  Inv'
<1>1. /\ req[c].at = "login" /\ token' = [token EXCEPT ![c] = req[c].new]
      /\ req' = [req EXCEPT ![c] = Idle]
      /\ UNCHANGED <<lastUid, users, userRoles, roles, carries, grants, cut, count, reseeded, restarts>>
  BY DEF LoginSigns, tables, Answer, seeding
<1>2. req[c].new \in Tokens /\ TokenOK(req[c].new)
  BY <1>1, ReqFacts DEF Inv, TokenInv, Logins
<1>3. req' \in [Callers -> Reqs] /\ req'[c] = Idle /\ \A d \in Callers \ {c} : req'[d] = req[d]
  BY <1>1, IdleIs, ReqKept
<1>4. \A v : PastPassword(v) => PastPassword(v)'
  BY <1>1, IdleIs, PastKept
<1>5. \A s : TokenOK(s) => TokenOK(s)'
  BY <1>1, <1>4 DEF TokenOK, Held, Perms, Reach
<1>6. TypeOK'
  BY <1>1, <1>2 DEF Inv, TypeOK, Tokens
<1>7. TokenInv'
  <2>1. ASSUME NEW d \in Callers PROVE TokenOK(token[d])'
    <3>1. PICK t : t = token'[d] /\ TokenOK(t)
      BY <1>1, <1>2 DEF Inv, TypeOK, TokenInv
    <3> QED BY <1>5, <3>1 DEF TokenOK
  <2>2. ASSUME NEW d \in Callers, req'[d].at = "login" PROVE TokenOK(req[d].new)'
    <3>1. req'[d] = req[d] /\ TokenOK(req[d].new)
      BY <1>3, <2>2, IdleIs DEF Inv, TokenInv
    <3> QED BY <1>5, <3>1 DEF TokenOK
  <2> QED BY <2>1, <2>2 DEF TokenInv
<1> QED BY <1>1, <1>3, <1>6, <1>7 DEF Inv, AdminInv

\* handleUserPatch: from its first statement to its bump the patch vouches for
\* the old tokens.
LEMMA PatchStepInv ==
    ASSUME Inv, NEW c \in Callers, PatchStep(c)
    PROVE  Inv'
<1> DEFINE e == req[c].edit
           v == e.uid
           todo == req[c].todo
           q == IF Tail(todo) = <<>> THEN Idle ELSE [req[c] EXCEPT !.todo = Tail(todo)]
<1>1. /\ req[c].at = "patch" /\ req[c] \in Patches /\ e \in Edits /\ v \in Uids
      /\ todo \in {PatchSteps, <<"active", "bump">>, <<"bump">>}
  BY ReqFacts, PatchFacts, EditFacts DEF PatchStep, Inv
<1>2. /\ q \in Reqs /\ q.at # "login"
      /\ Head(todo) # "bump" => q.at = "patch" /\ q.edit.uid = v /\ q.todo # PatchSteps
  <2>1. CASE Tail(todo) = <<>>
    BY <1>1, <2>1, IdleIs, TodoFacts
  <2>2. CASE Tail(todo) # <<>>
    <3>1. q = [req[c] EXCEPT !.todo = Tail(todo)]
      BY <2>2
    <3>2. Tail(todo) \in {<<"active", "bump">>, <<"bump">>}
      BY <1>1, <2>2, TodoFacts
    <3> HIDE DEF todo, q
    <3>3. q \in Patches /\ q.at = "patch" /\ q.edit = req[c].edit /\ q.todo = Tail(todo)
      BY <1>1, <3>1, <3>2 DEF Patches
    <3> QED BY <3>2, <3>3, TodoFacts DEF Reqs
  <2> QED BY <2>1, <2>2
<1>3. /\ users' = [users EXCEPT ![v] = Patched(users[v], e, Head(todo))]
      /\ req' = [req EXCEPT ![c] = q]
      /\ cut' = IF Head(todo) = "bump" THEN cut \ {v} ELSE cut
      /\ UNCHANGED <<lastUid, userRoles, roles, carries, grants, token, count, reseeded, restarts>>
  BY DEF PatchStep, Answer, seeding
<1>4. /\ Patched(users[v], e, Head(todo)) \in UserRows
      /\ Patched(users[v], e, Head(todo)).there = users[v].there
      /\ users[v].rv <= Patched(users[v], e, Head(todo)).rv
      /\ users[v].there /\ Head(todo) = "bump" => Patched(users[v], e, Head(todo)).rv # users[v].rv
  <2> HIDE DEF v, e, todo
  <2>1. users[v] \in UserRows
    BY <1>1 DEF Inv, TypeOK, UserRows
  <2>2. Head(todo) \in {"password", "active", "bump"}
    BY <1>1, TodoFacts
  <2>3. CASE Head(todo) = "password"
    BY <2>1, <2>3 DEF Patched, UserRows
  <2>4. CASE Head(todo) = "active"
    <3> DEFINE b == IF e.active = "keep" THEN users[v].active ELSE e.active = "on"
    <3>1. b \in BOOLEAN
      BY <2>1, Zenon DEF UserRows
    <3>2. users[v].there => Patched(users[v], e, Head(todo)) = [users[v] EXCEPT !.active = b]
      BY <2>4 DEF Patched
    <3>3. ~users[v].there => Patched(users[v], e, Head(todo)) = users[v]
      BY DEF Patched
    <3> HIDE DEF b
    <3> QED BY <2>1, <2>4, <3>1, <3>2, <3>3 DEF UserRows
  <2>5. CASE Head(todo) = "bump"
    BY <2>1, <2>5 DEF Patched, UserRows
  <2> QED BY <2>2, <2>3, <2>4, <2>5
<1> HIDE DEF q, v, e, todo
<1>5. users' \in [Uids -> UserRows] /\ \A u \in Uids : users'[u].there = users[u].there
  BY <1>1, <1>3, <1>4 DEF Inv, TypeOK, UserRows
<1>6. TypeOK'
  <2>1. cut' \subseteq Uids
    BY <1>3 DEF Inv, TypeOK
  <2> QED BY <1>3, <1>5, <2>1 DEF Inv, TypeOK, UserRows
<1>7. req' \in [Callers -> Reqs] /\ req'[c] = q /\ \A d \in Callers \ {c} : req'[d] = req[d]
  BY <1>2, <1>3, ReqKept
<1>8. TameStep
  <2>1. lastUid' = lastUid /\ lastUid \in Nat /\ 1 .. lastUid \subseteq Uids
    BY <1>3, AccountsAssumption DEF Inv, TypeOK, Uids
  <2>2. ASSUME NEW u \in 1 .. lastUid PROVE Tame(u)
    <3>1. u \in Uids /\ users[u].rv \in Nat
      BY <2>1 DEF Inv, TypeOK
    <3>2. Held(u)' \subseteq Held(u) /\ Reach(u)' \subseteq Reach(u)
      BY <1>3, PermsFrom
    <3>3. CASE u # v
      <4>1. users'[u] = users[u] /\ (u \in cut => u \in cut')
        BY <1>1, <1>3, <3>1, <3>3 DEF Inv, TypeOK
      <4>2. PastPassword(u) => PastPassword(u)'
        BY <1>7, <3>3 DEF PastPassword, v, e
      <4> QED BY <3>1, <3>2, <4>1, <4>2 DEF Tame
    <3>4. CASE u = v /\ Head(todo) # "bump"
      <4>1. PastPassword(u)'
        BY <1>2, <1>7, <3>4 DEF PastPassword
      <4>2. cut' = cut /\ users'[u] = Patched(users[v], e, Head(todo))
        BY <1>1, <1>3, <3>4 DEF Inv, TypeOK
      <4> QED BY <1>4, <3>2, <3>4, <4>1, <4>2 DEF Tame
    <3>5. CASE u = v /\ Head(todo) = "bump"
      <4>1. users'[u] = Patched(users[v], e, Head(todo))
        BY <1>1, <1>3, <3>5 DEF Inv, TypeOK
      <4> QED BY <1>4, <3>5, <4>1 DEF Tame
    <3> QED BY <3>3, <3>4, <3>5
  <2> QED BY <2>1, <2>2 DEF TameStep
<1>9. TokenInv'
  BY <1>2, <1>3, <1>5, <1>7, <1>8, TokensKept
<1> QED BY <1>3, <1>6, <1>7, <1>9 DEF Inv, AdminInv

\* It fails: what it has not bumped is remembered.
LEMMA PatchFailsInv ==
    ASSUME Inv, NEW c \in Callers, PatchFails(c)
    PROVE  Inv'
<1>1. /\ req[c].at = "patch" /\ req[c].edit.uid \in Uids
      /\ cut' = IF req[c].todo # PatchSteps THEN cut \cup {req[c].edit.uid} ELSE cut
      /\ req' = [req EXCEPT ![c] = Idle]
      /\ UNCHANGED <<lastUid, users, userRoles, roles, carries, grants, token, count, reseeded, restarts>>
  BY ReqFacts, PatchFacts, EditFacts DEF PatchFails, Past, Answer, tables, seeding, Inv
<1>2. req' \in [Callers -> Reqs] /\ req'[c] = Idle /\ \A d \in Callers \ {c} : req'[d] = req[d]
  BY <1>1, IdleIs, ReqKept
<1>3. TypeOK'
  BY <1>1 DEF Inv, TypeOK
<1>4. TameStep
  <2>1. lastUid' = lastUid /\ lastUid \in Nat /\ 1 .. lastUid \subseteq Uids
    BY <1>1, AccountsAssumption DEF Inv, TypeOK, Uids
  <2>2. ASSUME NEW u \in 1 .. lastUid PROVE Tame(u)
    <3>1. u \in Uids
      BY <2>1
    <3>2. PastPassword(u) => PastPassword(u)' \/ u \in cut'
      BY <1>1, <1>2 DEF PastPassword
    <3> QED BY <1>1, <3>1, <3>2, AsBefore DEF Tame, Inv
  <2> QED BY <2>1, <2>2 DEF TameStep
<1>5. TokenInv'
  BY <1>1, <1>2, <1>3, <1>4, IdleIs, TokensKept DEF TypeOK, UserRows
<1> QED BY <1>1, <1>2, <1>3, <1>5 DEF Inv, AdminInv

\* A transaction that bumps whomever it gives something.
LEMMA BumpedInv ==
    ASSUME Inv, NEW c \in Callers, NEW us, Answer(c), req[c].at # "patch",
           users' = Bump(users, us),
           \A u \in Uids :
               u \in us \/ (Held(u)' \subseteq Held(u) /\ Reach(u)' \subseteq Reach(u)),
           userRoles' \subseteq Uids \X Roles, carries' \in [Roles -> SUBSET Codes],
           grants' \subseteq Uids \X Instances,
           roles' \in [Roles -> {"new", "there", "gone"}], roles'["admin"] = "there",
           reseeded' \in [Roles -> SUBSET Codes], carries'["admin"] = carries["admin"],
           UNCHANGED <<lastUid, cut, token, count, restarts>>
    PROVE  Inv'
<1>1. req' = [req EXCEPT ![c] = Idle]
  BY DEF Answer
<1>2. req' \in [Callers -> Reqs] /\ \A d \in Callers : req'[d].at = "login" => req'[d] = req[d]
  BY <1>1, IdleIs, ReqKept
<1>3. users' \in [Uids -> UserRows] /\ \A u \in Uids : users'[u].there = users[u].there
  BY BumpFacts DEF Inv
<1>4. TypeOK'
  BY <1>3 DEF Inv, TypeOK, UserRows
<1>5. TameStep
  <2>1. lastUid \in Nat /\ 1 .. lastUid \subseteq Uids
    BY AccountsAssumption DEF Inv, TypeOK, Uids
  <2>2. ASSUME NEW u \in 1 .. lastUid PROVE Tame(u)
    <3>1. u \in Uids /\ cut' = cut
      BY <2>1
    <3>2. /\ users'[u].there = users[u].there /\ users'[u].pw = users[u].pw
          /\ users[u].rv <= users'[u].rv
          /\ users[u].there /\ u \in us => users'[u].rv # users[u].rv
      BY <3>1, BumpFacts DEF Inv
    <3>3. PastPassword(u) => PastPassword(u)'
      BY <1>1, IdleIs, PastKept
    <3> QED BY <3>1, <3>2, <3>3 DEF Tame
  <2> QED BY <2>1, <2>2 DEF TameStep
<1>6. TokenInv'
  BY <1>2, <1>3, <1>5, TokensKept
<1> QED BY <1>2, <1>4, <1>6 DEF Inv, AdminInv

LEMMA ReplaceUserRolesInv ==
    ASSUME Inv, NEW c \in Callers, ReplaceUserRoles(c)
    PROVE  Inv'
<1> DEFINE v == req[c].edit.uid
           us == {v}
<1>1. req[c].edit \in Edits /\ req[c].edit.kind = "roles"
  BY ReqFacts DEF ReplaceUserRoles, Inv
<1>2. v \in Uids /\ req[c].edit.roles \in SUBSET Roles
  BY <1>1, EditFacts
<1>3. /\ req[c].at # "patch" /\ Answer(c) /\ users' = Bump(users, us)
      /\ userRoles' = {p \in userRoles : p[1] # v} \cup ({v} \X req[c].edit.roles)
      /\ UNCHANGED <<lastUid, roles, carries, grants, cut, token, count, reseeded, restarts>>
  BY DEF ReplaceUserRoles, seeding
<1> HIDE DEF v
<1>4. userRoles' \subseteq Uids \X Roles
  BY <1>2, <1>3 DEF Inv, TypeOK
<1>5. ASSUME NEW u \in Uids, u # v PROVE Held(u)' \subseteq Held(u) /\ Reach(u)' \subseteq Reach(u)
  BY <1>3, <1>5, PermsFrom
<1>6. \A u \in Uids : u \in us \/ (Held(u)' \subseteq Held(u) /\ Reach(u)' \subseteq Reach(u))
  BY <1>5
<1> HIDE DEF us
<1> QED BY <1>3, <1>4, <1>6, BumpedInv DEF Inv, TypeOK

LEMMA ReplaceUserGrantsInv ==
    ASSUME Inv, NEW c \in Callers, ReplaceUserGrants(c)
    PROVE  Inv'
<1> DEFINE v == req[c].edit.uid
           us == {v}
<1>1. req[c].edit \in Edits /\ req[c].edit.kind = "grants"
  BY ReqFacts DEF ReplaceUserGrants, Inv
<1>2. v \in Uids /\ req[c].edit.instances \in SUBSET Instances
  BY <1>1, EditFacts
<1>3. /\ req[c].at # "patch" /\ Answer(c) /\ users' = Bump(users, us)
      /\ grants' = {p \in grants : p[1] # v} \cup ({v} \X req[c].edit.instances)
      /\ UNCHANGED <<lastUid, userRoles, roles, carries, cut, token, count, reseeded, restarts>>
  BY DEF ReplaceUserGrants, seeding
<1> HIDE DEF v
<1>4. grants' \subseteq Uids \X Instances
  BY <1>2, <1>3 DEF Inv, TypeOK
<1>5. ASSUME NEW u \in Uids, u # v PROVE Held(u)' \subseteq Held(u) /\ Reach(u)' \subseteq Reach(u)
  BY <1>3, <1>5, PermsFrom
<1>6. \A u \in Uids : u \in us \/ (Held(u)' \subseteq Held(u) /\ Reach(u)' \subseteq Reach(u))
  BY <1>5
<1> HIDE DEF us
<1> QED BY <1>3, <1>4, <1>6, BumpedInv DEF Inv, TypeOK

LEMMA ReplaceRolePermissionsInv ==
    ASSUME Inv, NEW c \in Callers, ReplaceRolePermissions(c)
    PROVE  Inv'
<1> DEFINE r == req[c].edit.role
           us == HoldersOf(r)
<1>1. req[c].edit \in Edits /\ req[c].edit.kind \in {"newRole", "rolePerms"} /\ r # "admin"
  BY ReqFacts DEF ReplaceRolePermissions, Inv
<1>2. r \in Roles /\ req[c].edit.codes \in SUBSET Codes
  BY <1>1, EditFacts DEF Roles
<1>3. /\ req[c].at # "patch" /\ Answer(c) /\ users' = Bump(users, us)
      /\ carries' = [carries EXCEPT ![r] = req[c].edit.codes]
      /\ reseeded' = [reseeded EXCEPT ![r] = {}]
      /\ UNCHANGED <<lastUid, userRoles, roles, grants, cut, token, count, restarts>>
  BY DEF ReplaceRolePermissions
<1> HIDE DEF r
<1>4. /\ carries' \in [Roles -> SUBSET Codes] /\ reseeded' \in [Roles -> SUBSET Codes]
      /\ carries'["admin"] = carries["admin"]
  BY <1>1, <1>2, <1>3 DEF Inv, TypeOK, Roles
<1>5. ASSUME NEW u \in Uids, u \notin us PROVE Held(u)' \subseteq Held(u) /\ Reach(u)' \subseteq Reach(u)
  <2>1. <<u, r>> \notin userRoles
    BY <1>5 DEF HoldersOf
  <2>2. \A s \in Roles : <<u, s>> \in userRoles' =>
            <<u, s>> \in userRoles /\ carries'[s] = carries[s] /\ reseeded'[s] = reseeded[s]
    BY <1>3, <2>1 DEF Inv, TypeOK
  <2> QED BY <1>3, <2>2, PermsFrom
<1>6. \A u \in Uids : u \in us \/ (Held(u)' \subseteq Held(u) /\ Reach(u)' \subseteq Reach(u))
  BY <1>5
<1> HIDE DEF us
<1> QED BY <1>3, <1>4, <1>6, BumpedInv DEF Inv, TypeOK

LEMMA NobodyBumped ==
    ASSUME TypeOK
    PROVE  Bump(users, {}) = users
  BY DEF TypeOK, Bump

\* The end of a role takes permissions and gives none.
LEMMA RoleDeleteInv ==
    ASSUME Inv, NEW c \in Callers, RoleDelete(c)
    PROVE  Inv'
<1> DEFINE r == req[c].edit.role
<1>1. req[c].edit \in Edits /\ req[c].edit.kind = "dropRole" /\ r # "admin"
  BY ReqFacts DEF RoleDelete, Inv
<1>2. r \in Roles
  BY <1>1, EditFacts
<1>3. /\ req[c].at # "patch" /\ Answer(c) /\ users' = Bump(users, {})
      /\ roles' = [roles EXCEPT ![r] = "gone"]
      /\ carries' = [carries EXCEPT ![r] = {}]
      /\ userRoles' = {p \in userRoles : p[2] # r}
      /\ UNCHANGED <<lastUid, grants, cut, token, count, reseeded, restarts>>
  BY NobodyBumped DEF RoleDelete, seeding, Inv
<1> HIDE DEF r
<1>4. /\ carries' \in [Roles -> SUBSET Codes] /\ userRoles' \subseteq Uids \X Roles
      /\ roles' \in [Roles -> {"new", "there", "gone"}] /\ roles'["admin"] = "there"
      /\ carries'["admin"] = carries["admin"]
  BY <1>1, <1>2, <1>3 DEF Inv, TypeOK, Roles
<1>5. ASSUME NEW u \in Uids PROVE Held(u)' \subseteq Held(u) /\ Reach(u)' \subseteq Reach(u)
  <2>1. \A s \in Roles : <<u, s>> \in userRoles' =>
            <<u, s>> \in userRoles /\ carries'[s] \subseteq carries[s]
    BY <1>3 DEF Inv, TypeOK
  <2> QED BY <1>3, <2>1, PermsFrom
<1> QED BY <1>3, <1>4, <1>5, BumpedInv DEF Inv, TypeOK

LEMMA RoleCreateInv ==
    ASSUME Inv, NEW c \in Callers, RoleCreate(c)
    PROVE  Inv'
<1> DEFINE e == req[c].edit
           q == [req[c] EXCEPT !.at = "perms"]
<1>1. e \in Edits /\ e.kind = "newRole" /\ req[c].at = "newRole"
  BY ReqFacts DEF RoleCreate, Inv
<1>2. e.role \in Custom /\ e.role # "admin" /\ e.role \in Roles
  BY <1>1, EditFacts, AccountsAssumption DEF Roles
<1>3. req[c] \in [at : {"newRole"}, edit : EditsOf({"newRole"})]
  BY DEF RoleCreate, Inv, Reqs, Idle, Logins, Asked, Patches, Single, OfRoles
<1>4. /\ q \in [at : {"perms"}, edit : {x \in EditsOf({"newRole", "rolePerms"}) : x.role # "admin"}]
      /\ q.at = "perms"
  <2>1. e \in EditsOf({"newRole", "rolePerms"}) /\ e.role # "admin"
    BY <1>1, <1>2 DEF EditsOf
  <2> QED BY <1>3, <2>1
<1>5. q \in Reqs
  BY <1>4 DEF Reqs, OfRoles
<1>6. /\ req' = [req EXCEPT ![c] = q] /\ roles' = [roles EXCEPT ![e.role] = "there"]
      /\ UNCHANGED <<lastUid, users, userRoles, carries, grants, cut, token, count, reseeded, restarts>>
  BY DEF RoleCreate, seeding
<1> HIDE DEF e, q
<1>7. TypeOK'
  BY <1>2, <1>6 DEF Inv, TypeOK
<1>8. req' \in [Callers -> Reqs] /\ \A d \in Callers : req'[d].at = "login" => req'[d] = req[d]
  BY <1>4, <1>5, <1>6, ReqKept
<1>9. TameStep
  <2>1. lastUid \in Nat /\ 1 .. lastUid \subseteq Uids
    BY AccountsAssumption DEF Inv, TypeOK, Uids
  <2>2. ASSUME NEW u \in 1 .. lastUid PROVE Tame(u)
    BY <1>1, <1>5, <1>6, <2>1, AsBefore, PastKept DEF Tame, Inv
  <2> QED BY <1>6, <2>1, <2>2 DEF TameStep
<1>10. TokenInv'
  BY <1>6, <1>7, <1>8, <1>9, TokensKept DEF TypeOK, UserRows
<1> QED BY <1>6, <1>7, <1>8, <1>10 DEF Inv, AdminInv

LEMMA UserDeleteInv ==
    ASSUME Inv, NEW c \in Callers, UserDelete(c)
    PROVE  Inv'
<1> DEFINE v == req[c].edit.uid
<1>1. req[c].edit \in Edits /\ req[c].edit.kind = "delete" /\ req[c].at = "delete"
  BY ReqFacts DEF UserDelete, Inv
<1>2. v \in Uids
  BY <1>1, EditFacts
<1>3. /\ req' = [req EXCEPT ![c] = Idle]
      /\ users' = [users EXCEPT ![v] = NoUser]
      /\ userRoles' = {p \in userRoles : p[1] # v}
      /\ grants' = {p \in grants : p[1] # v}
      /\ UNCHANGED <<lastUid, roles, carries, cut, token, count, reseeded, restarts>>
  BY DEF UserDelete, Answer, seeding
<1> HIDE DEF v
<1>4. users' \in [Uids -> UserRows] /\ \A u \in Uids : users'[u].there => users[u].there
  BY <1>2, <1>3 DEF Inv, TypeOK, UserRows, NoUser
<1>5. TypeOK'
  <2>1. userRoles' \subseteq Uids \X Roles /\ grants' \subseteq Uids \X Instances
    BY <1>3 DEF Inv, TypeOK
  <2> QED BY <1>3, <1>4, <2>1 DEF Inv, TypeOK, UserRows
<1>6. req' \in [Callers -> Reqs] /\ \A d \in Callers : req'[d].at = "login" => req'[d] = req[d]
  BY <1>3, IdleIs, ReqKept
<1>7. TameStep
  <2>1. lastUid \in Nat /\ 1 .. lastUid \subseteq Uids
    BY AccountsAssumption DEF Inv, TypeOK, Uids
  <2>2. ASSUME NEW u \in 1 .. lastUid PROVE Tame(u)
    <3>1. u \in Uids /\ users[u].rv \in Nat
      BY <2>1 DEF Inv, TypeOK
    <3>2. CASE u = v
      BY <1>2, <1>3, <3>2 DEF Tame, Inv, TypeOK, NoUser
    <3>3. CASE u # v
      <4>1. users'[u] = users[u]
        BY <1>3, <3>1, <3>3 DEF Inv, TypeOK
      <4>2. Held(u)' \subseteq Held(u) /\ Reach(u)' \subseteq Reach(u)
        BY <1>3, PermsFrom
      <4>3. PastPassword(u) => PastPassword(u)'
        BY <1>1, <1>3, IdleIs, PastKept
      <4> QED BY <1>3, <3>1, <4>1, <4>2, <4>3 DEF Tame
    <3> QED BY <3>2, <3>3
  <2> QED BY <1>3, <2>1, <2>2 DEF TameStep
<1>8. TokenInv'
  BY <1>3, <1>4, <1>6, <1>7, TokensKept
<1> QED BY <1>3, <1>5, <1>6, <1>8 DEF Inv, AdminInv

\* A start of the panel: no patch is under way any more, and what Seed puts back
\* neither counts as held nor reaches an instance.
LEMMA PanelRestartsInv ==
    ASSUME Inv, PanelRestarts
    PROVE  Inv'
<1>1. /\ restarts < MaxRestarts /\ restarts' = restarts + 1
      /\ carries' = [r \in Roles |-> carries[r] \cup Seeds(r)]
      /\ reseeded' = [r \in Roles |-> reseeded[r] \cup (Seeds(r) \ carries[r])]
      /\ cut' = cut \cup {req[c].edit.uid : c \in {d \in Callers : Past(d)}}
      /\ req' = [c \in Callers |-> Idle]
      /\ UNCHANGED <<lastUid, users, userRoles, roles, grants, token, count>>
  BY DEF PanelRestarts
<1>2. \A r \in Roles : /\ Seeds(r) \subseteq Codes
                       /\ "instance.manage" \in Seeds(r) => r = "admin"
  BY AccountsAssumption DEF Seeds
<1>3. \A c \in Callers : Past(c) => req[c].edit.uid \in Uids
  BY ReqFacts, PatchFacts, EditFacts DEF Past, Inv
<1>4. TypeOK'
  <2>1. carries' \in [Roles -> SUBSET Codes] /\ reseeded' \in [Roles -> SUBSET Codes]
    BY <1>1, <1>2 DEF Inv, TypeOK
  <2>2. cut' \subseteq Uids /\ restarts' \in 0 .. MaxRestarts
    BY <1>1, <1>3, AccountsAssumption DEF Inv, TypeOK
  <2> QED BY <1>1, <2>1, <2>2 DEF Inv, TypeOK
<1>5. req' \in [Callers -> Reqs] /\ \A d \in Callers : req'[d].at = "none"
  BY <1>1, IdleIs
<1>6. AdminInv'
  BY <1>1, <1>2 DEF Inv, AdminInv, Roles
<1>7. TameStep
  <2>1. lastUid' = lastUid /\ lastUid \in Nat /\ 1 .. lastUid \subseteq Uids
    BY <1>1, AccountsAssumption DEF Inv, TypeOK, Uids
  <2>2. ASSUME NEW u \in 1 .. lastUid PROVE Tame(u)
    <3>1. u \in Uids /\ users[u].rv \in Nat
      BY <2>1 DEF Inv, TypeOK
    <3>2. ASSUME NEW r \in Roles
          PROVE  /\ carries'[r] \ reseeded'[r] \subseteq carries[r] \ reseeded[r]
                 /\ "instance.manage" \in carries'[r] => "instance.manage" \in carries[r]
      BY <1>1, <1>2 DEF Inv, AdminInv
    <3>3. Held(u)' \subseteq Held(u) /\ Reach(u)' \subseteq Reach(u)
      BY <1>1, <3>2, PermsFrom
    <3>4. PastPassword(u) => u \in cut'
      BY <1>1 DEF PastPassword, Past
    <3> QED BY <1>1, <3>1, <3>3, <3>4 DEF Tame
  <2> QED BY <2>1, <2>2 DEF TameStep
<1>8. TokenInv'
  BY <1>1, <1>4, <1>5, <1>7, TokensKept DEF TypeOK, UserRows
<1> QED BY <1>4, <1>5, <1>6, <1>8 DEF Inv

LEMMA StepInv == Inv /\ [AccountsNext]_accountsVars => Inv'
<1> SUFFICES ASSUME Inv, [AccountsNext]_accountsVars PROVE Inv'
  OBVIOUS
<1>1. ASSUME NEW c \in Callers, AuthNext(c) PROVE Inv'
  BY <1>1, SetupInv, SetupCommitsInv, AnsweredInv, LoginReadsInv, LoginSignsInv, RequestInv,
     PermittedInv DEF AuthNext
<1>2. ASSUME NEW c \in Callers, UserNext(c) PROVE Inv'
  BY <1>2, PatchStepInv, PatchFailsInv, ReplaceUserRolesInv, ReplaceUserGrantsInv,
     UserCreateInv, UserDeleteInv, AnsweredInv DEF UserNext
<1>3. ASSUME NEW c \in Callers, RoleNext(c) PROVE Inv'
  BY <1>3, RoleCreateInv, BuiltinAskedInv, ReplaceRolePermissionsInv, RoleDeleteInv DEF RoleNext
<1>4. CASE UNCHANGED accountsVars
  <2>1. TypeOK' /\ req' = req
    BY <1>4 DEF accountsVars, tables, seeding, Inv, TypeOK
  <2>2. TokenInv'
    <3>1. \A s : TokenOK(s) => TokenOK(s)'
      BY <1>4 DEF accountsVars, tables, seeding, TokenOK, Held, Perms, Reach, PastPassword
    <3>2. token' = token
      BY <1>4 DEF accountsVars
    <3> QED BY <2>1, <3>1, <3>2 DEF Inv, TokenInv, TokenOK
  <2>3. AdminInv'
    BY <1>4 DEF accountsVars, tables, Inv, AdminInv
  <2> QED BY <2>1, <2>2, <2>3 DEF Inv
<1> QED BY <1>1, <1>2, <1>3, <1>4, PanelRestartsInv DEF AccountsNext

LEMMA SpecInv == AccountsSpec => []Inv
  BY InitInv, StepInv, PTL DEF AccountsSpec

-----------------------------------------------------------------------------
(* Theorems *)

\* The types of the tables, the tokens and the counters; no one drops the admin
\* role.
THEOREM TypeCorrect == AccountsSpec => []TypeOK
<1>1. Inv => TypeOK
  BY DEF Inv
<1> QED BY <1>1, SpecInv, PTL

LEMMA AcceptedOK ==
    ASSUME Inv, NEW c \in Callers, Accepted(token[c])
    PROVE  LET t == token[c] IN
           /\ Held(t.uid) \subseteq t.codes /\ Reach(t.uid) \subseteq t.reach
           /\ t.pw = users[t.uid].pw \/ PastPassword(t.uid) \/ t.uid \in cut
<1>1. TokenOK(token[c])
  BY DEF Inv, TokenInv
<1> QED BY <1>1 DEF TokenOK, Accepted

\* A password change ends the sessions from before, for any number of browsers
\* that log in, patch, create and delete users beside it.
THEOREM PasswordsEndSessions == AccountsSpec => []TokensFollowPasswords
<1>1. Inv => TokensFollowPasswords
  BY AcceptedOK DEF TokensFollowPasswords, InPatch, PastPassword
<1> QED BY <1>1, SpecInv, PTL

\* An accepted token's owner has nothing it did not have at its login, but for codes
\* that a start of the panel put back into a built-in role (seed.go:25-30).
THEOREM NothingGainedWithoutLogin == AccountsSpec => []NoPermissionWithoutLogin
<1>1. Inv => NoPermissionWithoutLogin
  BY AcceptedOK DEF NoPermissionWithoutLogin
<1> QED BY <1>1, SpecInv, PTL

-----------------------------------------------------------------------------
(*                               Settings                                  *)

-----------------------------------------------------------------------------
(* The connection *)

Places   == {"none", "save", "write"} \cup Telling
Commands == [id : Nat, key : ManagedKeys, value : Seq(Chars)]
Frames   == [id : Int, typ : {"response", "auth"}, of : ManagedKeys \cup {<< >>}]
ConnType == [up : BOOLEAN, right : BOOLEAN, stage : {"none", "auth", "open", "refused"},
             seq : Nat, out : Seq(Commands), in : Seq(Frames), torn : BOOLEAN]

\* The fields of what a handler has at hand.
Shaped(l) == l = [at |-> l.at, changes |-> l.changes, existing |-> l.existing,
                  todo |-> l.todo, overtaken |-> l.overtaken]

\* No number was given twice, and what has the number of the command under way is
\* that command or its answer.
Numbered(l, c) ==
    /\ \A i \in 1 .. Len(c.out) :
          /\ c.out[i].id \in 1 .. c.seq
          /\ c.out[i].key \in DOMAIN l.changes
          /\ c.out[i].value = l.changes[c.out[i].key]
    /\ \A i \in 1 .. Len(c.in) : c.in[i].typ = "response" => c.in[i].id <= c.seq
    /\ l.at = "answer" =>
          /\ c.seq > 0
          /\ \A i \in 1 .. Len(c.out) : c.out[i].id = c.seq => c.out[i].key = Head(l.todo)
          /\ \A i \in 1 .. Len(c.in) : c.in[i].typ = "response" /\ c.in[i].id = c.seq =>
                                         c.in[i].of = Head(l.todo)

\* Of a handler and its connection: whoever tells has a list of its own changes,
\* and has read the answer to the password's packet, or one that came before it.
Talk(l, c) ==
    /\ Shaped(l) /\ l.at \in Places /\ c \in ConnType
    /\ l.at # "none" => l.changes \in bound.changes
    /\ l.at \notin {"auth", "exec", "answer"} => c.stage = "none"
    /\ l.at = "auth" =>
          /\ c.stage # "none" /\ c.out = << >> /\ c.seq = 0
          /\ c.stage = "auth" => c.in = << >>
          /\ \A i \in 2 .. Len(c.in) : c.in[i].typ # "response"
    /\ l.at \in {"exec", "answer"} =>
          /\ c.stage \in {"open", "refused"}
          /\ l.todo \in Seq(DOMAIN l.changes) \ {<< >>}
          /\ Numbered(l, c)

TalkInv ==
    /\ bound \in Cases
    /\ loc = [h \in Handlers |-> loc[h]] /\ conn = [h \in Handlers |-> conn[h]]
    /\ \A h \in Handlers : Talk(loc[h], conn[h])

-----------------------------------------------------------------------------
(* Operators *)

\* The keys of a PUT in an order: each is there, and no other.
LEMMA KeysInOrder ==
    ASSUME NEW S, IsFiniteSet(S), S # {}
    PROVE  SetToSeq(S) \in Seq(S) \ {<< >>} /\ \A k \in S : \E i \in 1 .. Len(SetToSeq(S)) : SetToSeq(S)[i] = k
<1> DEFINE n == Cardinality(S)
<1>1. n \in Nat /\ ExistsBijection(1 .. n, S) /\ n # 0
  BY FS_CardinalityType, FS_EmptySet
<1>2. \E f \in [1 .. n -> S] : IsInjective(f)
  BY <1>1 DEF ExistsBijection, Bijection, Injection
<1>3. SetToSeq(S) \in [1 .. n -> S] /\ IsInjective(SetToSeq(S))
  <2>1. SetToSeq(S) = CHOOSE f \in [1 .. n -> S] : IsInjective(f)
    BY DEF SetToSeq
  <2> QED BY <1>2, <2>1
<1>4. SetToSeq(S) \in Injection(1 .. n, S)
  BY <1>3 DEF Injection
<1>5. IsFiniteSet(1 .. n) /\ Cardinality(1 .. n) = n
  <2>1. Cardinality(1 .. n) = IF n < 1 THEN 0 ELSE n - 1 + 1
    BY <1>1, FS_Interval
  <2>2. IsFiniteSet(1 .. n)
    BY <1>1, FS_Interval
  <2> QED BY <1>1, <2>1, <2>2
<1>6. SetToSeq(S) \in Surjection(1 .. n, S)
  BY <1>4, <1>5, FS_Injection
<1>7. SetToSeq(S) \in Seq(S) /\ Len(SetToSeq(S)) = n
  BY <1>1, <1>3
<1> HIDE DEF n
<1> QED BY <1>1, <1>6, <1>7 DEF Surjection

LEMMA Changes ==
    ASSUME TalkInv, NEW ch \in bound.changes
    PROVE  /\ IsFiniteSet(DOMAIN ch) /\ DOMAIN ch # {} /\ DOMAIN ch \subseteq ManagedKeys
           /\ \A k \in DOMAIN ch : ch[k] \in Seq(Chars) \ {<< >>}
  BY SettingsAssumption DEF TalkInv

LEMMA Rests ==
    /\ Shaped(Resting) /\ Resting.at = "none" /\ Resting.overtaken \in BOOLEAN
    /\ NoConn \in ConnType /\ NoConn.stage = "none" /\ NoConn.up = FALSE
    /\ NoConn.seq = 0 /\ NoConn.in = << >> /\ NoConn.out = << >>
    /\ Talk(Resting, NoConn)
<1>1. << >> \in Seq(Commands) /\ << >> \in Seq(Frames)
  OBVIOUS
<1>2. NoConn \in ConnType
  BY <1>1 DEF NoConn, ConnType
<1> QED BY <1>2 DEF Resting, NoConn, Shaped, Talk, Places

LEMMA FirstOf ==
    ASSUME NEW S, NEW s \in Seq(S), s # << >>
    PROVE  /\ Len(s) \in Nat /\ Len(s) >= 1 /\ Head(s) \in S /\ Head(s) = s[1]
           /\ Tail(s) \in Seq(S) /\ Len(Tail(s)) = Len(s) - 1
           /\ \A i \in 1 .. Len(Tail(s)) : i + 1 \in 1 .. Len(s) /\ Tail(s)[i] = s[i + 1]
           /\ Len(s) # 1 => Tail(s) # << >>
<1>1. Len(s) \in Nat /\ Len(s) >= 1 /\ Head(s) = s[1]
  BY EmptySeq
<1>2. Head(s) \in S
  BY <1>1
<1>3. Tail(s) \in Seq(S) /\ Len(Tail(s)) = Len(s) - 1
  BY HeadTailProperties
<1>4. \A i \in 1 .. Len(Tail(s)) : i + 1 \in 1 .. Len(s) /\ Tail(s)[i] = s[i + 1]
  BY <1>1, <1>3, HeadTailProperties
<1>5. Len(s) # 1 => Tail(s) # << >>
  BY <1>1, <1>3
<1> QED BY <1>1, <1>2, <1>3, <1>4, <1>5

LEMMA LastOf ==
    ASSUME NEW S, NEW s \in Seq(S), NEW x \in S
    PROVE  /\ Append(s, x) \in Seq(S) /\ Len(Append(s, x)) = Len(s) + 1
           /\ \A i \in 1 .. Len(Append(s, x)) : \/ i \in 1 .. Len(s) /\ Append(s, x)[i] = s[i]
                                                \/ i = Len(s) + 1 /\ Append(s, x)[i] = x
  BY AppendProperties

LEMMA Joins ==
    ASSUME NEW S, NEW s \in Seq(S), NEW t \in Seq(S)
    PROVE  /\ s \o t \in Seq(S)
           /\ \A i \in 1 .. Len(s \o t) : \/ i \in 1 .. Len(s) /\ (s \o t)[i] = s[i]
                                          \/ \E j \in 1 .. Len(t) : (s \o t)[i] = t[j]
  BY ConcatProperties

LEMMA Moved ==
    ASSUME NEW l, Shaped(l), NEW a, NEW m, m = [l EXCEPT !.at = a]
    PROVE  /\ Shaped(m) /\ m.at = a /\ m.changes = l.changes /\ m.existing = l.existing
           /\ m.todo = l.todo /\ m.overtaken = l.overtaken
  BY DEF Shaped

Listed(l, todo) == [l EXCEPT !.at = "exec", !.todo = todo]
LEMMA ListedFacts ==
    ASSUME NEW l, Shaped(l), NEW t
    PROVE  /\ Shaped(Listed(l, t)) /\ Listed(l, t).at = "exec" /\ Listed(l, t).changes = l.changes
           /\ Listed(l, t).todo = t /\ Listed(l, t).overtaken = l.overtaken
<1> DEFINE m == [l EXCEPT !.at = "exec"]
<1>1. /\ Shaped(m) /\ m.at = "exec" /\ m.changes = l.changes /\ m.existing = l.existing
      /\ m.overtaken = l.overtaken
  BY Moved
<1>2. Listed(l, t) = [m EXCEPT !.todo = t]
  BY Zenon DEF Listed
<1> HIDE DEF m
<1> QED BY <1>1, <1>2 DEF Shaped

Told(l) == [l EXCEPT !.overtaken = TRUE]
LEMMA ToldFacts ==
    ASSUME NEW l, Shaped(l)
    PROVE  /\ Shaped(Told(l)) /\ Told(l).at = l.at /\ Told(l).changes = l.changes
           /\ Told(l).existing = l.existing /\ Told(l).todo = l.todo /\ Told(l).overtaken
<1>1. ASSUME NEW b
      PROVE  LET m == [l EXCEPT !.overtaken = b]
             IN  /\ Shaped(m) /\ m.at = l.at /\ m.changes = l.changes
                 /\ m.existing = l.existing /\ m.todo = l.todo /\ m.overtaken = b
  BY DEF Shaped
<1> QED BY <1>1, Zenon DEF Told

Loaded(ch, map) == [Resting EXCEPT !.at = "save", !.changes = ch, !.existing = map]
LEMMA LoadedFacts ==
    ASSUME NEW ch, NEW map
    PROVE  /\ Shaped(Loaded(ch, map)) /\ Loaded(ch, map).at = "save" /\ Loaded(ch, map).changes = ch
           /\ Loaded(ch, map).existing = map /\ Loaded(ch, map).overtaken \in BOOLEAN
<1> DEFINE m == [Resting EXCEPT !.at = "save"]
           n == [m EXCEPT !.changes = ch]
<1>1. Shaped(m) /\ m.at = "save" /\ m.overtaken \in BOOLEAN
  BY Rests, Moved
<1>2. n = [m EXCEPT !.changes = ch] /\ Loaded(ch, map) = [n EXCEPT !.existing = map]
  BY Zenon DEF Loaded
<1> HIDE DEF m, n
<1>3. Shaped(n) /\ n.at = "save" /\ n.changes = ch /\ n.overtaken = m.overtaken
  BY <1>1, <1>2 DEF Shaped
<1> QED BY <1>1, <1>2, <1>3 DEF Shaped

LEMMA OneTalks ==
    ASSUME TalkInv, NEW h \in Handlers, NEW l, NEW c, UNCHANGED bound,
           loc' = [loc EXCEPT ![h] = l], conn' = [conn EXCEPT ![h] = c], Talk(l, c)
    PROVE  TalkInv'
<1>1. bound' \in Cases /\ loc' = [g \in Handlers |-> loc'[g]] /\ conn' = [g \in Handlers |-> conn'[g]]
  BY DEF TalkInv
<1>2. ASSUME NEW g \in Handlers PROVE Talk(loc[g], conn[g])'
  <2>1. CASE g = h
    <3>1. loc'[g] = l /\ conn'[g] = c
      BY <2>1 DEF TalkInv
    <3> QED BY <3>1 DEF Talk
  <2>2. CASE g # h
    <3>1. loc'[g] = loc[g] /\ conn'[g] = conn[g] /\ Talk(loc[g], conn[g])
      BY <2>2 DEF TalkInv
    <3> QED BY <3>1 DEF Talk
  <2> QED BY <2>1, <2>2
<1> QED BY <1>1, <1>2 DEF TalkInv

-----------------------------------------------------------------------------
(* Steps of the connections *)

\* A handler at the same place with the connection it had, or at a place before
\* the connection.
LEMMA GoesTalking ==
    ASSUME TalkInv, NEW h \in Handlers, NEW a \in Places \ {"none"}, UNCHANGED bound,
           loc' = [loc EXCEPT ![h] = [loc[h] EXCEPT !.at = a]], UNCHANGED conn,
           loc[h].at \notin {"none", "auth", "exec", "answer"}, a \notin {"auth", "exec", "answer"}
    PROVE  TalkInv'
<1>1. Talk(loc[h], conn[h])
  BY DEF TalkInv
<1>2. conn' = [conn EXCEPT ![h] = conn[h]]
  BY DEF TalkInv
<1> DEFINE l == [loc[h] EXCEPT !.at = a]
<1>3. Shaped(l) /\ l.at = a /\ l.changes = loc[h].changes /\ l.overtaken = loc[h].overtaken
  BY <1>1, Moved DEF Talk
<1>4. loc' = [loc EXCEPT ![h] = l]
  OBVIOUS
<1> HIDE DEF l
<1>5. Talk(l, conn[h])
  BY <1>1, <1>3 DEF Talk
<1> QED BY <1>2, <1>4, <1>5, OneTalks

LEMMA DoneTalking ==
    ASSUME TalkInv, NEW h \in Handlers, UNCHANGED bound, Done(h)
    PROVE  TalkInv'
  BY Rests, OneTalks DEF Done, Connect

LEMMA LoadsTalking ==
    ASSUME TalkInv, NEW h \in Handlers, PutLoads(h)
    PROVE  TalkInv'
<1>1. PICK ch \in bound.changes :
          loc' = [loc EXCEPT ![h] = [Resting EXCEPT !.at = "save", !.changes = ch,
                                                    !.existing = Load(text)]]
  BY DEF PutLoads
<1> DEFINE l == Loaded(ch, Load(text))
<1>2. Shaped(l) /\ l.at = "save" /\ l.changes = ch /\ l.overtaken \in BOOLEAN
  BY LoadedFacts
<1>3. Talk(loc[h], conn[h]) /\ loc[h].at = "none" /\ UNCHANGED <<bound, conn>>
  BY DEF TalkInv, PutLoads, AtPlace
<1>4. conn' = [conn EXCEPT ![h] = conn[h]]
  BY <1>3 DEF TalkInv
<1>5. loc' = [loc EXCEPT ![h] = l]
  BY <1>1, Zenon DEF Loaded
<1> HIDE DEF l
<1>6. Talk(l, conn[h])
  BY <1>2, <1>3 DEF Talk, Places
<1> QED BY <1>3, <1>4, <1>5, <1>6, OneTalks

LEMMA WritesTalking ==
    ASSUME TalkInv, NEW h \in Handlers, SaveWrites(h)
    PROVE  TalkInv'
<1>1. /\ loc[h].at = "write" /\ UNCHANGED <<bound, conn>>
      /\ loc' = [g \in Handlers |->
                    IF g = h THEN [loc[g] EXCEPT !.at = "ask"]
                    ELSE IF loc[g].at \in Telling THEN Told(loc[g]) ELSE loc[g]]
  BY DEF SaveWrites, AtPlace, Told
<1>2. ASSUME NEW g \in Handlers PROVE Talk(loc'[g], conn[g])
  <2>1. Talk(loc[g], conn[g])
    BY DEF TalkInv
  <2>2. CASE g = h
    <3>1. loc'[g] = [loc[g] EXCEPT !.at = "ask"]
      BY <1>1, <2>2
    <3>2. Shaped(loc'[g]) /\ loc'[g].at = "ask" /\ loc'[g].changes = loc[g].changes
          /\ loc'[g].overtaken = loc[g].overtaken
      BY <2>1, <3>1, Moved DEF Talk
    <3> QED BY <1>1, <2>1, <2>2, <3>2 DEF Talk, Places, Telling
  <2>3. CASE g # h
    <3>1. loc'[g] = Told(loc[g]) \/ loc'[g] = loc[g]
      BY <1>1, <2>3
    <3>2. Shaped(loc[g])
      BY <2>1 DEF Talk
    <3>3. Shaped(loc'[g]) /\ loc'[g].at = loc[g].at /\ loc'[g].changes = loc[g].changes
          /\ loc'[g].todo = loc[g].todo
      BY <3>1, <3>2, ToldFacts
    <3> QED BY <2>1, <3>2, <3>3 DEF Talk, Numbered
  <2> QED BY <2>2, <2>3
<1> QED BY <1>1, <1>2 DEF TalkInv, Talk

LEMMA DialsTalking ==
    ASSUME TalkInv, NEW h \in Handlers, Dials(h)
    PROVE  TalkInv'
<1>1. PICK right \in BOOLEAN :
          conn' = [conn EXCEPT ![h] = [NoConn EXCEPT !.up = TRUE, !.right = right, !.stage = "auth"]]
  <2>1. PICK right \in {TRUE, ~bound.faults} :
            conn' = [conn EXCEPT ![h] = [NoConn EXCEPT !.up = TRUE, !.right = right, !.stage = "auth"]]
    BY DEF Dials, Connect
  <2> QED BY <2>1, Zenon
<1> DEFINE c == [NoConn EXCEPT !.up = TRUE, !.right = right, !.stage = "auth"]
           l == [loc[h] EXCEPT !.at = "auth"]
<1>2. Talk(loc[h], conn[h]) /\ loc[h].at = "dial" /\ UNCHANGED bound
      /\ loc' = [loc EXCEPT ![h] = l]
  BY DEF TalkInv, Dials, AtPlace, Go
<1>3. c \in ConnType /\ c.stage = "auth" /\ c.out = << >> /\ c.in = << >> /\ c.seq = 0
  BY Rests DEF ConnType, NoConn
<1>4. Shaped(l) /\ l.at = "auth" /\ l.changes = loc[h].changes /\ l.overtaken = loc[h].overtaken
  BY <1>2, Moved DEF Talk
<1>5. conn' = [conn EXCEPT ![h] = c]
  BY <1>1
<1> HIDE DEF c, l
<1>6. Talk(l, c)
  BY <1>2, <1>3, <1>4 DEF Talk, Places, Telling
<1> QED BY <1>2, <1>5, <1>6, OneTalks

LEMMA ReadsTalking ==
    ASSUME TalkInv, NEW h \in Handlers, DialReads(h)
    PROVE  TalkInv'
<1>1. Talk(loc[h], conn[h]) /\ loc[h].at = "auth" /\ conn[h].in # << >> /\ UNCHANGED bound
  BY DEF TalkInv, DialReads, AtPlace
<1>2. CASE Done(h)
  BY <1>1, <1>2, DoneTalking
<1> DEFINE l == Listed(loc[h], SetToSeq(DOMAIN loc[h].changes))
           c == [conn[h] EXCEPT !.in = Tail(conn[h].in)]
<1>3. CASE loc' = [loc EXCEPT ![h] = l] /\ conn' = [conn EXCEPT ![h] = c]
  <2>1. loc[h].changes \in bound.changes /\ conn[h] \in ConnType /\ conn[h].stage \in {"open", "refused"}
        /\ conn[h].out = << >> /\ conn[h].seq = 0 /\ \A i \in 2 .. Len(conn[h].in) : conn[h].in[i].typ # "response"
    BY <1>1 DEF Talk, ConnType
  <2>2. SetToSeq(DOMAIN loc[h].changes) \in Seq(DOMAIN loc[h].changes) \ {<< >>}
    BY <2>1, Changes, KeysInOrder
  <2>3. Shaped(l) /\ l.at = "exec" /\ l.changes = loc[h].changes /\ l.overtaken = loc[h].overtaken
        /\ l.todo = SetToSeq(DOMAIN loc[h].changes)
    BY <1>1, ListedFacts DEF Talk
  <2>4. conn[h].in \in Seq(Frames)
    BY <2>1 DEF ConnType
  <2>5. Tail(conn[h].in) \in Seq(Frames) /\ Len(conn[h].in) \in Nat
        /\ Len(Tail(conn[h].in)) = Len(conn[h].in) - 1
        /\ \A i \in 1 .. Len(Tail(conn[h].in)) : Tail(conn[h].in)[i] = conn[h].in[i + 1]
    BY <1>1, <2>4, FirstOf
  <2>6. c \in ConnType /\ c.stage = conn[h].stage /\ c.out = << >> /\ c.seq = 0
        /\ c.in = Tail(conn[h].in)
    BY <2>1, <2>5 DEF ConnType
  <2> HIDE DEF l, c
  <2>7. \A i \in 1 .. Len(c.in) : c.in[i].typ # "response"
    BY <2>1, <2>5, <2>6
  <2>8. Numbered(l, c)
    BY <2>3, <2>6, <2>7 DEF Numbered
  <2>9. Talk(l, c)
    BY <1>1, <2>1, <2>2, <2>3, <2>6, <2>8 DEF Talk, Places, Telling
  <2> QED BY <1>1, <1>3, <2>9, OneTalks
<1> HIDE DEF l, c
<1>4. Done(h) \/ (loc' = [loc EXCEPT ![h] = l] /\ conn' = [conn EXCEPT ![h] = c])
  BY Zenon DEF DialReads, Connect, Listed, l, c
<1> QED BY <1>2, <1>3, <1>4

\* What is left in the connection when a packet was taken from it.
LEMMA Taken ==
    ASSUME NEW c \in ConnType, NEW m, m = [c EXCEPT !.in = Tail(c.in)], c.in # << >>,
           NEW l, Numbered(l, c)
    PROVE  /\ m \in ConnType /\ m.stage = c.stage /\ m.seq = c.seq /\ m.out = c.out
           /\ m.in = Tail(c.in) /\ Numbered(l, m)
<1>1. c.in \in Seq(Frames)
  BY DEF ConnType
<1>2. /\ Tail(c.in) \in Seq(Frames)
      /\ \A i \in 1 .. Len(Tail(c.in)) : i + 1 \in 1 .. Len(c.in) /\ Tail(c.in)[i] = c.in[i + 1]
  BY <1>1, FirstOf
<1>3. /\ m \in ConnType /\ m.stage = c.stage /\ m.seq = c.seq /\ m.out = c.out
      /\ m.in = Tail(c.in)
  BY <1>2 DEF ConnType
<1>4. Numbered(l, m)
  BY <1>2, <1>3 DEF Numbered
<1> QED BY <1>3, <1>4

\* The next key, with a connection whose packets are numbered.
LEMMA NextTalking ==
    ASSUME TalkInv, NEW h \in Handlers, NEW c \in ConnType, loc[h].at = "answer",
           NextKey(h, c), c.stage = conn[h].stage, Numbered(loc[h], c), UNCHANGED bound
    PROVE  TalkInv'
<1>1. CASE Done(h)
  BY <1>1, DoneTalking
<1> DEFINE l == Listed(loc[h], Tail(loc[h].todo))
<1>2. Talk(loc[h], conn[h])
  BY DEF TalkInv
<1>3. CASE Len(loc[h].todo) # 1 /\ loc' = [loc EXCEPT ![h] = l] /\ conn' = [conn EXCEPT ![h] = c]
  <2>1. Shaped(l) /\ l.at = "exec" /\ l.changes = loc[h].changes /\ l.todo = Tail(loc[h].todo)
    BY <1>2, ListedFacts DEF Talk
  <2>2. loc[h].todo \in Seq(DOMAIN loc[h].changes) \ {<< >>} /\ conn[h].stage \in {"open", "refused"}
        /\ loc[h].changes \in bound.changes
    BY <1>2 DEF Talk
  <2>3. Tail(loc[h].todo) \in Seq(DOMAIN loc[h].changes) \ {<< >>}
    BY <1>3, <2>2, FirstOf
  <2> HIDE DEF l
  <2>4. Numbered(l, c)
    BY <2>1 DEF Numbered
  <2>5. Talk(l, c)
    BY <2>1, <2>2, <2>3, <2>4 DEF Talk, Places, Telling
  <2> QED BY <1>3, <2>5, OneTalks
<1>4. Done(h) \/ (Len(loc[h].todo) # 1 /\ loc' = [loc EXCEPT ![h] = l] /\ conn' = [conn EXCEPT ![h] = c])
  BY Zenon DEF NextKey, Connect, Listed
<1> QED BY <1>1, <1>3, <1>4

Sent(c, command) == [c EXCEPT !.seq = c.seq + 1, !.out = Append(c.out, command)]
LEMMA SentFacts ==
    ASSUME NEW c \in ConnType, NEW x \in Commands
    PROVE  /\ Sent(c, x) \in ConnType /\ Sent(c, x).seq = c.seq + 1 /\ Sent(c, x).in = c.in
           /\ Sent(c, x).out = Append(c.out, x) /\ Sent(c, x).stage = c.stage
<1> DEFINE m == [c EXCEPT !.seq = c.seq + 1]
<1>1. /\ m \in ConnType /\ m.seq = c.seq + 1 /\ m.out = c.out /\ m.in = c.in /\ m.stage = c.stage
  BY DEF ConnType
<1>2. Sent(c, x) = [m EXCEPT !.out = Append(c.out, x)]
  BY Zenon DEF Sent
<1>3. Append(c.out, x) \in Seq(Commands)
  <2>1. c.out \in Seq(Commands)
    BY DEF ConnType
  <2> QED BY <2>1, LastOf
<1> HIDE DEF m
<1> QED BY <1>1, <1>2, <1>3 DEF ConnType

\* The numbers after one more command was sent, the one that is waited for.
LEMMA SentNumbered ==
    ASSUME NEW c \in ConnType, NEW d \in ConnType, NEW l, NEW m, NEW x \in Commands,
           Numbered(l, c), d.seq = c.seq + 1, d.out = Append(c.out, x), d.in = c.in,
           x.id = c.seq + 1, x.key = Head(l.todo), x.key \in DOMAIN l.changes,
           x.value = l.changes[x.key], m.changes = l.changes, m.todo = l.todo
    PROVE  Numbered(m, d)
<1>1. c.seq \in Nat /\ c.out \in Seq(Commands) /\ c.in \in Seq(Frames)
  BY DEF ConnType
<1>2. ASSUME NEW i \in 1 .. Len(d.out)
      PROVE  \/ i \in 1 .. Len(c.out) /\ d.out[i] = c.out[i]
             \/ d.out[i] = x
  BY <1>1, LastOf
<1>3. ASSUME NEW i \in 1 .. Len(d.out)
      PROVE  /\ d.out[i].id \in 1 .. d.seq
             /\ d.out[i].key \in DOMAIN m.changes
             /\ d.out[i].value = m.changes[d.out[i].key]
             /\ d.out[i].id = d.seq => d.out[i].key = Head(m.todo)
  <2>1. CASE d.out[i] = x
    BY <1>1, <2>1
  <2>2. CASE i \in 1 .. Len(c.out) /\ d.out[i] = c.out[i]
    <3>1. /\ d.out[i].id \in 1 .. c.seq
          /\ d.out[i].key \in DOMAIN l.changes
          /\ d.out[i].value = l.changes[d.out[i].key]
      BY <2>2 DEF Numbered
    <3> QED BY <1>1, <3>1
  <2> QED BY <1>2, <2>1, <2>2
<1>4. ASSUME NEW i \in 1 .. Len(d.in), d.in[i].typ = "response"
      PROVE  d.in[i].id <= d.seq /\ d.in[i].id # d.seq
  <2>1. d.in[i].id <= c.seq
    BY <1>4 DEF Numbered
  <2>2. d.in[i].id \in Int
    <3>1. d.in[i] \in Frames
      BY <1>1
    <3> QED BY <3>1 DEF Frames
  <2> QED BY <1>1, <2>1, <2>2
<1>5. d.seq > 0
  BY <1>1
<1>6. \A i \in 1 .. Len(d.out) :
         /\ d.out[i].id \in 1 .. d.seq
         /\ d.out[i].key \in DOMAIN m.changes
         /\ d.out[i].value = m.changes[d.out[i].key]
         /\ d.out[i].id = d.seq => d.out[i].key = Head(m.todo)
  BY <1>3
<1>7. \A i \in 1 .. Len(d.in) :
         d.in[i].typ = "response" => d.in[i].id <= d.seq /\ d.in[i].id # d.seq
  BY <1>4
<1> QED BY <1>5, <1>6, <1>7, Zenon DEF Numbered

LEMMA SendsTalking ==
    ASSUME TalkInv, NEW h \in Handlers, ExecSends(h)
    PROVE  TalkInv'
<1> DEFINE key == Head(loc[h].todo)
           command == [id |-> conn[h].seq + 1, key |-> key, value |-> loc[h].changes[key]]
           c == Sent(conn[h], command)
           l == [loc[h] EXCEPT !.at = "answer"]
<1>1. /\ Talk(loc[h], conn[h]) /\ loc[h].at = "exec" /\ UNCHANGED bound
      /\ loc' = [loc EXCEPT ![h] = l] /\ conn' = [conn EXCEPT ![h] = c]
  BY DEF TalkInv, ExecSends, AtPlace, Go, Connect, Sent
<1>2. /\ loc[h].todo \in Seq(DOMAIN loc[h].changes) \ {<< >>} /\ loc[h].changes \in bound.changes
      /\ conn[h].stage \in {"open", "refused"} /\ Numbered(loc[h], conn[h]) /\ conn[h] \in ConnType
      /\ conn[h].seq \in Nat
  BY <1>1 DEF Talk, ConnType
<1>3. key \in DOMAIN loc[h].changes
  BY <1>2, FirstOf
<1>4. command \in Commands
  BY <1>2, <1>3, Changes DEF Commands
<1>5. Shaped(l) /\ l.at = "answer" /\ l.changes = loc[h].changes /\ l.todo = loc[h].todo
  BY <1>1, Moved DEF Talk
<1>6. command.id = conn[h].seq + 1 /\ command.key = key /\ command.value = loc[h].changes[key]
  OBVIOUS
<1> HIDE DEF l, command
<1>7. /\ c \in ConnType /\ c.seq = conn[h].seq + 1 /\ c.out = Append(conn[h].out, command)
      /\ c.in = conn[h].in /\ c.stage = conn[h].stage
  BY <1>2, <1>4, SentFacts
<1> HIDE DEF c
<1>8. Numbered(l, c)
  <2> DEFINE b == conn[h]
             k == loc[h]
  <2>1. /\ b \in ConnType /\ Numbered(k, b)
        /\ c.seq = b.seq + 1 /\ c.out = Append(b.out, command) /\ c.in = b.in
        /\ command.id = b.seq + 1 /\ command.key = Head(k.todo) /\ command.key \in DOMAIN k.changes
        /\ command.value = k.changes[command.key] /\ l.changes = k.changes /\ l.todo = k.todo
    BY <1>2, <1>3, <1>5, <1>6, <1>7
  <2> HIDE DEF b, k, key
  <2> QED BY <1>4, <1>7, <2>1, SentNumbered
<1>9. Talk(l, c)
  BY <1>2, <1>5, <1>7, <1>8 DEF Talk, Places, Telling
<1> QED BY <1>1, <1>9, OneTalks

LEMMA SkipsTalking ==
    ASSUME TalkInv, NEW h \in Handlers, ExecSkips(h)
    PROVE  TalkInv'
<1> DEFINE c == [conn[h] EXCEPT !.in = Tail(conn[h].in)]
<1>1. Talk(loc[h], conn[h]) /\ loc[h].at = "answer" /\ conn[h].in # << >> /\ UNCHANGED <<bound, loc>>
      /\ conn' = [conn EXCEPT ![h] = c]
  BY DEF TalkInv, ExecSkips, AtPlace, Connect
<1>2. c \in ConnType /\ c.stage = conn[h].stage /\ Numbered(loc[h], c)
  BY <1>1, Taken DEF Talk
<1> HIDE DEF c
<1>3. Talk(loc[h], c)
  BY <1>1, <1>2 DEF Talk
<1>4. loc' = [loc EXCEPT ![h] = loc[h]]
  BY <1>1 DEF TalkInv
<1> QED BY <1>1, <1>3, <1>4, OneTalks

LEMMA ReturnsTalking ==
    ASSUME TalkInv, NEW h \in Handlers, ExecReturns(h)
    PROVE  TalkInv'
<1> DEFINE c == [conn[h] EXCEPT !.in = Tail(conn[h].in)]
<1>1. Talk(loc[h], conn[h]) /\ loc[h].at = "answer" /\ conn[h].in # << >> /\ UNCHANGED bound
      /\ NextKey(h, c)
  BY DEF TalkInv, ExecReturns, AtPlace
<1>2. c \in ConnType /\ c.stage = conn[h].stage /\ Numbered(loc[h], c)
  BY <1>1, Taken DEF Talk
<1> HIDE DEF c
<1> QED BY <1>1, <1>2, NextTalking

LEMMA FailsTalking ==
    ASSUME TalkInv, NEW h \in Handlers, ExecFails(h)
    PROVE  TalkInv'
<1>1. Talk(loc[h], conn[h]) /\ loc[h].at = "answer" /\ UNCHANGED bound
  BY DEF TalkInv, ExecFails, AtPlace
<1>2. PICK torn \in BOOLEAN : NextKey(h, [conn[h] EXCEPT !.torn = torn])
  <2>1. conn[h].torn \in BOOLEAN
    BY <1>1 DEF Talk, ConnType
  <2>2. PICK torn \in {conn[h].torn, conn[h].torn \/ conn[h].in # << >>} :
            NextKey(h, [conn[h] EXCEPT !.torn = torn])
    BY DEF ExecFails
  <2>3. torn \in BOOLEAN
    BY <2>1, <2>2, Zenon
  <2> QED BY <2>2, <2>3
<1> DEFINE c == [conn[h] EXCEPT !.torn = torn]
<1>3. /\ c \in ConnType /\ c.stage = conn[h].stage /\ c.in = conn[h].in /\ c.out = conn[h].out
      /\ c.seq = conn[h].seq
  BY <1>1 DEF Talk, ConnType
<1> HIDE DEF c
<1>4. Numbered(loc[h], c)
  BY <1>1, <1>3 DEF Talk, Numbered
<1>5. NextKey(h, c)
  BY <1>2 DEF c
<1> QED BY <1>1, <1>3, <1>4, <1>5, NextTalking

-----------------------------------------------------------------------------
(* Steps of the server *)

\* What a server puts before a packet.
LEMMA EmptyFirst ==
    ASSUME NEW id \in Int, NEW first \in {<< >>} \cup Empty(id)
    PROVE  /\ first \in Seq(Frames)
           /\ \A i \in 1 .. Len(first) : first[i].id = id /\ first[i].typ = "response"
           /\ first = << >> \/ Len(first) = 1
<1>1. first = << >> \/ first = <<Frame(id, "response", << >>)>>
  BY DEF Empty
<1>2. Frame(id, "response", << >>) \in Frames
  BY DEF Frame, Frames
<1>3. Frame(id, "response", << >>).id = id /\ Frame(id, "response", << >>).typ = "response"
  BY DEF Frame
<1> HIDE DEF Frame
<1>4. CASE first = << >>
  BY <1>4
<1>5. CASE first = <<Frame(id, "response", << >>)>>
  <2> DEFINE f == Frame(id, "response", << >>)
  <2>1. first = <<f>> /\ f \in Frames /\ f.id = id /\ f.typ = "response"
    BY <1>2, <1>3, <1>5
  <2> HIDE DEF f
  <2> QED BY <2>1
<1> QED BY <1>1, <1>4, <1>5

\* What it puts into a connection that holds some packets.
LEMMA PutsAnswer ==
    ASSUME NEW in \in Seq(Frames), NEW first \in Seq(Frames), NEW e \in Frames
    PROVE  /\ first \o <<e>> \in Seq(Frames) /\ Len(first \o <<e>>) = Len(first) + 1
           /\ in \o first \o <<e>> = in \o (first \o <<e>>)
           /\ \A i \in 1 .. Len(first \o <<e>>) : \/ i \in 1 .. Len(first) /\ (first \o <<e>>)[i] = first[i]
                                                  \/ i = Len(first) + 1 /\ (first \o <<e>>)[i] = e
<1> DEFINE last == <<e>>
<1>1. last \in Seq(Frames) /\ Len(last) = 1 /\ last[1] = e
  OBVIOUS
<1> HIDE DEF last
<1>2. in \o first \o last = in \o (first \o last)
  BY <1>1, ConcatAssociative
<1>3. /\ first \o last \in Seq(Frames) /\ Len(first \o last) = Len(first) + Len(last)
      /\ \A i \in 1 .. Len(first) + Len(last) : (first \o last)[i] =
                  IF i <= Len(first) THEN first[i] ELSE last[i - Len(first)]
  BY <1>1, ConcatProperties
<1>4. ASSUME NEW i \in 1 .. Len(first \o last)
      PROVE  \/ i \in 1 .. Len(first) /\ (first \o last)[i] = first[i]
             \/ i = Len(first) + 1 /\ (first \o last)[i] = e
  <2> DEFINE n == Len(first)
  <2>1. n \in Nat
    OBVIOUS
  <2> HIDE DEF n
  <2>2. i \in 1 .. n \/ i = n + 1
    BY <1>1, <1>3, <2>1 DEF n
  <2>3. i = n + 1 => i - n = 1 /\ ~(i <= n)
    BY <2>1
  <2>4. i \in 1 .. n => i <= n
    BY <2>1
  <2> QED BY <1>1, <1>3, <2>2, <2>3, <2>4 DEF n
<1> QED BY <1>1, <1>2, <1>3, <1>4 DEF last

Authed(c, stage, more) == [c EXCEPT !.stage = stage, !.in = c.in \o more]
LEMMA AuthedFacts ==
    ASSUME NEW c \in ConnType, NEW s \in {"open", "refused"}, NEW more \in Seq(Frames)
    PROVE  /\ Authed(c, s, more) \in ConnType /\ Authed(c, s, more).stage = s
           /\ Authed(c, s, more).in = c.in \o more /\ Authed(c, s, more).out = c.out
           /\ Authed(c, s, more).seq = c.seq
<1> DEFINE m == [c EXCEPT !.stage = s]
<1>1. /\ m \in ConnType /\ m.stage = s /\ m.out = c.out /\ m.in = c.in /\ m.seq = c.seq
  BY DEF ConnType
<1>2. Authed(c, s, more) = [m EXCEPT !.in = c.in \o more]
  BY Zenon DEF Authed
<1>3. c.in \o more \in Seq(Frames)
  BY Joins DEF ConnType
<1> HIDE DEF m
<1> QED BY <1>1, <1>2, <1>3 DEF ConnType

LEMMA AuthsTalking ==
    ASSUME TalkInv, NEW h \in Handlers, ServerAuths(h)
    PROVE  TalkInv'
<1> DEFINE s == IF conn[h].right THEN "open" ELSE "refused"
           e == Frame(IF conn[h].right THEN 1 ELSE -1, "auth", << >>)
<1>1. /\ Talk(loc[h], conn[h]) /\ conn[h].stage = "auth" /\ UNCHANGED <<bound, loc>>
      /\ loc[h].at = "auth"
  BY DEF TalkInv, ServerAuths, Talk
<1>2. PICK first \in {<< >>} \cup Empty(1) :
          conn' = [conn EXCEPT ![h] = [conn[h] EXCEPT !.stage = s, !.in = @ \o first \o <<e>>]]
  BY Zenon DEF ServerAuths, Connect
<1> DEFINE more == first \o <<e>>
           c == Authed(conn[h], s, more)
<1>3. conn[h] \in ConnType /\ conn[h].in = << >> /\ conn[h].out = << >> /\ conn[h].seq = 0
  BY <1>1 DEF Talk
<1>4. s \in {"open", "refused"}
  OBVIOUS
<1>5. e \in Frames /\ e.typ = "auth"
  BY DEF Frame, Frames
<1>6. first \in Seq(Frames) /\ (first = << >> \/ Len(first) = 1)
  BY <1>2, EmptyFirst
<1> HIDE DEF s, e
<1>7. /\ more \in Seq(Frames) /\ \A i \in 2 .. Len(more) : more[i].typ # "response"
  <2>1. /\ more \in Seq(Frames) /\ Len(more) = Len(first) + 1
        /\ \A i \in 1 .. Len(more) : i \in 1 .. Len(first) \/ more[i] = e
    BY <1>5, <1>6, PutsAnswer
  <2>2. \A i \in 2 .. Len(more) : i \in 1 .. Len(more) /\ i \notin 1 .. Len(first)
    <3> DEFINE n == Len(first)
    <3>1. n \in {0, 1} /\ Len(more) = n + 1
      BY <1>6, <2>1
    <3> HIDE DEF n, more
    <3>2. \A i \in 2 .. Len(more) : i \in 1 .. Len(more) /\ i \notin 1 .. n
      BY <3>1
    <3> QED BY <3>2 DEF n
  <2> HIDE DEF more
  <2> QED BY <1>5, <2>1, <2>2
<1>8. << >> \o more = more /\ conn[h].in \o first \o <<e>> = conn[h].in \o more
  <2>1. << >> \in Seq(Frames)
    OBVIOUS
  <2> QED BY <1>3, <1>5, <1>6, <1>7, <2>1, PutsAnswer, ConcatEmptySeq
<1>9. conn' = [conn EXCEPT ![h] = c]
  BY <1>2, <1>8, Zenon DEF Authed
<1>10. c \in ConnType /\ c.stage = s /\ c.in = more /\ c.out = << >> /\ c.seq = 0
  BY <1>3, <1>4, <1>7, <1>8, AuthedFacts
<1> HIDE DEF more, c
<1>11. Talk(loc[h], c)
  BY <1>1, <1>4, <1>7, <1>10 DEF Talk
<1>12. loc' = [loc EXCEPT ![h] = loc[h]]
  BY <1>1 DEF TalkInv
<1> QED BY <1>1, <1>9, <1>11, <1>12, OneTalks

Answered(c, more) == [c EXCEPT !.out = Tail(c.out), !.in = c.in \o more]
LEMMA AnsweredFacts ==
    ASSUME NEW c \in ConnType, c.out # << >>, NEW more \in Seq(Frames)
    PROVE  /\ Answered(c, more) \in ConnType /\ Answered(c, more).stage = c.stage
           /\ Answered(c, more).in = c.in \o more /\ Answered(c, more).out = Tail(c.out)
           /\ Answered(c, more).seq = c.seq
<1> DEFINE m == [c EXCEPT !.out = Tail(c.out)]
<1>1. Tail(c.out) \in Seq(Commands)
  BY FirstOf DEF ConnType
<1>2. /\ m \in ConnType /\ m.stage = c.stage /\ m.out = Tail(c.out) /\ m.in = c.in /\ m.seq = c.seq
  BY <1>1 DEF ConnType
<1>3. Answered(c, more) = [m EXCEPT !.in = c.in \o more]
  BY Zenon DEF Answered
<1>4. c.in \o more \in Seq(Frames)
  BY Joins DEF ConnType
<1> HIDE DEF m
<1> QED BY <1>2, <1>3, <1>4 DEF ConnType

\* The numbers after the first command was taken and answered.
LEMMA AnsweredNumbered ==
    ASSUME NEW c \in ConnType, NEW d \in ConnType, NEW l, Numbered(l, c), c.out # << >>,
           NEW more \in Seq(Frames), d.seq = c.seq, d.out = Tail(c.out), d.in = c.in \o more,
           \A i \in 1 .. Len(more) :
              \/ more[i].id = 0
              \/ more[i].id = Head(c.out).id /\ more[i].of = Head(c.out).key
    PROVE  Numbered(l, d)
<1>1. c.seq \in Nat /\ c.out \in Seq(Commands) /\ c.in \in Seq(Frames)
  BY DEF ConnType
<1>2. /\ Head(c.out) = c.out[1] /\ 1 \in 1 .. Len(c.out)
      /\ \A i \in 1 .. Len(d.out) : i + 1 \in 1 .. Len(c.out) /\ d.out[i] = c.out[i + 1]
  BY <1>1, FirstOf
<1>3. ASSUME NEW i \in 1 .. Len(d.out)
      PROVE  /\ d.out[i].id \in 1 .. d.seq
             /\ d.out[i].key \in DOMAIN l.changes
             /\ d.out[i].value = l.changes[d.out[i].key]
             /\ l.at = "answer" /\ d.out[i].id = d.seq => d.out[i].key = Head(l.todo)
  <2>1. i + 1 \in 1 .. Len(c.out) /\ d.out[i] = c.out[i + 1]
    BY <1>2
  <2> QED BY <2>1 DEF Numbered
<1>4. /\ Head(c.out).id \in 1 .. c.seq
      /\ l.at = "answer" /\ Head(c.out).id = c.seq => Head(c.out).key = Head(l.todo)
  BY <1>2 DEF Numbered
<1>5. ASSUME NEW i \in 1 .. Len(d.in), d.in[i].typ = "response"
      PROVE  /\ d.in[i].id <= d.seq
             /\ l.at = "answer" /\ d.in[i].id = d.seq => d.in[i].of = Head(l.todo)
  <2>1. \/ i \in 1 .. Len(c.in) /\ d.in[i] = c.in[i]
        \/ \E j \in 1 .. Len(more) : d.in[i] = more[j]
    <3> DEFINE q == c.in
    <3>1. q \in Seq(Frames) /\ d.in = q \o more
      BY <1>1
    <3> HIDE DEF q
    <3>2. \A j \in 1 .. Len(q \o more) : \/ j \in 1 .. Len(q) /\ (q \o more)[j] = q[j]
                                         \/ \E n \in 1 .. Len(more) : (q \o more)[j] = more[n]
      BY <3>1, Joins
    <3> QED BY <3>1, <3>2 DEF q
  <2>2. CASE i \in 1 .. Len(c.in) /\ d.in[i] = c.in[i]
    BY <1>5, <2>2 DEF Numbered
  <2>3. CASE \E j \in 1 .. Len(more) : d.in[i] = more[j]
    <3>1. \/ d.in[i].id = 0
          \/ d.in[i].id = Head(c.out).id /\ d.in[i].of = Head(c.out).key
      BY <2>3
    <3>2. l.at = "answer" => c.seq > 0
      BY DEF Numbered
    <3>3. CASE d.in[i].id = 0
      BY <1>1, <3>2, <3>3
    <3>4. CASE d.in[i].id = Head(c.out).id /\ d.in[i].of = Head(c.out).key
      BY <1>1, <1>4, <3>4
    <3> QED BY <3>1, <3>3, <3>4
  <2> QED BY <2>1, <2>2, <2>3
<1>6. l.at = "answer" => c.seq > 0
  BY DEF Numbered
<1>7. \A i \in 1 .. Len(d.out) :
         /\ d.out[i].id \in 1 .. d.seq
         /\ d.out[i].key \in DOMAIN l.changes
         /\ d.out[i].value = l.changes[d.out[i].key]
         /\ l.at = "answer" /\ d.out[i].id = d.seq => d.out[i].key = Head(l.todo)
  BY <1>3
<1>8. \A i \in 1 .. Len(d.in) : d.in[i].typ = "response" =>
         /\ d.in[i].id <= d.seq
         /\ l.at = "answer" /\ d.in[i].id = d.seq => d.in[i].of = Head(l.todo)
  BY <1>5
<1>9. l.at = "answer" => d.seq > 0
  BY <1>6
<1> QED BY <1>7, <1>8, <1>9, Zenon DEF Numbered

\* The server's answer to the first command, with an empty packet or without.
LEMMA ServerAnswers ==
    ASSUME TalkInv, NEW h \in Handlers, ServerExecs(h)
    PROVE  \E more \in Seq(Frames) :
              /\ conn' = [conn EXCEPT ![h] = Answered(conn[h], more)]
              /\ \A i \in 1 .. Len(more) :
                    \/ more[i].id = 0
                    \/ more[i].id = Head(conn[h].out).id /\ more[i].of = Head(conn[h].out).key
<1> DEFINE command == Head(conn[h].out)
           e == Frame(command.id, "response", command.key)
<1>1. /\ Talk(loc[h], conn[h]) /\ conn[h].out # << >>
  BY DEF TalkInv, ServerExecs
<1>2. PICK first \in {<< >>} \cup Empty(0) :
          conn' = [conn EXCEPT ![h] = [conn[h] EXCEPT !.out = Tail(@), !.in = @ \o first \o <<e>>]]
  BY Zenon DEF ServerExecs, Connect
<1> DEFINE more == first \o <<e>>
<1>3. conn[h] \in ConnType /\ conn[h].in \in Seq(Frames) /\ conn[h].out \in Seq(Commands)
  BY <1>1 DEF Talk, ConnType
<1>5. command \in Commands
  BY <1>1, <1>3, FirstOf
<1>6. e \in Frames /\ e.id = command.id /\ e.of = command.key
  BY <1>5 DEF Frame, Frames, Commands
<1>7. first \in Seq(Frames) /\ (\A i \in 1 .. Len(first) : first[i].id = 0)
  BY <1>2, EmptyFirst
<1> HIDE DEF command, e
<1>8. /\ more \in Seq(Frames)
      /\ \A i \in 1 .. Len(more) : more[i].id = 0 \/ (more[i].id = command.id /\ more[i].of = command.key)
  <2>1. /\ more \in Seq(Frames)
        /\ \A i \in 1 .. Len(more) : (i \in 1 .. Len(first) /\ more[i] = first[i]) \/ more[i] = e
    BY <1>6, <1>7, PutsAnswer
  <2> HIDE DEF more
  <2> QED BY <1>6, <1>7, <2>1
<1>9. conn[h].in \o first \o <<e>> = conn[h].in \o more
  BY <1>3, <1>6, <1>7, PutsAnswer
<1>10. conn' = [conn EXCEPT ![h] = Answered(conn[h], more)]
  BY <1>2, <1>9, Zenon DEF Answered
<1> HIDE DEF more
<1> QED BY <1>8, <1>10 DEF command

LEMMA ExecsTalking ==
    ASSUME TalkInv, NEW h \in Handlers, ServerExecs(h)
    PROVE  TalkInv'
<1>1. /\ Talk(loc[h], conn[h]) /\ conn[h].stage = "open" /\ UNCHANGED <<bound, loc>>
      /\ conn[h].out # << >>
  BY DEF TalkInv, ServerExecs
<1>2. PICK more \in Seq(Frames) :
          /\ conn' = [conn EXCEPT ![h] = Answered(conn[h], more)]
          /\ \A i \in 1 .. Len(more) :
                \/ more[i].id = 0
                \/ more[i].id = Head(conn[h].out).id /\ more[i].of = Head(conn[h].out).key
  BY ServerAnswers
<1> DEFINE c == Answered(conn[h], more)
<1>3. conn[h] \in ConnType /\ loc[h].at \in {"exec", "answer"} /\ Numbered(loc[h], conn[h])
  BY <1>1 DEF Talk
<1>4. /\ c \in ConnType /\ c.stage = conn[h].stage /\ c.in = conn[h].in \o more
      /\ c.out = Tail(conn[h].out) /\ c.seq = conn[h].seq
  BY <1>1, <1>3, AnsweredFacts
<1>5. conn' = [conn EXCEPT ![h] = c]
  BY <1>2
<1> HIDE DEF c
<1>6. Numbered(loc[h], c)
  BY <1>1, <1>2, <1>3, <1>4, AnsweredNumbered
<1>7. Talk(loc[h], c)
  BY <1>1, <1>3, <1>4, <1>6 DEF Talk
<1>8. loc' = [loc EXCEPT ![h] = loc[h]]
  BY <1>1 DEF TalkInv
<1> QED BY <1>1, <1>5, <1>7, <1>8, OneTalks

LEMMA ExitsTalking ==
    ASSUME TalkInv, Exits
    PROVE  TalkInv'
<1>1. UNCHANGED <<bound, loc>> /\ conn' = [h \in Handlers |-> [conn[h] EXCEPT !.up = FALSE]]
  BY DEF Exits
<1>2. ASSUME NEW h \in Handlers PROVE Talk(loc[h], conn'[h])
  <2>1. Talk(loc[h], conn[h])
    BY DEF TalkInv
  <2>2. /\ conn'[h] \in ConnType /\ conn'[h].stage = conn[h].stage /\ conn'[h].out = conn[h].out
        /\ conn'[h].in = conn[h].in /\ conn'[h].seq = conn[h].seq
    BY <1>1, <2>1 DEF Talk, ConnType
  <2>3. Numbered(loc[h], conn[h]) => Numbered(loc[h], conn'[h])
    BY <2>2, Zenon DEF Numbered
  <2> QED BY <2>1, <2>2, <2>3 DEF Talk
<1> QED BY <1>1, <1>2 DEF TalkInv, Talk

-----------------------------------------------------------------------------
LEMMA TalkInit == SettingsInit => TalkInv
  BY Rests DEF SettingsInit, TalkInv

LEMMA TalkStep == TalkInv /\ [SettingsNext]_settingsVars => TalkInv'
<1> SUFFICES ASSUME TalkInv, [SettingsNext]_settingsVars PROVE TalkInv'
  OBVIOUS
<1>1. CASE UNCHANGED <<bound, loc, conn>>
  BY <1>1 DEF TalkInv, Talk
<1>2. CASE ServerSteps
  <2>1. ASSUME NEW h \in Handlers, ServerAuths(h) PROVE TalkInv'
    BY <2>1, AuthsTalking
  <2>2. ASSUME NEW h \in Handlers, ServerExecs(h) PROVE TalkInv'
    BY <2>2, ExecsTalking
  <2>3. CASE Starts \/ Launches \/ Listens \/ Announces \/ Settles
    BY <1>1, <2>3 DEF Starts, Launches, Listens, Announces, Settles
  <2> QED BY <1>2, <2>1, <2>2, <2>3, ExitsTalking DEF ServerSteps
<1>3. ASSUME NEW h \in Handlers, PutNext(h) PROVE TalkInv'
  <2>1. CASE SaveTruncates(h)
    <3>1. /\ loc' = [loc EXCEPT ![h] = [loc[h] EXCEPT !.at = "write"]] /\ loc[h].at = "save"
          /\ UNCHANGED <<bound, conn>>
      BY <2>1 DEF SaveTruncates, AtPlace, Go
    <3>2. /\ "write" \in Places \ {"none"} /\ "write" \notin {"auth", "exec", "answer"}
          /\ loc[h].at \notin {"none", "auth", "exec", "answer"}
      BY <3>1 DEF Places
    <3> QED BY <3>1, <3>2, GoesTalking, Zenon
  <2>2. CASE SaveFails(h)
    BY <2>2, DoneTalking DEF SaveFails
  <2>3. CASE Asks(h)
    <3>1. UNCHANGED bound /\ (Done(h) \/ (loc[h].at = "ask" /\ Go(h, "dial") /\ UNCHANGED conn))
      BY <2>3 DEF Asks, AtPlace
    <3> QED BY <3>1, DoneTalking, GoesTalking DEF Go, Places, Telling
  <2>4. CASE DialFails(h)
    BY <2>4, DoneTalking DEF DialFails
  <2> QED BY <1>3, <2>1, <2>2, <2>3, <2>4, LoadsTalking, WritesTalking, DialsTalking, ReadsTalking,
             SendsTalking, SkipsTalking, ReturnsTalking, FailsTalking DEF PutNext
<1>4. UNCHANGED settingsVars => UNCHANGED <<bound, loc, conn>>
  BY DEF settingsVars
<1> QED BY <1>1, <1>2, <1>3, <1>4 DEF SettingsNext

LEMMA TalkAlways == SettingsSpec => []TalkInv
  BY TalkInit, TalkStep, PTL DEF SettingsSpec

StateOK ==
    /\ status \in {"idle", "starting", "running"}
    /\ server \in {"off", "launched", "up"}
    /\ lost \in BOOLEAN /\ raced \in BOOLEAN /\ missed \in BOOLEAN

LEMMA StateStep == StateOK /\ [SettingsNext]_settingsVars => StateOK'
<1> SUFFICES ASSUME StateOK, [SettingsNext]_settingsVars PROVE StateOK'
  OBVIOUS
<1>1. CASE UNCHANGED settingsVars
  BY <1>1, Zenon DEF settingsVars, fileVars, serverVars, StateOK
<1>2. ASSUME NEW h \in Handlers, PutNext(h) PROVE StateOK'
  <2>1. UNCHANGED <<status, server>>
    BY <1>2, Zenon DEF PutNext, PutLoads, SaveTruncates, SaveWrites, SaveFails, Asks, Dials, DialFails,
       DialReads, ExecSends, ExecReturns, ExecSkips, ExecFails, serverVars
  <2>2. lost' = lost \/ SaveFails(h)
    BY <1>2, Zenon DEF PutNext, PutLoads, SaveTruncates, SaveWrites, Asks, Dials, DialFails,
       DialReads, ExecSends, ExecReturns, ExecSkips, ExecFails, fileVars
  <2>3. SaveFails(h) => lost' \in BOOLEAN
    BY Zenon DEF SaveFails
  <2>4. raced' = raced \/ PutLoads(h)
    BY <1>2, Zenon DEF PutNext, SaveTruncates, SaveWrites, SaveFails, Asks, Dials, DialFails,
       DialReads, ExecSends, ExecReturns, ExecSkips, ExecFails
  <2>5. PutLoads(h) => raced' \in BOOLEAN
    BY Zenon DEF PutLoads
  <2>6. missed' = missed \/ missed' = TRUE
    BY <1>2, Zenon DEF PutNext, PutLoads, SaveTruncates, SaveWrites, SaveFails, Asks, Dials, DialFails,
       DialReads, ExecSends, ExecReturns, ExecSkips, ExecFails
  <2> QED BY <2>1, <2>2, <2>3, <2>4, <2>5, <2>6, Zenon DEF StateOK
<1>3. CASE ServerSteps
  <2>1. UNCHANGED <<lost, raced>>
    BY <1>3, Zenon DEF ServerSteps, Starts, Launches, Listens, Announces, Exits, Settles,
       ServerAuths, ServerExecs, fileVars
  <2>2. status' \in {"idle", "starting", "running"} /\ server' \in {"off", "launched", "up"}
    BY <1>3, Zenon DEF ServerSteps, Starts, Launches, Listens, Announces, Exits, Settles,
       ServerAuths, ServerExecs, serverVars, StateOK
  <2>3. missed' \in BOOLEAN
    <3>1. missed' = missed \/ Launches \/ \E h \in Handlers : ServerExecs(h)
      BY <1>3, Zenon DEF ServerSteps, Starts, Listens, Announces, Exits, Settles, ServerAuths
    <3>2. Launches => missed' \in BOOLEAN
      BY Zenon DEF Launches, Writing
    <3>3. (\E h \in Handlers : ServerExecs(h)) => missed' \in BOOLEAN
      BY Zenon DEF ServerExecs
    <3> QED BY <3>1, <3>2, <3>3, Zenon DEF StateOK
  <2> QED BY <2>1, <2>2, <2>3, Zenon DEF StateOK
<1> QED BY <1>1, <1>2, <1>3 DEF SettingsNext

\* The types of the places, the connections and the server's state.
THEOREM SettingsTypeCorrect == SettingsSpec => []SettingsTypeOK
<1>1. SettingsInit => StateOK
  BY DEF SettingsInit, StateOK
<1>2. TalkInv /\ StateOK => SettingsTypeOK
  <2> SUFFICES ASSUME TalkInv, StateOK PROVE SettingsTypeOK
    OBVIOUS
  <2>1. ASSUME NEW h \in Handlers
        PROVE  /\ loc[h].at \in {"none", "save", "write"} \cup Telling
               /\ conn[h].stage \in {"none", "auth", "open", "refused"} /\ conn[h].seq \in Nat
    BY DEF TalkInv, Talk, Places, ConnType
  <2>2. bound \in Cases
    BY DEF TalkInv
  <2> QED BY <2>1, <2>2, Zenon DEF SettingsTypeOK, StateOK
<1> QED BY <1>1, <1>2, TalkAlways, StateStep, PTL DEF SettingsSpec

\* AnswersMatch, for any handlers, keys and cases.
THEOREM ReturnsOwnAnswer == SettingsSpec => AnswersMatch
<1>1. ASSUME TalkInv, NEW h \in Handlers, ExecReturns(h)
      PROVE  Head(conn[h].in).of = Head(loc[h].todo)
  <2>1. /\ Talk(loc[h], conn[h]) /\ loc[h].at = "answer" /\ conn[h].in # << >>
        /\ Head(conn[h].in).typ = "response" /\ Head(conn[h].in).id = conn[h].seq
    BY <1>1 DEF TalkInv, ExecReturns, AtPlace, Takes
  <2>2. conn[h].in \in Seq(Frames) /\ Numbered(loc[h], conn[h])
    BY <2>1 DEF Talk, ConnType
  <2>3. Head(conn[h].in) = conn[h].in[1] /\ 1 \in 1 .. Len(conn[h].in)
    BY <2>1, <2>2, FirstOf
  <2> QED BY <2>1, <2>2, <2>3 DEF Numbered
<1>2. TalkInv => \A h \in Handlers : ExecReturns(h) => Head(conn[h].in).of = Head(loc[h].todo)
  BY <1>1
<1> QED BY <1>2, TalkAlways, PTL DEF SettingsSpec, AnswersMatch

-----------------------------------------------------------------------------
(* What the file says *)

\* Unless two PUTs met there, at most one is at the file, it has read what users
\* want, and the file says that or is emptied by the one that writes.
FileInv(maps) ==
    /\ ~raced => \A g, h \in Handlers : g # h =>
           loc[g].at \notin {"save", "write"} \/ loc[h].at \notin {"save", "write"}
    /\ ~raced /\ ~lost =>
           /\ want \in maps[bound]
           /\ (\A h \in Handlers : loc[h].at # "write") => Load(text) = want
           /\ \A h \in Handlers :
                  /\ loc[h].at \in {"save", "write"} => loc[h].existing = want
                  /\ loc[h].at = "write" => text = << >>

Sound(maps) == \A c \in Cases : RoundTrip(c, maps[c])

LEMMA OneMoved ==
    ASSUME TalkInv, NEW h \in Handlers, NEW l, loc' = [loc EXCEPT ![h] = l]
    PROVE  loc'[h] = l /\ \A g \in Handlers : g # h => loc'[g] = loc[g]
  BY DEF TalkInv

\* A handler that does not come to the file, and leaves it as it is, keeps it.
LEMMA FileKept ==
    ASSUME NEW maps, TalkInv, FileInv(maps), NEW h \in Handlers, NEW l,
           loc' = [loc EXCEPT ![h] = l], l.at \notin {"save", "write"},
           UNCHANGED <<bound, text, want>>, ~raced' => ~raced, ~lost' => ~lost,
           loc[h].at = "write" => lost'
    PROVE  FileInv(maps)'
<1>1. loc'[h] = l /\ \A g \in Handlers : g # h => loc'[g] = loc[g]
  BY OneMoved
<1>2. \A g \in Handlers : loc'[g].at \in {"save", "write"} => g # h /\ loc'[g] = loc[g]
  BY <1>1
<1>3. ~raced' => \A g, k \in Handlers : g # k =>
           loc'[g].at \notin {"save", "write"} \/ loc'[k].at \notin {"save", "write"}
  BY <1>2 DEF FileInv
<1>4. ASSUME ~raced', ~lost'
      PROVE  /\ want' \in maps[bound']
             /\ (\A g \in Handlers : loc'[g].at # "write") => Load(text') = want'
             /\ \A g \in Handlers :
                    /\ loc'[g].at \in {"save", "write"} => loc'[g].existing = want'
                    /\ loc'[g].at = "write" => text' = << >>
  <2>1. /\ want \in maps[bound]
        /\ (\A g \in Handlers : loc[g].at # "write") => Load(text) = want
        /\ \A g \in Handlers :
               /\ loc[g].at \in {"save", "write"} => loc[g].existing = want
               /\ loc[g].at = "write" => text = << >>
    BY <1>4 DEF FileInv
  <2>2. (\A g \in Handlers : loc'[g].at # "write") => \A g \in Handlers : loc[g].at # "write"
    BY <1>1, <1>4
  <2>3. Load(text') = Load(text)
    OBVIOUS
  <2> QED BY <1>2, <2>1, <2>2, <2>3
<1> QED BY <1>3, <1>4 DEF FileInv, Load

LEMMA FileLoads ==
    ASSUME NEW maps, TalkInv, FileInv(maps), NEW h \in Handlers, PutLoads(h)
    PROVE  FileInv(maps)'
<1>1. PICK ch \in bound.changes :
          loc' = [loc EXCEPT ![h] = [Resting EXCEPT !.at = "save", !.changes = ch,
                                                    !.existing = Load(text)]]
  BY DEF PutLoads
<1> DEFINE l == Loaded(ch, Load(text))
<1>2. l.at = "save" /\ l.existing = Load(text)
  BY LoadedFacts
<1>3. loc' = [loc EXCEPT ![h] = l]
  BY <1>1, Zenon DEF Loaded
<1>4. loc'[h] = l /\ \A g \in Handlers : g # h => loc'[g] = loc[g]
  BY <1>3, OneMoved
<1>5. UNCHANGED <<bound, text, want, lost>> /\ loc[h].at = "none" /\ ~raced
  BY DEF PutLoads, fileVars, AtPlace
<1>6. ~raced' => \A g \in Handlers : loc[g].at \notin {"save", "write"}
  BY Zenon DEF PutLoads, FileFree
<1> HIDE DEF l
<1>7. ~raced' => \A g \in Handlers : g # h => loc'[g].at \notin {"save", "write"}
  BY <1>4, <1>6
<1>8. ASSUME ~raced', ~lost'
      PROVE  /\ want' \in maps[bound'] /\ Load(text) = want /\ loc'[h].at # "write"
             /\ loc'[h].existing = want'
  <2>1. want \in maps[bound] /\ ((\A g \in Handlers : loc[g].at # "write") => Load(text) = want)
    BY <1>5, <1>8 DEF FileInv
  <2>2. Load(text) = want
    BY <1>6, <1>8, <2>1
  <2> QED BY <1>2, <1>4, <1>5, <2>1, <2>2
<1>9. Load(text)' = Load(text)
  BY <1>5 DEF Load
<1> QED BY <1>2, <1>4, <1>5, <1>7, <1>8, <1>9 DEF FileInv

LEMMA FileTruncated ==
    ASSUME NEW maps, TalkInv, FileInv(maps), NEW h \in Handlers, SaveTruncates(h)
    PROVE  FileInv(maps)'
<1> DEFINE l == [loc[h] EXCEPT !.at = "write"]
<1>1. loc' = [loc EXCEPT ![h] = l] /\ Talk(loc[h], conn[h])
  BY DEF SaveTruncates, Go, TalkInv
<1>2. l.at = "write" /\ l.existing = loc[h].existing
  BY <1>1, Moved DEF Talk
<1>3. loc'[h] = l /\ \A g \in Handlers : g # h => loc'[g] = loc[g]
  BY <1>1, OneMoved
<1>4. UNCHANGED <<bound, want, lost, raced>> /\ loc[h].at = "save" /\ text' = << >>
  BY DEF SaveTruncates, fileVars, AtPlace
<1> HIDE DEF l
<1>5. \A g \in Handlers : loc'[g].at \in {"save", "write"} =>
          loc[g].at \in {"save", "write"} /\ loc'[g].existing = loc[g].existing
  BY <1>2, <1>3, <1>4
<1> QED BY <1>2, <1>3, <1>4, <1>5 DEF FileInv

\* What is written into an empty file is all there is.
LEMMA OverNothing ==
    ASSUME NEW S, NEW new \in Seq(S)
    PROVE  Over(new, << >>) = new
<1>1. Len(new) \in Nat /\ << >> \in Seq(S)
  OBVIOUS
<1>2. SubSeq(<< >>, Len(new) + 1, 0) = << >>
  BY <1>1
<1>3. Over(new, << >>) = new \o << >>
  BY <1>2 DEF Over
<1> QED BY <1>3, ConcatEmptySeq

LEMMA FileWritten ==
    ASSUME NEW maps, Sound(maps), TalkInv, FileInv(maps), NEW h \in Handlers, SaveWrites(h)
    PROVE  FileInv(maps)'
<1>1. /\ loc[h].at = "write" /\ UNCHANGED <<bound, lost, raced>>
      /\ loc' = [g \in Handlers |->
                    IF g = h THEN [loc[g] EXCEPT !.at = "ask"]
                    ELSE IF loc[g].at \in Telling THEN Told(loc[g]) ELSE loc[g]]
      /\ text' = Over(Serialize(loc[h].changes, loc[h].existing), text)
      /\ want' = Edited(want, loc[h].changes)
  BY DEF SaveWrites, AtPlace, Told
<1>2. \A g \in Handlers : Shaped(loc[g])
  BY DEF TalkInv, Talk
<1>3. loc'[h].at = "ask"
  <2>1. loc'[h] = [loc[h] EXCEPT !.at = "ask"]
    BY <1>1
  <2> QED BY <1>2, <2>1, Moved
<1>4. ASSUME NEW g \in Handlers, loc'[g].at \in {"save", "write"}
      PROVE  g # h /\ loc'[g].at = loc[g].at
  <2>1. g # h
    BY <1>3, <1>4
  <2>2. loc'[g] = Told(loc[g]) \/ loc'[g] = loc[g]
    BY <1>1, <2>1
  <2> QED BY <1>2, <2>1, <2>2, ToldFacts
<1>5. ~raced' => \A g \in Handlers : loc'[g].at \notin {"save", "write"}
  BY <1>1, <1>4 DEF FileInv
<1>6. ASSUME ~raced', ~lost'
      PROVE  want' \in maps[bound'] /\ Load(text') = want'
  <2>1. want \in maps[bound] /\ loc[h].existing = want /\ text = << >>
    BY <1>1, <1>6 DEF FileInv
  <2>2. loc[h].changes \in bound.changes /\ bound \in Cases
    BY <1>1 DEF TalkInv, Talk
  <2>3. RoundTrip(bound, maps[bound])
    BY <2>2 DEF Sound
  <2> DEFINE new == Serialize(loc[h].changes, want)
  <2>4. /\ Edited(want, loc[h].changes) \in maps[bound]
        /\ new \in Seq(Chars \cup Keys)
        /\ Load(new) = Edited(want, loc[h].changes)
    BY <2>1, <2>2, <2>3 DEF RoundTrip
  <2> HIDE DEF new
  <2>5. Over(new, << >>) = new
    BY <2>4, OverNothing
  <2>6. text' = new
    BY <1>1, <2>1, <2>5 DEF new
  <2> QED BY <1>1, <2>4, <2>6
<1>7. Load(text)' = Load(text')
  BY DEF Load
<1> QED BY <1>5, <1>6, <1>7 DEF FileInv

-----------------------------------------------------------------------------
(* What a server was told *)

\* A handler has still to tell it the value of a key, or has told it and the
\* server has not taken it: there is no answer to the command under way.
Owes(l, c, k) ==
    \/ l.at \in {"ask", "dial", "auth"} /\ k \in DOMAIN l.changes
    \/ l.at = "exec" /\ \E i \in 1 .. Len(l.todo) : l.todo[i] = k
    \/ /\ l.at = "answer" /\ \E i \in 1 .. Len(l.todo) : l.todo[i] = k
       /\ \/ \E i \in 2 .. Len(l.todo) : l.todo[i] = k
          \/ \A i \in 1 .. Len(c.in) : ~(c.in[i].typ = "response" /\ c.in[i].id = c.seq)

\* Whoever tells and was not overtaken has the values that users want; and a
\* server has those, but for what somebody owes it.
HotInv ==
    /\ status = "idle" => server = "off"
    /\ live = [k \in ManagedKeys |-> live[k]]
    /\ \A h \in Handlers : loc[h].at \in Telling /\ ~loc[h].overtaken =>
           \A k \in DOMAIN loc[h].changes : Meant(want, k) = loc[h].changes[k]
    /\ ~raced /\ ~lost /\ ~missed /\ server # "off" =>
           \A k \in Hot : \/ live[k] = Meant(want, k)
                          \/ \E h \in Handlers : Owes(loc[h], conn[h], k)

\* A step of one handler that leaves it owing what it owed, or is noted.
LEMMA HotKept ==
    ASSUME TalkInv, HotInv, NEW h \in Handlers, NEW l, NEW c,
           loc' = [loc EXCEPT ![h] = l], conn' = [conn EXCEPT ![h] = c],
           UNCHANGED <<want, live, status, server>>,
           ~raced' => ~raced, ~lost' => ~lost, ~missed' => ~missed,
           l.at \in Telling => /\ loc[h].at \in Telling /\ l.changes = loc[h].changes
                               /\ ~l.overtaken => ~loc[h].overtaken,
           missed' \/ server = "off" \/ \A k \in Hot : Owes(loc[h], conn[h], k) => Owes(l, c, k)
    PROVE  HotInv'
<1>1. /\ loc'[h] = l /\ conn'[h] = c
      /\ \A g \in Handlers : g # h => loc'[g] = loc[g] /\ conn'[g] = conn[g]
  BY DEF TalkInv
<1>2. (status = "idle" => server = "off")' /\ (live = [k \in ManagedKeys |-> live[k]])'
  BY DEF HotInv
<1>3. ASSUME NEW g \in Handlers, loc'[g].at \in Telling, ~loc'[g].overtaken
      PROVE  \A k \in DOMAIN loc'[g].changes : Meant(want', k) = loc'[g].changes[k]
  <2>1. loc[g].at \in Telling /\ ~loc[g].overtaken /\ loc'[g].changes = loc[g].changes
    <3>1. CASE g = h
      BY <1>1, <1>3, <3>1, Zenon
    <3>2. CASE g # h
      BY <1>1, <1>3, <3>2, Zenon
    <3> QED BY <3>1, <3>2
  <2>2. \A k \in DOMAIN loc[g].changes : Meant(want, k) = loc[g].changes[k]
    BY <2>1, Zenon DEF HotInv
  <2>3. want' = want
    OBVIOUS
  <2> QED BY <2>1, <2>2, <2>3, Zenon
<1>4. ASSUME ~raced', ~lost', ~missed', server' # "off", NEW k \in Hot, live'[k] # Meant(want', k)
      PROVE  \E g \in Handlers : Owes(loc'[g], conn'[g], k)
  <2>1. PICK g \in Handlers : Owes(loc[g], conn[g], k)
    BY <1>4 DEF HotInv, Meant
  <2>2. CASE g = h
    BY <1>1, <1>4, <2>1, <2>2
  <2>3. CASE g # h
    BY <1>1, <2>1, <2>3
  <2> QED BY <2>2, <2>3
<1>5. \A k : Meant(want, k)' = Meant(want', k)
  BY DEF Meant
<1>6. \A g, k : Owes(loc[g], conn[g], k)' = Owes(loc'[g], conn'[g], k)
  BY DEF Owes
<1> QED BY <1>2, <1>3, <1>4, <1>5, <1>6 DEF HotInv, Meant, Owes

LEMMA DoneKeeps ==
    ASSUME NEW maps, TalkInv, FileInv(maps), HotInv, NEW h \in Handlers, Done(h),
           UNCHANGED <<bound, text, want, live, status, server, raced>>,
           ~lost' => ~lost, loc[h].at = "write" => lost', ~missed' => ~missed,
           missed' \/ server = "off" \/ loc[h].at \in {"save", "write"}
    PROVE  FileInv(maps)' /\ HotInv'
<1>1. /\ loc' = [loc EXCEPT ![h] = Resting] /\ conn' = [conn EXCEPT ![h] = NoConn]
      /\ Resting.at = "none"
  BY Rests DEF Done, Connect
<1>2. FileInv(maps)'
  BY <1>1, FileKept
<1>3. loc[h].at \in {"save", "write"} => \A k : ~Owes(loc[h], conn[h], k)
  BY DEF Owes
<1>4. HotInv'
  BY <1>1, <1>3, HotKept DEF Telling
<1> QED BY <1>2, <1>4

LEMMA SaveFailsKeeps ==
    ASSUME NEW maps, TalkInv, FileInv(maps), HotInv, NEW h \in Handlers, SaveFails(h)
    PROVE  FileInv(maps)' /\ HotInv'
<1>1. /\ Done(h) /\ UNCHANGED <<bound, text, want, live, status, server, raced, missed>>
      /\ loc[h].at \in {"save", "write"}
  BY DEF SaveFails, serverVars, AtPlace
<1>2. (~lost' => ~lost) /\ (loc[h].at = "write" => lost')
  BY Zenon DEF SaveFails, AtPlace
<1> QED BY <1>1, <1>2, DoneKeeps

LEMMA DialFailsKeeps ==
    ASSUME NEW maps, TalkInv, FileInv(maps), HotInv, NEW h \in Handlers, DialFails(h)
    PROVE  FileInv(maps)' /\ HotInv'
<1>1. /\ Done(h) /\ UNCHANGED <<bound, text, want, lost, live, status, server, raced>>
      /\ loc[h].at \in {"dial", "auth"} /\ missed'
  BY DEF DialFails, serverVars, fileVars, AtPlace
<1> QED BY <1>1, DoneKeeps

\* From one place of the telling to the next, with the connection it has or another.
LEMMA TellsKeeps ==
    ASSUME NEW maps, TalkInv, FileInv(maps), HotInv, NEW h \in Handlers, NEW l, NEW c,
           loc' = [loc EXCEPT ![h] = l], conn' = [conn EXCEPT ![h] = c],
           UNCHANGED <<bound, text, want, lost, live, status, server, raced>>,
           loc[h].at \in Telling, l.at \in Telling, l.changes = loc[h].changes,
           l.overtaken = loc[h].overtaken, ~missed' => ~missed,
           missed' \/ \A k \in DOMAIN l.changes : Owes(loc[h], conn[h], k) => Owes(l, c, k)
    PROVE  FileInv(maps)' /\ HotInv'
<1>1. Talk(loc[h], conn[h])
  BY DEF TalkInv
<1>2. ASSUME NEW k, Owes(loc[h], conn[h], k)
      PROVE  k \in DOMAIN l.changes
  <2>1. CASE loc[h].at \in {"ask", "dial", "auth"}
    BY <1>2, <2>1 DEF Owes
  <2>2. CASE loc[h].at \in {"exec", "answer"}
    <3>1. loc[h].todo \in Seq(DOMAIN loc[h].changes)
      BY <1>1, <2>2 DEF Talk
    <3>2. \E i \in 1 .. Len(loc[h].todo) : loc[h].todo[i] = k
      BY <1>2, <2>2 DEF Owes
    <3> QED BY <3>1, <3>2
  <2> QED BY <2>1, <2>2 DEF Telling
<1>3. missed' \/ \A k \in Hot : Owes(loc[h], conn[h], k) => Owes(l, c, k)
  BY <1>2
<1>4. l.at \notin {"save", "write"} /\ loc[h].at # "write"
  BY DEF Telling
<1>5. FileInv(maps)'
  BY <1>4, FileKept
<1>6. HotInv'
  <2>1. ~l.overtaken => ~loc[h].overtaken
    BY Zenon
  <2> QED BY <1>3, <2>1, HotKept
<1> QED BY <1>5, <1>6

LEMMA AsksKeeps ==
    ASSUME NEW maps, TalkInv, FileInv(maps), HotInv, NEW h \in Handlers, Asks(h)
    PROVE  FileInv(maps)' /\ HotInv'
<1>1. /\ UNCHANGED <<bound, text, want, lost, live, status, server, raced, missed>>
      /\ loc[h].at = "ask" /\ Talk(loc[h], conn[h])
  BY DEF Asks, serverVars, fileVars, AtPlace, TalkInv
<1>2. CASE status = "idle"
  <2>1. Done(h) /\ server = "off"
    BY <1>2 DEF Asks, HotInv
  <2> QED BY <1>1, <2>1, DoneKeeps
<1>3. CASE status # "idle"
  <2> DEFINE l == [loc[h] EXCEPT !.at = "dial"]
  <2>1. loc' = [loc EXCEPT ![h] = l] /\ conn' = [conn EXCEPT ![h] = conn[h]]
    BY <1>3 DEF Asks, Go, TalkInv
  <2>2. l.at = "dial" /\ l.changes = loc[h].changes /\ l.overtaken = loc[h].overtaken
    BY <1>1, Moved DEF Talk
  <2> HIDE DEF l
  <2>3. \A k \in DOMAIN l.changes : Owes(l, conn[h], k)
    BY <2>2 DEF Owes
  <2>4. loc[h].at \in Telling /\ l.at \in Telling
    BY <1>1, <2>2 DEF Telling
  <2> QED BY <1>1, <2>1, <2>2, <2>3, <2>4, TellsKeeps
<1> QED BY <1>2, <1>3

LEMMA DialsKeeps ==
    ASSUME NEW maps, TalkInv, FileInv(maps), HotInv, NEW h \in Handlers, Dials(h)
    PROVE  FileInv(maps)' /\ HotInv'
<1>1. /\ UNCHANGED <<bound, text, want, lost, live, status, server, raced, missed>>
      /\ loc[h].at = "dial" /\ Talk(loc[h], conn[h])
  BY DEF Dials, serverVars, fileVars, AtPlace, TalkInv
<1> DEFINE l == [loc[h] EXCEPT !.at = "auth"]
<1>2. PICK c : loc' = [loc EXCEPT ![h] = l] /\ conn' = [conn EXCEPT ![h] = c]
  BY DEF Dials, Go, Connect
<1>3. l.at = "auth" /\ l.changes = loc[h].changes /\ l.overtaken = loc[h].overtaken
  BY <1>1, Moved DEF Talk
<1> HIDE DEF l
<1>4. \A k \in DOMAIN l.changes : Owes(l, c, k)
  BY <1>3 DEF Owes
<1>5. loc[h].at \in Telling /\ l.at \in Telling
  BY <1>1, <1>3 DEF Telling
<1> QED BY <1>1, <1>2, <1>3, <1>4, <1>5, TellsKeeps

LEMMA ReadsKeeps ==
    ASSUME NEW maps, TalkInv, FileInv(maps), HotInv, NEW h \in Handlers, DialReads(h)
    PROVE  FileInv(maps)' /\ HotInv'
<1> DEFINE l == Listed(loc[h], SetToSeq(DOMAIN loc[h].changes))
           c == [conn[h] EXCEPT !.in = Tail(conn[h].in)]
<1>1. /\ UNCHANGED <<bound, text, want, lost, live, status, server, raced>>
      /\ loc[h].at = "auth" /\ Talk(loc[h], conn[h])
  BY DEF DialReads, serverVars, fileVars, AtPlace, TalkInv
<1>2. CASE Done(h) /\ missed'
  BY <1>1, <1>2, DoneKeeps
<1>3. CASE loc' = [loc EXCEPT ![h] = l] /\ conn' = [conn EXCEPT ![h] = c] /\ missed' = missed
  <2>1. /\ l.at = "exec" /\ l.changes = loc[h].changes /\ l.overtaken = loc[h].overtaken
        /\ l.todo = SetToSeq(DOMAIN l.changes)
    BY <1>1, ListedFacts DEF Talk
  <2>2. loc[h].changes \in bound.changes
    BY <1>1 DEF Talk
  <2> HIDE DEF l, c
  <2>3. \A k \in DOMAIN l.changes : \E i \in 1 .. Len(l.todo) : l.todo[i] = k
    <3> DEFINE S == DOMAIN l.changes
    <3>1. IsFiniteSet(S) /\ S # {} /\ l.todo = SetToSeq(S)
      BY <2>1, <2>2, Changes
    <3> HIDE DEF S
    <3>2. \A k \in S : \E i \in 1 .. Len(l.todo) : l.todo[i] = k
      BY <3>1, KeysInOrder
    <3> QED BY <3>2 DEF S
  <2>4. \A k \in DOMAIN l.changes : Owes(l, c, k)
    BY <2>1, <2>3 DEF Owes
  <2>5. loc[h].at \in Telling /\ l.at \in Telling
    BY <1>1, <2>1 DEF Telling
  <2>6. ~missed' => ~missed
    BY <1>3
  <2> QED BY <1>1, <1>3, <2>1, <2>4, <2>5, <2>6, TellsKeeps
<1>4. \/ Done(h) /\ missed'
      \/ loc' = [loc EXCEPT ![h] = l] /\ conn' = [conn EXCEPT ![h] = c] /\ missed' = missed
  BY Zenon DEF DialReads, Connect, Listed
<1> QED BY <1>2, <1>3, <1>4

LEMMA SendsKeeps ==
    ASSUME NEW maps, TalkInv, FileInv(maps), HotInv, NEW h \in Handlers, ExecSends(h)
    PROVE  FileInv(maps)' /\ HotInv'
<1> DEFINE key == Head(loc[h].todo)
           command == [id |-> conn[h].seq + 1, key |-> key, value |-> loc[h].changes[key]]
           c == Sent(conn[h], command)
           l == [loc[h] EXCEPT !.at = "answer"]
<1>1. /\ Talk(loc[h], conn[h]) /\ loc[h].at = "exec"
      /\ UNCHANGED <<bound, text, want, lost, live, status, server, raced, missed>>
      /\ loc' = [loc EXCEPT ![h] = l] /\ conn' = [conn EXCEPT ![h] = c]
  BY DEF TalkInv, ExecSends, AtPlace, Go, Connect, Sent, fileVars, serverVars
<1>2. /\ loc[h].todo \in Seq(DOMAIN loc[h].changes) \ {<< >>} /\ loc[h].changes \in bound.changes
      /\ Numbered(loc[h], conn[h]) /\ conn[h] \in ConnType
      /\ conn[h].seq \in Nat /\ conn[h].in \in Seq(Frames)
  BY <1>1 DEF Talk, ConnType
<1>3. key \in DOMAIN loc[h].changes
  BY <1>2, FirstOf
<1>4. command \in Commands
  BY <1>2, <1>3, Changes DEF Commands
<1>5. /\ l.at = "answer" /\ l.changes = loc[h].changes /\ l.todo = loc[h].todo
      /\ l.overtaken = loc[h].overtaken
  BY <1>1, Moved DEF Talk
<1> HIDE DEF l, command
<1>6. c.seq = conn[h].seq + 1 /\ c.in = conn[h].in
  BY <1>2, <1>4, SentFacts
<1> HIDE DEF c
<1>7. ASSUME NEW i \in 1 .. Len(c.in), c.in[i].typ = "response"
      PROVE  c.in[i].id # c.seq
  <2>1. c.in[i].id <= conn[h].seq
    BY <1>2, <1>6, <1>7 DEF Numbered
  <2>2. c.in[i] \in Frames
    BY <1>2, <1>6
  <2> QED BY <1>2, <1>6, <2>1, <2>2 DEF Frames
<1>8. \A k : Owes(loc[h], conn[h], k) => Owes(l, c, k)
  BY <1>1, <1>5, <1>7 DEF Owes
<1>9. loc[h].at \in Telling /\ l.at \in Telling
  BY <1>1, <1>5 DEF Telling
<1>10. ~missed' => ~missed
  BY <1>1
<1> QED BY <1>1, <1>5, <1>8, <1>9, <1>10, TellsKeeps

LEMMA SkipsKeeps ==
    ASSUME NEW maps, TalkInv, FileInv(maps), HotInv, NEW h \in Handlers, ExecSkips(h)
    PROVE  FileInv(maps)' /\ HotInv'
<1> DEFINE c == [conn[h] EXCEPT !.in = Tail(conn[h].in)]
<1>1. /\ Talk(loc[h], conn[h]) /\ loc[h].at = "answer" /\ conn[h].in # << >>
      /\ UNCHANGED <<bound, text, want, lost, loc, live, status, server, raced, missed>>
      /\ conn' = [conn EXCEPT ![h] = c]
  BY DEF TalkInv, ExecSkips, AtPlace, Connect, fileVars, serverVars
<1>2. conn[h] \in ConnType /\ conn[h].in \in Seq(Frames)
  BY <1>1 DEF Talk, ConnType
<1>3. c.in = Tail(conn[h].in) /\ c.seq = conn[h].seq
  BY <1>2 DEF ConnType
<1> HIDE DEF c
<1>4. \A i \in 1 .. Len(c.in) : i + 1 \in 1 .. Len(conn[h].in) /\ c.in[i] = conn[h].in[i + 1]
  BY <1>1, <1>2, <1>3, FirstOf
<1>5. \A k : Owes(loc[h], conn[h], k) => Owes(loc[h], c, k)
  BY <1>1, <1>3, <1>4 DEF Owes
<1>6. loc[h].at \in Telling
  BY <1>1 DEF Telling
<1>7. loc' = [loc EXCEPT ![h] = loc[h]]
  BY <1>1 DEF TalkInv
<1>8. ~missed' => ~missed
  BY <1>1
<1> QED BY <1>1, <1>5, <1>6, <1>7, <1>8, TellsKeeps

\* To the next key, when the answer to the first one came or it is noted.
LEMMA NextKeeps ==
    ASSUME NEW maps, TalkInv, FileInv(maps), HotInv, NEW h \in Handlers, NEW c,
           loc[h].at = "answer", NextKey(h, c),
           UNCHANGED <<bound, text, want, lost, live, status, server, raced>>,
           ~missed' => ~missed,
           missed' \/ \E i \in 1 .. Len(conn[h].in) :
                          conn[h].in[i].typ = "response" /\ conn[h].in[i].id = conn[h].seq
    PROVE  FileInv(maps)' /\ HotInv'
<1> DEFINE l == Listed(loc[h], Tail(loc[h].todo))
<1>1. /\ Talk(loc[h], conn[h]) /\ loc[h].todo \in Seq(DOMAIN loc[h].changes) \ {<< >>}
      /\ Shaped(loc[h])
  BY DEF TalkInv, Talk
<1>2. ASSUME ~missed', NEW k, Owes(loc[h], conn[h], k)
      PROVE  \E i \in 2 .. Len(loc[h].todo) : loc[h].todo[i] = k
  BY <1>2 DEF Owes
<1>3. CASE Done(h) /\ Len(loc[h].todo) = 1
  <2>1. missed' \/ \A k \in Hot : ~Owes(loc[h], conn[h], k)
    BY <1>2, <1>3
  <2>2. /\ loc' = [loc EXCEPT ![h] = Resting] /\ conn' = [conn EXCEPT ![h] = NoConn]
        /\ Resting.at = "none"
    BY <1>3, Rests DEF Done, Connect
  <2>3. FileInv(maps)'
    BY <2>2, FileKept
  <2>4. HotInv'
    BY <2>1, <2>2, HotKept DEF Telling
  <2> QED BY <2>3, <2>4
<1>4. CASE loc' = [loc EXCEPT ![h] = l] /\ conn' = [conn EXCEPT ![h] = c]
  <2>1. /\ l.at = "exec" /\ l.changes = loc[h].changes /\ l.todo = Tail(loc[h].todo)
        /\ l.overtaken = loc[h].overtaken
    BY <1>1, ListedFacts
  <2> HIDE DEF l
  <2>2. \A i \in 2 .. Len(loc[h].todo) : i - 1 \in 1 .. Len(l.todo) /\ l.todo[i - 1] = loc[h].todo[i]
    BY <1>1, <2>1, FirstOf
  <2>3. ASSUME ~missed', NEW k, Owes(loc[h], conn[h], k) PROVE Owes(l, c, k)
    BY <1>2, <2>1, <2>2, <2>3 DEF Owes
  <2>4. loc[h].at \in Telling /\ l.at \in Telling
    BY <2>1 DEF Telling
  <2> QED BY <1>4, <2>1, <2>3, <2>4, TellsKeeps
<1>5. \/ Done(h) /\ Len(loc[h].todo) = 1
      \/ loc' = [loc EXCEPT ![h] = l] /\ conn' = [conn EXCEPT ![h] = c]
  BY Zenon DEF NextKey, Connect, Listed
<1> QED BY <1>3, <1>4, <1>5

LEMMA ReturnsKeeps ==
    ASSUME NEW maps, TalkInv, FileInv(maps), HotInv, NEW h \in Handlers, ExecReturns(h)
    PROVE  FileInv(maps)' /\ HotInv'
<1>1. /\ loc[h].at = "answer" /\ conn[h].in # << >>
      /\ Head(conn[h].in).typ = "response" /\ Head(conn[h].in).id = conn[h].seq
      /\ UNCHANGED <<bound, text, want, lost, live, status, server, raced, missed>>
  BY DEF ExecReturns, AtPlace, Takes, fileVars, serverVars
<1>2. \E c : NextKey(h, c)
  BY Zenon DEF ExecReturns
<1>3. conn[h].in \in Seq(Frames)
  BY DEF TalkInv, Talk, ConnType
<1>4. Head(conn[h].in) = conn[h].in[1] /\ 1 \in 1 .. Len(conn[h].in)
  BY <1>1, <1>3, FirstOf
<1>5. ~missed' => ~missed
  BY <1>1
<1> QED BY <1>1, <1>2, <1>4, <1>5, NextKeeps

LEMMA FailsKeeps ==
    ASSUME NEW maps, TalkInv, FileInv(maps), HotInv, NEW h \in Handlers, ExecFails(h)
    PROVE  FileInv(maps)' /\ HotInv'
<1>1. /\ loc[h].at = "answer" /\ missed'
      /\ UNCHANGED <<bound, text, want, lost, live, status, server, raced>>
  BY DEF ExecFails, AtPlace, fileVars, serverVars
<1>2. \E c : NextKey(h, c)
  BY Zenon DEF ExecFails
<1> QED BY <1>1, <1>2, NextKeeps

LEMMA LoadsKeeps ==
    ASSUME NEW maps, TalkInv, FileInv(maps), HotInv, NEW h \in Handlers, PutLoads(h)
    PROVE  FileInv(maps)' /\ HotInv'
<1>1. PICK ch \in bound.changes :
          loc' = [loc EXCEPT ![h] = [Resting EXCEPT !.at = "save", !.changes = ch,
                                                    !.existing = Load(text)]]
  BY DEF PutLoads
<1> DEFINE l == Loaded(ch, Load(text))
<1>2. l.at = "save"
  BY LoadedFacts
<1>3. loc' = [loc EXCEPT ![h] = l]
  BY <1>1, Zenon DEF Loaded
<1>4. /\ UNCHANGED <<bound, text, want, lost, live, status, server, missed>>
      /\ loc[h].at = "none" /\ ~raced /\ conn' = [conn EXCEPT ![h] = conn[h]]
  BY DEF PutLoads, fileVars, serverVars, AtPlace, TalkInv
<1> HIDE DEF l
<1>5. \A k : ~Owes(loc[h], conn[h], k)
  BY <1>4 DEF Owes
<1>6. HotInv'
  BY <1>2, <1>3, <1>4, <1>5, HotKept DEF Telling
<1> QED BY <1>6, FileLoads

LEMMA TruncatesKeeps ==
    ASSUME NEW maps, TalkInv, FileInv(maps), HotInv, NEW h \in Handlers, SaveTruncates(h)
    PROVE  FileInv(maps)' /\ HotInv'
<1> DEFINE l == [loc[h] EXCEPT !.at = "write"]
<1>1. loc' = [loc EXCEPT ![h] = l] /\ Talk(loc[h], conn[h])
  BY DEF SaveTruncates, Go, TalkInv
<1>2. l.at = "write"
  BY <1>1, Moved DEF Talk
<1>3. /\ UNCHANGED <<bound, want, lost, raced, live, status, server, missed>>
      /\ loc[h].at = "save" /\ conn' = [conn EXCEPT ![h] = conn[h]]
  BY DEF SaveTruncates, serverVars, AtPlace, TalkInv
<1> HIDE DEF l
<1>4. \A k : ~Owes(loc[h], conn[h], k)
  BY <1>3 DEF Owes
<1>5. HotInv'
  BY <1>1, <1>2, <1>3, <1>4, HotKept DEF Telling
<1> QED BY <1>5, FileTruncated

\* What the file means for a key after an edit.
LEMMA EditedMeans ==
    ASSUME NEW map, NEW changes, NEW k \in ManagedKeys,
           \A x \in DOMAIN changes : changes[x] # << >>
    PROVE  Meant(Edited(map, changes), k) =
               IF k \in DOMAIN changes THEN changes[k] ELSE Meant(map, k)
<1>1. k \in DOMAIN Edited(map, changes)
      /\ Edited(map, changes)[k] = IF k \in DOMAIN changes THEN changes[k] ELSE Meant(map, k)
  BY DEF Edited
<1>2. Meant(map, k) = << >> => Default[k] = << >>
  BY DEF Meant, Given
<1> QED BY <1>1, <1>2 DEF Meant, Given

LEMMA WritesKeeps ==
    ASSUME NEW maps, Sound(maps), TalkInv, FileInv(maps), HotInv,
           NEW h \in Handlers, SaveWrites(h)
    PROVE  FileInv(maps)' /\ HotInv'
<1>1. /\ loc[h].at = "write"
      /\ UNCHANGED <<bound, lost, raced, live, status, server, missed, conn>>
      /\ loc' = [g \in Handlers |->
                    IF g = h THEN [loc[g] EXCEPT !.at = "ask"]
                    ELSE IF loc[g].at \in Telling THEN Told(loc[g]) ELSE loc[g]]
      /\ want' = Edited(want, loc[h].changes)
  BY DEF SaveWrites, AtPlace, Told, serverVars
<1>2. /\ \A g \in Handlers : Shaped(loc[g])
      /\ loc[h].changes \in bound.changes
  BY <1>1 DEF TalkInv, Talk
<1>3. loc'[h].at = "ask" /\ loc'[h].changes = loc[h].changes
  <2>1. loc'[h] = [loc[h] EXCEPT !.at = "ask"]
    BY <1>1
  <2> QED BY <1>2, <2>1, Moved
<1>4. ASSUME NEW g \in Handlers, g # h
      PROVE  /\ loc'[g].at = loc[g].at /\ loc'[g].changes = loc[g].changes /\ loc'[g].todo = loc[g].todo
             /\ loc[g].at \in Telling => loc'[g].overtaken
  <2>1. CASE loc[g].at \in Telling
    <3>1. loc'[g] = Told(loc[g])
      BY <1>1, <1>4, <2>1
    <3>2. Told(loc[g]).overtaken
      BY <1>2, ToldFacts
    <3>3. loc'[g].overtaken
      BY <3>1, <3>2, Zenon
    <3>4. loc'[g].at = loc[g].at /\ loc'[g].changes = loc[g].changes /\ loc'[g].todo = loc[g].todo
      BY <1>2, <3>1, ToldFacts
    <3> QED BY <3>3, <3>4, Zenon
  <2>2. CASE loc[g].at \notin Telling
    <3>1. loc'[g] = loc[g]
      BY <1>1, <1>4, <2>2
    <3> QED BY <2>2, <3>1, Zenon
  <2> QED BY <2>1, <2>2, Zenon
<1>5. \A k \in ManagedKeys :
          Meant(want', k) = IF k \in DOMAIN loc[h].changes THEN loc[h].changes[k] ELSE Meant(want, k)
  BY <1>1, <1>2, Changes, EditedMeans
<1>6. DOMAIN loc[h].changes \subseteq ManagedKeys
  BY <1>2, Changes
<1>7. ASSUME NEW g \in Handlers, loc'[g].at \in Telling, ~loc'[g].overtaken
      PROVE  \A k \in DOMAIN loc'[g].changes : Meant(want', k) = loc'[g].changes[k]
  <2>1. g = h
    BY <1>4, <1>7, Zenon
  <2> QED BY <1>3, <1>5, <1>6, <2>1
<1>8. ASSUME ~raced', ~lost', ~missed', server' # "off", NEW k \in Hot
      PROVE  live'[k] = Meant(want', k) \/ \E g \in Handlers : Owes(loc'[g], conn'[g], k)
  <2>1. k \in ManagedKeys
    BY SettingsAssumption
  <2>2. CASE k \in DOMAIN loc[h].changes
    BY <1>3, <2>2 DEF Owes
  <2>3. CASE k \notin DOMAIN loc[h].changes
    <3>1. live[k] = Meant(want, k) \/ \E g \in Handlers : Owes(loc[g], conn[g], k)
      BY <1>1, <1>8 DEF HotInv
    <3>2. ASSUME NEW g \in Handlers, Owes(loc[g], conn[g], k) PROVE Owes(loc'[g], conn'[g], k)
      <4>1. g # h
        BY <1>1, <3>2 DEF Owes
      <4>2. /\ loc'[g].at = loc[g].at /\ loc'[g].changes = loc[g].changes
            /\ loc'[g].todo = loc[g].todo
        BY <1>4, <4>1, Zenon
      <4> QED BY <1>1, <3>2, <4>2 DEF Owes
    <3> QED BY <1>1, <1>5, <2>1, <2>3, <3>1, <3>2
  <2> QED BY <2>2, <2>3
<1>9. (status = "idle" => server = "off")' /\ (live = [k \in ManagedKeys |-> live[k]])'
  BY <1>1 DEF HotInv
<1>10. HotInv'
  BY <1>7, <1>8, <1>9 DEF HotInv, Meant, Owes
<1> QED BY <1>10, FileWritten

LEMMA AuthsKeeps ==
    ASSUME NEW maps, TalkInv, FileInv(maps), HotInv, NEW h \in Handlers, ServerAuths(h)
    PROVE  FileInv(maps)' /\ HotInv'
<1>1. /\ loc[h].at = "auth" /\ Talk(loc[h], conn[h])
      /\ UNCHANGED <<bound, text, want, lost, loc, live, status, server, raced, missed>>
  BY DEF ServerAuths, TalkInv, Talk, fileVars, serverVars
<1>2. PICK c : conn' = [conn EXCEPT ![h] = c]
  BY Zenon DEF ServerAuths, Connect
<1>3. loc' = [loc EXCEPT ![h] = loc[h]] /\ loc[h].at \in Telling /\ (~missed' => ~missed)
  BY <1>1 DEF TalkInv, Telling
<1>4. \A k : Owes(loc[h], conn[h], k) => Owes(loc[h], c, k)
  BY <1>1 DEF Owes
<1> QED BY <1>1, <1>2, <1>3, <1>4, TellsKeeps

\* A command that is taken gives the server the value that is wanted, and what
\* the handler owes besides it owes still.
LEMMA ExecsKeeps ==
    ASSUME NEW maps, TalkInv, FileInv(maps), HotInv, NEW h \in Handlers, ServerExecs(h)
    PROVE  FileInv(maps)' /\ HotInv'
<1> DEFINE command == Head(conn[h].out)
<1>1. /\ Talk(loc[h], conn[h]) /\ conn[h].stage = "open" /\ conn[h].out # << >>
      /\ UNCHANGED <<bound, text, want, lost, loc, status, server, raced>>
      /\ live' = IF command.key \in Hot THEN [live EXCEPT ![command.key] = command.value] ELSE live
  BY DEF TalkInv, ServerExecs, fileVars
<1>2. PICK more \in Seq(Frames) :
          /\ conn' = [conn EXCEPT ![h] = Answered(conn[h], more)]
          /\ \A i \in 1 .. Len(more) :
                \/ more[i].id = 0
                \/ more[i].id = command.id /\ more[i].of = command.key
  BY ServerAnswers
<1> DEFINE c == Answered(conn[h], more)
<1>3. /\ conn[h] \in ConnType /\ loc[h].at \in {"exec", "answer"} /\ Numbered(loc[h], conn[h])
      /\ conn[h].in \in Seq(Frames) /\ conn[h].out \in Seq(Commands) /\ conn[h].seq \in Nat
  BY <1>1 DEF Talk, ConnType
<1>4. c.in = conn[h].in \o more /\ c.seq = conn[h].seq
  BY <1>1, <1>3, AnsweredFacts
<1>5. /\ conn'[h] = c /\ \A g \in Handlers : g # h => conn'[g] = conn[g]
      /\ loc' = loc
  BY <1>1, <1>2 DEF TalkInv
<1> HIDE DEF c
<1>6. command = conn[h].out[1] /\ 1 \in 1 .. Len(conn[h].out)
  BY <1>1, <1>3, FirstOf
<1> HIDE DEF command
<1>7. /\ command.key \in DOMAIN loc[h].changes /\ command.value = loc[h].changes[command.key]
      /\ loc[h].at = "answer" => /\ conn[h].seq > 0
                                 /\ command.id = conn[h].seq => command.key = Head(loc[h].todo)
  BY <1>3, <1>6 DEF Numbered
<1>8. FileInv(maps)'
  BY <1>1 DEF FileInv, Load
<1>9. (~missed' => ~missed) /\ (~missed' => ~loc[h].overtaken)
  BY Zenon DEF ServerExecs
<1>10. ASSUME NEW k, k # command.key, Owes(loc[h], conn[h], k)
       PROVE  Owes(loc[h], c, k)
  <2>1. CASE loc[h].at = "exec"
    BY <1>10, <2>1 DEF Owes
  <2>2. CASE loc[h].at = "answer"
    <3>1. PICK i \in 1 .. Len(loc[h].todo) : loc[h].todo[i] = k
      BY <1>10, <2>2 DEF Owes
    <3>2. CASE \E j \in 2 .. Len(loc[h].todo) : loc[h].todo[j] = k
      BY <2>2, <3>1, <3>2 DEF Owes
    <3>3. CASE ~\E j \in 2 .. Len(loc[h].todo) : loc[h].todo[j] = k
      <4>1. loc[h].todo \in Seq(DOMAIN loc[h].changes) /\ loc[h].todo # << >>
        BY <1>1, <2>2 DEF Talk
      <4>2. Head(loc[h].todo) = k
        <5>1. Head(loc[h].todo) = loc[h].todo[1] /\ Len(loc[h].todo) \in Nat
          BY <4>1, FirstOf
        <5>2. i = 1 \/ i \in 2 .. Len(loc[h].todo)
          BY <5>1
        <5> QED BY <3>1, <3>3, <5>1, <5>2
      <4>3. \A j \in 1 .. Len(conn[h].in) :
                ~(conn[h].in[j].typ = "response" /\ conn[h].in[j].id = conn[h].seq)
        BY <1>10, <2>2, <3>3 DEF Owes
      <4>4. command.id # conn[h].seq
        BY <1>7, <1>10, <2>2, <4>2
      <4>5. \A j \in 1 .. Len(more) : more[j].id # conn[h].seq
        BY <1>2, <1>3, <1>7, <2>2, <4>4
      <4>6. \A j \in 1 .. Len(c.in) : \/ j \in 1 .. Len(conn[h].in) /\ c.in[j] = conn[h].in[j]
                                      \/ \E m \in 1 .. Len(more) : c.in[j] = more[m]
        <5> DEFINE s == conn[h].in
        <5>1. s \in Seq(Frames) /\ c.in = s \o more /\ more \in Seq(Frames)
          BY <1>2, <1>3, <1>4
        <5> HIDE DEF s
        <5>2. \A j \in 1 .. Len(s \o more) : \/ j \in 1 .. Len(s) /\ (s \o more)[j] = s[j]
                                             \/ \E m \in 1 .. Len(more) : (s \o more)[j] = more[m]
          <6>1. s \in Seq(Frames) /\ more \in Seq(Frames)
            BY <5>1
          <6>2. Len(s \o more) = Len(s) + Len(more) /\ Len(s) \in Nat /\ Len(more) \in Nat
            BY <6>1
          <6>3. \A j \in 1 .. Len(s) + Len(more) :
                    (s \o more)[j] = IF j <= Len(s) THEN s[j] ELSE more[j - Len(s)]
            BY <6>1
          <6>4. \A j \in 1 .. Len(s) + Len(more) : j <= Len(s) \/ j - Len(s) \in 1 .. Len(more)
            BY <6>2
          <6>5. ASSUME NEW j \in 1 .. Len(s) + Len(more)
                PROVE  \/ j \in 1 .. Len(s) /\ (s \o more)[j] = s[j]
                       \/ \E m \in 1 .. Len(more) : (s \o more)[j] = more[m]
            BY <6>2, <6>3, <6>4
          <6> QED BY <6>2, <6>5
        <5> QED BY <5>1, <5>2 DEF s
      <4>7. \A j \in 1 .. Len(c.in) : ~(c.in[j].typ = "response" /\ c.in[j].id = c.seq)
        BY <1>4, <4>3, <4>5, <4>6
      <4> QED BY <2>2, <3>1, <4>7 DEF Owes
    <3> QED BY <3>2, <3>3
  <2> QED BY <1>3, <2>1, <2>2
<1>11. ASSUME ~raced', ~lost', ~missed', server' # "off", NEW k \in Hot
       PROVE  live'[k] = Meant(want', k) \/ \E g \in Handlers : Owes(loc'[g], conn'[g], k)
  <2>1. k \in ManagedKeys
    BY SettingsAssumption
  <2>2. live = [x \in ManagedKeys |-> live[x]]
    BY DEF HotInv
  <2>3. CASE k = command.key
    <3>1. live'[k] = command.value
      BY <1>1, <2>1, <2>2, <2>3
    <3>2. loc[h].at \in Telling /\ ~loc[h].overtaken
      <4>1. loc[h].at \in Telling
        BY <1>3 DEF Telling
      <4> QED BY <1>9, <1>11, <4>1, Zenon
    <3>3. Meant(want, k) = command.value
      <4>1. \A x \in DOMAIN loc[h].changes : Meant(want, x) = loc[h].changes[x]
        BY <3>2, Zenon DEF HotInv
      <4> QED BY <1>7, <2>3, <4>1
    <3> QED BY <1>1, <3>1, <3>3
  <2>4. CASE k # command.key
    <3>1. live'[k] = live[k]
      BY <1>1, <2>1, <2>2, <2>4
    <3>2. live[k] = Meant(want, k) \/ \E g \in Handlers : Owes(loc[g], conn[g], k)
      BY <1>1, <1>9, <1>11 DEF HotInv
    <3>3. ASSUME NEW g \in Handlers, Owes(loc[g], conn[g], k) PROVE Owes(loc'[g], conn'[g], k)
      BY <1>5, <1>10, <2>4, <3>3
    <3> QED BY <1>1, <3>1, <3>2, <3>3
  <2> QED BY <2>3, <2>4
<1>12. (status = "idle" => server = "off")' /\ (live = [k \in ManagedKeys |-> live[k]])'
  BY <1>1 DEF HotInv
<1>13. ASSUME NEW g \in Handlers, loc'[g].at \in Telling, ~loc'[g].overtaken
       PROVE  \A k \in DOMAIN loc'[g].changes : Meant(want', k) = loc'[g].changes[k]
  <2>1. loc[g].at \in Telling /\ ~loc[g].overtaken
    BY <1>5, <1>13, Zenon
  <2>2. \A k \in DOMAIN loc[g].changes : Meant(want, k) = loc[g].changes[k]
    BY <2>1, Zenon DEF HotInv
  <2> QED BY <1>1, <2>2
<1>14. HotInv'
  BY <1>11, <1>12, <1>13 DEF HotInv, Meant, Owes
<1> QED BY <1>8, <1>14

-----------------------------------------------------------------------------
(* Steps of the server that are no packets, and all steps *)

LEMMA HotSame ==
    ASSUME HotInv, UNCHANGED <<loc, want>>, status' = "idle" => server' = "off",
           live' = [k \in ManagedKeys |-> live'[k]],
           ~raced' /\ ~lost' /\ ~missed' /\ server' # "off" =>
               \A k \in Hot : \/ live'[k] = Meant(want, k)
                              \/ \E h \in Handlers : Owes(loc[h], conn'[h], k)
    PROVE  HotInv'
<1>1. /\ \A k : Meant(want, k)' = Meant(want, k)
      /\ \A h \in Handlers : loc'[h] = loc[h]
      /\ \A h \in Handlers, k \in Hot : Owes(loc[h], conn[h], k)' = Owes(loc[h], conn'[h], k)
  BY DEF Meant, Owes
<1>2. ASSUME NEW h \in Handlers, loc'[h].at \in Telling, ~loc'[h].overtaken
      PROVE  \A k \in DOMAIN loc'[h].changes : Meant(want, k)' = loc'[h].changes[k]
  <2>1. loc[h].at \in Telling /\ ~loc[h].overtaken
    BY <1>1, <1>2, Zenon
  <2>2. \A k \in DOMAIN loc[h].changes : Meant(want, k) = loc[h].changes[k]
    BY <2>1, Zenon DEF HotInv
  <2> QED BY <1>1, <2>2, Zenon
<1>3. (\A h \in Handlers : loc[h].at \in Telling /\ ~loc[h].overtaken =>
           \A k \in DOMAIN loc[h].changes : Meant(want, k) = loc[h].changes[k])'
  BY <1>2, Zenon
<1>4. (~raced /\ ~lost /\ ~missed /\ server # "off" =>
           \A k \in Hot : \/ live[k] = Meant(want, k)
                          \/ \E h \in Handlers : Owes(loc[h], conn[h], k))'
  BY <1>1, Zenon
<1>5. (status = "idle" => server = "off")' /\ (live = [k \in ManagedKeys |-> live[k]])'
  OBVIOUS
<1> QED BY <1>3, <1>4, <1>5, Zenon DEF HotInv

LEMMA ServerKeeps ==
    ASSUME NEW maps, TalkInv, FileInv(maps), HotInv,
           Starts \/ Launches \/ Listens \/ Announces \/ Exits \/ Settles
    PROVE  FileInv(maps)' /\ HotInv'
<1>1. UNCHANGED <<bound, text, want, lost, loc, raced>>
  BY DEF Starts, Launches, Listens, Announces, Exits, Settles, fileVars
<1>2. FileInv(maps)'
  BY <1>1 DEF FileInv, Load
<1>3. CASE Launches
  <2>1. /\ live' = [k \in ManagedKeys |-> Says(text, k)]
        /\ status' = "starting" /\ server' = "launched" /\ UNCHANGED conn
    BY <1>3 DEF Launches
  <2>2. ~missed' => \A h \in Handlers : loc[h].at # "write"
    BY <1>3, Zenon DEF Launches, Writing, AtPlace
  <2>3. ASSUME ~raced', ~lost', ~missed', NEW k \in Hot
        PROVE  live'[k] = Meant(want, k)
    <3>1. Load(text) = want
      BY <1>1, <2>2, <2>3 DEF FileInv
    <3>2. k \in ManagedKeys
      BY SettingsAssumption
    <3> QED BY <1>1, <2>1, <3>1, <3>2 DEF Says
  <2>4. live' = [k \in ManagedKeys |-> live'[k]]
    BY <2>1
  <2> QED BY <1>1, <1>2, <2>1, <2>3, <2>4, HotSame
<1>4. CASE Exits
  <2>1. server' = "off" /\ UNCHANGED <<live, status>>
    BY <1>4 DEF Exits
  <2>2. live' = [k \in ManagedKeys |-> live'[k]]
    BY <2>1 DEF HotInv
  <2> QED BY <1>1, <1>2, <2>1, <2>2, HotSame
<1>5. CASE Settles
  <2>1. server' = "off" /\ UNCHANGED <<live, server>>
    BY <1>5 DEF Settles
  <2>2. live' = [k \in ManagedKeys |-> live'[k]]
    BY <2>1 DEF HotInv
  <2> QED BY <1>1, <1>2, <2>1, <2>2, HotSame
<1>6. CASE Starts \/ Listens \/ Announces
  <2>1. /\ UNCHANGED <<live, conn, missed, lost>> /\ (server' # "off" => server # "off")
        /\ status' = "idle" => server' = "off"
    BY <1>1, <1>6 DEF Starts, Listens, Announces, HotInv
  <2>2. live' = [k \in ManagedKeys |-> live'[k]]
    BY <2>1 DEF HotInv
  <2>3. ~raced' /\ ~lost' /\ ~missed' /\ server' # "off" =>
            \A k \in Hot : \/ live'[k] = Meant(want, k)
                           \/ \E h \in Handlers : Owes(loc[h], conn'[h], k)
    BY <1>1, <2>1 DEF HotInv
  <2> QED BY <1>1, <1>2, <2>1, <2>2, <2>3, HotSame
<1> QED BY <1>2, <1>3, <1>4, <1>5, <1>6

SettingsInv(maps) == TalkInv /\ FileInv(maps) /\ HotInv

LEMMA SettingsInvInit ==
    ASSUME NEW maps, Sound(maps)
    PROVE  SettingsInit => SettingsInv(maps)
<1> SUFFICES ASSUME SettingsInit PROVE SettingsInv(maps)
  OBVIOUS
<1>1. \A h \in Handlers : loc[h].at = "none"
  BY Rests DEF SettingsInit
<1>2. FileInv(maps)
  <2>1. RoundTrip(bound, maps[bound])
    BY DEF SettingsInit, Sound
  <2>2. want \in maps[bound] /\ Load(text) = want
    BY <2>1 DEF SettingsInit, RoundTrip
  <2> QED BY <1>1, <2>2 DEF FileInv
<1>3. HotInv
  BY <1>1 DEF SettingsInit, HotInv, Telling
<1> QED BY <1>2, <1>3, TalkInit DEF SettingsInv

LEMMA SettingsInvStep ==
    ASSUME NEW maps, Sound(maps)
    PROVE  SettingsInv(maps) /\ [SettingsNext]_settingsVars => SettingsInv(maps)'
<1> SUFFICES ASSUME TalkInv, FileInv(maps), HotInv, [SettingsNext]_settingsVars
             PROVE  SettingsInv(maps)'
  BY DEF SettingsInv
<1>1. TalkInv'
  BY TalkStep
<1>2. CASE UNCHANGED settingsVars
  <2>1. UNCHANGED <<bound, text, want, lost, loc, conn, status, server, live, raced, missed>>
    BY <1>2 DEF settingsVars, fileVars, serverVars
  <2>2. FileInv(maps)'
    BY <2>1 DEF FileInv, Load
  <2>3. ~raced' /\ ~lost' /\ ~missed' /\ server' # "off" =>
            \A k \in Hot : \/ live'[k] = Meant(want, k)
                           \/ \E h \in Handlers : Owes(loc[h], conn'[h], k)
    BY <2>1 DEF HotInv
  <2>4. (status' = "idle" => server' = "off") /\ live' = [k \in ManagedKeys |-> live'[k]]
    BY <2>1 DEF HotInv
  <2>5. HotInv'
    BY <2>1, <2>3, <2>4, HotSame
  <2> QED BY <1>1, <2>2, <2>5 DEF SettingsInv
<1>3. CASE ServerSteps
  <2>1. FileInv(maps)' /\ HotInv'
    BY <1>3, ServerKeeps, AuthsKeeps, ExecsKeeps DEF ServerSteps
  <2> QED BY <1>1, <2>1 DEF SettingsInv
<1>4. ASSUME NEW h \in Handlers, PutNext(h) PROVE SettingsInv(maps)'
  <2>1. FileInv(maps)' /\ HotInv'
    BY <1>4, LoadsKeeps, TruncatesKeeps, WritesKeeps, SaveFailsKeeps, AsksKeeps, DialsKeeps,
       DialFailsKeeps, ReadsKeeps, SendsKeeps, ReturnsKeeps, SkipsKeeps, FailsKeeps DEF PutNext
  <2> QED BY <1>1, <2>1 DEF SettingsInv
<1> QED BY <1>2, <1>3, <1>4 DEF SettingsNext

LEMMA SettingsInvAlways ==
    ASSUME NEW maps, Sound(maps)
    PROVE  SettingsSpec => []SettingsInv(maps)
<1>1. SettingsInit => SettingsInv(maps)
  BY SettingsInvInit
<1>2. SettingsInv(maps) /\ [SettingsNext]_settingsVars => SettingsInv(maps)'
  BY SettingsInvStep
<1> QED BY <1>1, <1>2, PTL DEF SettingsSpec

\* SettingsKept, for any handlers, keys and cases, if what is written for one
\* edit is read again: of the maps that come up, the codec brings all back.
THEOREM FileSaysWhatWasPut ==
    ASSUME NEW maps, Sound(maps)
    PROVE  SettingsSpec => []SettingsKept
<1>1. SettingsInv(maps) => SettingsKept
  <2> SUFFICES ASSUME FileInv(maps), FileFree, ~raced, ~lost PROVE Load(text) = want
    BY Zenon DEF SettingsInv, SettingsKept
  <2>1. \A h \in Handlers : loc[h].at # "write"
    BY DEF FileFree
  <2> QED BY <2>1 DEF FileInv
<1> QED BY <1>1, SettingsInvAlways, PTL

\* ToldOrMissed, under the same hypothesis.
THEOREM ServerHasWhatFileSays ==
    ASSUME NEW maps, Sound(maps)
    PROVE  SettingsSpec => []ToldOrMissed
<1>1. SettingsInv(maps) => ToldOrMissed
  <2> SUFFICES ASSUME FileInv(maps), HotInv, Quiet, server # "off", ~raced, ~missed, ~lost, NEW k \in Hot
               PROVE  live[k] = Says(text, k)
    BY Zenon DEF SettingsInv, ToldOrMissed
  <2>1. \A h \in Handlers : loc[h].at = "none"
    BY DEF Quiet, AtPlace
  <2>2. Load(text) = want
    BY <2>1 DEF FileInv
  <2>3. \A h \in Handlers : ~Owes(loc[h], conn[h], k)
    BY <2>1 DEF Owes
  <2>4. live[k] = Meant(want, k)
    BY <2>3 DEF HotInv
  <2> QED BY <2>2, <2>4 DEF Says
<1> QED BY <1>1, SettingsInvAlways, PTL

-----------------------------------------------------------------------------
(*                           Cron expressions                              *)

\* A set of natural numbers has a least one.
LEMMA Least ==
    ASSUME NEW T, T \subseteq Nat, T # {}
    PROVE  Min(T) \in T /\ \A y \in T : Min(T) <= y
<1> DEFINE R == {ss \in Nat \X Nat : ss[1] < ss[2]}
<1>1. R = OpToRel(<, Nat)
  BY Zenon DEF OpToRel
<1>2. IsWellFoundedOn(R, Nat)
  BY <1>1, NatLessThanWellFounded, Zenon
<1>3. PICK x \in T : \A y \in T : ~(<<y, x>> \in R)
  <2> HIDE DEF R
  <2> QED BY <1>2, WFMin
<1>4. \A y \in T : x <= y
  <2> TAKE y \in T
  <2>1. x \in Nat /\ y \in Nat
    OBVIOUS
  <2>2. ~(y < x)
    BY <1>3, <2>1
  <2> QED BY <2>1, <2>2
<1> QED BY <1>4, Zenon DEF Min

LEMMA Division ==
    ASSUME NEW x \in Nat, NEW s \in Nat \ {0}
    PROVE  /\ x \div s \in Nat /\ x % s \in 0 .. s - 1
           /\ x = s * (x \div s) + (x % s) /\ x = (x \div s) * s + (x % s)
  OBVIOUS

LEMMA Times1 ==
    ASSUME NEW k \in Nat, NEW s \in Nat \ {0}
    PROVE  (k * s) % s = 0 /\ (k * s) \div s = k /\ k * s \in Nat
  OBVIOUS

LEMMA Monotone ==
    ASSUME NEW k \in Nat, NEW q \in Nat, k <= q, NEW s \in Nat
    PROVE  k * s <= q * s
  OBVIOUS

LEMMA Cancels ==
    ASSUME NEW k \in Nat, NEW q \in Nat, NEW s \in Nat \ {0}, NEW r \in 0 .. s - 1, k * s <= q * s + r
    PROVE  k <= q
  OBVIOUS

\* The values the loop for an item comes by are those that the item covers.
LEMMA LoopCovers ==
    ASSUME NEW a \in Nat, NEW b \in Nat, NEW s \in Nat \ {0}, NEW v \in Nat
    PROVE  v \in {a + k * s : k \in 0 .. (b - a) \div s} <=> v \in a .. b /\ (v - a) % s = 0
<1>1. CASE b < a
  <2>1. (b - a) \div s < 0
    BY <1>1
  <2> QED BY <1>1, <2>1
<1>2. CASE a <= b
  <2> DEFINE n == b - a
             q == n \div s
  <2>1. n \in Nat
    BY <1>2
  <2> HIDE DEF n
  <2>2. q \in Nat /\ n % s \in 0 .. s - 1 /\ n = q * s + (n % s)
    BY <2>1, Division
  <2> HIDE DEF q
  <2>3. ASSUME NEW k \in 0 .. q, v = a + k * s
        PROVE  v \in a .. b /\ (v - a) % s = 0
    <3>0. k \in Nat
      BY <2>2
    <3>1. k * s \in Nat /\ (k * s) % s = 0
      BY <3>0, Times1
    <3>2. k * s <= q * s
      BY <2>2, Monotone
    <3>3. v - a = k * s
      BY <2>3, <3>1
    <3>4. k * s <= n
      <4> DEFINE x == k * s
                 y == q * s
      <4>1. x \in Nat /\ y \in Nat /\ x <= y /\ n = y + (n % s) /\ n % s \in Nat
        BY <2>2, <3>1, <3>2, Times1
      <4> HIDE DEF x, y
      <4> QED BY <2>1, <4>1 DEF x
    <3> QED BY <3>1, <3>3, <3>4 DEF n
  <2>4. ASSUME v \in a .. b, (v - a) % s = 0
        PROVE  \E k \in 0 .. q : v = a + k * s
    <3> DEFINE x == v - a
               k == x \div s
    <3>1. x \in Nat /\ x <= n /\ x % s = 0
      BY <2>4 DEF n
    <3> HIDE DEF x
    <3>2. k \in Nat /\ x = k * s
      <4> DEFINE y == k * s
      <4>1. k \in Nat /\ x = y + (x % s)
        BY <3>1, Division
      <4>2. y \in Nat
        BY <4>1
      <4> HIDE DEF y
      <4>3. x = y
        BY <3>1, <4>1, <4>2
      <4> QED BY <4>1, <4>3 DEF y
    <3> HIDE DEF k
    <3>3. k * s <= q * s + (n % s)
      BY <2>2, <3>1, <3>2
    <3>4. k <= q
      BY <2>2, <3>2, <3>3, Cancels
    <3>5. v = a + k * s
      BY <2>4, <3>2 DEF x
    <3>6. k \in 0 .. q
      BY <2>2, <3>2, <3>4
    <3> QED BY <3>5, <3>6, Zenon
  <2> QED BY <2>3, <2>4 DEF n, q
<1> QED BY <1>1, <1>2

\* A bit is set if and only if the field selects its value.
LEMMA BitsSelect ==
    ASSUME NEW e \in Expressions, Parses(e), NEW f \in FieldNames, NEW v \in Nat
    PROVE  v \in Bits(e[f], f) <=> Selects(e, f, v)
<1>1. ASSUME NEW i \in ToSet(e[f])
      PROVE  v \in LoopValues(i, f) <=> Covers(i, v, f)
  <2>1. i.star \in BOOLEAN /\ i.from \in Nat /\ i.to \in Nat /\ i.step \in Nat
    BY AlgorithmsAssumption
  <2>2. Lowest[f] \in Nat /\ Highest[f] \in Nat
    BY CronAssumption
  <2>3. From(i, f) \in Nat /\ To(i, f) \in Nat
    BY <2>1, <2>2 DEF From, To
  <2>4. StepOf(i) \in Nat \ {0}
    BY <2>1 DEF StepOf
  <2> QED BY <2>3, <2>4, LoopCovers DEF LoopValues, Covers
<1> QED BY <1>1 DEF Bits, Selects

\* A field that is a star only selects every value it can have.
LEMMA StarSelects ==
    ASSUME NEW e, NEW f \in FieldNames, e[f] = <<Star>>, NEW v \in Lowest[f] .. Highest[f]
    PROVE  Selects(e, f, v)
<1>1. Lowest[f] \in Nat /\ Highest[f] \in Nat
  BY CronAssumption
<1>2. From(Star, f) = Lowest[f] /\ To(Star, f) = Highest[f] /\ StepOf(Star) = 1
  BY DEF From, To, StepOf, Star
<1>3. (v - Lowest[f]) % 1 = 0
  BY <1>1
<1>4. Covers(Star, v, f)
  BY <1>1, <1>2, <1>3 DEF Covers
<1>5. Star \in ToSet(e[f])
  BY DEF ToSet
<1> QED BY <1>4, <1>5 DEF Selects

\* The bits of a minute's fields match when the expression means the minute.
LEMMA MatchesIsDue ==
    ASSUME NEW e \in Expressions, Parses(e), NEW m,
           \A f \in FieldNames : Calendar(m)[f] \in Lowest[f] .. Highest[f]
    PROVE  Matches(Parse(e), m) <=> Due(e, m)
<1> DEFINE now == Calendar(m)
           s == Parse(e)
<1>1. \A f \in FieldNames : now[f] \in Nat /\ Lowest[f] \in Nat /\ Highest[f] \in Nat
  BY CronAssumption
<1>2. \A f \in FieldNames \ {"dow"} : now[f] \in s.bits[f] <=> Selects(e, f, now[f])
  <2> TAKE f \in FieldNames \ {"dow"}
  <2>1. s.bits[f] = Bits(e[f], f)
    BY DEF Parse
  <2> QED BY <1>1, <2>1, BitsSelect
<1>3. "dow" \in FieldNames /\ "dom" \in FieldNames
  BY DEF FieldNames
<1> DEFINE dow == \/ Selects(e, "dow", now["dow"])
                  \/ now["dow"] = 0 /\ Selects(e, "dow", Highest["dow"])
<1>4. now["dow"] \in s.bits["dow"] <=> dow
  <2> DEFINE B == Bits(e["dow"], "dow")
             H == Highest["dow"]
  <2>1. s.bits["dow"] = FoldDow(B)
    BY <1>3 DEF Parse
  <2>2. now["dow"] \in B <=> Selects(e, "dow", now["dow"])
    BY <1>1, <1>3, BitsSelect
  <2>3. H \in B <=> Selects(e, "dow", H)
    BY <1>1, <1>3, BitsSelect
  <2>4. now["dow"] \in FoldDow(B) <=> now["dow"] \in B \/ (now["dow"] = 0 /\ H \in B)
    <3>1. {b - H : b \in B \cap {H}} = IF H \in B THEN {0} ELSE {}
      <4>1. H \in Nat
        BY <1>1, <1>3
      <4> HIDE DEF B, H
      <4> QED BY <4>1
    <3> HIDE DEF B
    <3> QED BY <3>1 DEF FoldDow
  <2> QED BY <2>1, <2>2, <2>3, <2>4
<1>5. s.domSet = (e["dom"] # <<Star>>) /\ s.dowSet = (e["dow"] # <<Star>>)
  BY DEF Parse
<1>6. e["dom"] = <<Star>> => Selects(e, "dom", now["dom"])
  BY <1>3, StarSelects
<1>7. e["dow"] = <<Star>> => dow
  BY <1>3, StarSelects
<1>8. Matches(s, m) <=>
         /\ \A f \in {"minute", "hour", "month"} : Selects(e, f, now[f])
         /\ IF e["dom"] # <<Star>> /\ e["dow"] # <<Star>>
            THEN Selects(e, "dom", now["dom"]) \/ dow
            ELSE Selects(e, "dom", now["dom"]) /\ dow
  <2>1. {"minute", "hour", "month", "dom"} \subseteq FieldNames \ {"dow"}
    BY DEF FieldNames
  <2>2. now["dom"] \in s.bits["dom"] <=> Selects(e, "dom", now["dom"])
    BY <1>2, <2>1
  <2>3. now["minute"] \in s.bits["minute"] /\ now["hour"] \in s.bits["hour"]
            /\ now["month"] \in s.bits["month"]
        <=> \A f \in {"minute", "hour", "month"} : Selects(e, f, now[f])
    BY <1>2, <2>1
  <2> HIDE DEF s, now, dow
  <2> QED BY <1>4, <1>5, <2>2, <2>3, Zenon DEF Matches, now
<1>9. Due(e, m) <=>
         /\ \A f \in {"minute", "hour", "month"} : Selects(e, f, now[f])
         /\ CASE e["dom"] = <<Star>> -> dow
              [] e["dow"] = <<Star>> -> Selects(e, "dom", now["dom"])
              [] OTHER             -> Selects(e, "dom", now["dom"]) \/ dow
  BY Zenon DEF Due
<1> HIDE DEF s, now, dow
<1> QED BY <1>6, <1>7, <1>8, <1>9 DEF s

ScheduleInv ==
    cron # NoSchedule => /\ cron = [expr |-> cron.expr, after |-> cron.after]
                         /\ cron.expr \in Expressions /\ Parses(cron.expr)
                         /\ cron.after \in Times

LEMMA ScheduleAlways == Spec => []ScheduleInv
<1>1. Init => ScheduleInv
  BY DEF Init, ScheduleInv
<1>2. ScheduleInv /\ [Follow \/ Edit]_vars => ScheduleInv'
  <2> SUFFICES ASSUME ScheduleInv, [Follow \/ Edit]_vars PROVE ScheduleInv'
    OBVIOUS
  <2>1. CASE Follow
    <3>1. PICK t \in Times : cron' = [cron EXCEPT !.after = t]
      BY <2>1, Zenon DEF Follow
    <3>2. cron # NoSchedule
      BY <2>1 DEF Follow
    <3> QED BY <3>1, <3>2 DEF ScheduleInv, Parses
  <2>2. CASE UNCHANGED cron
    BY <2>2 DEF ScheduleInv, Parses, InBounds
  <2> QED BY <2>1, <2>2 DEF Edit, vars
<1> QED BY <1>1, <1>2, PTL DEF Spec

\* NextIsNearest, for any expressions, times and calendar, whichever of two minutes of
\* one wall clock time.Date finds: Next of a parsed expression answers with the first due
\* minute after the one it counts from, or none of the scanned minutes is due; and unless
\* it counts from an earlier minute than the one it is given, the answer is later.
THEOREM NextFindsNearest == Spec => []NextIsNearest
<1>1. ASSUME NEW e \in Expressions, Parses(e), NEW after \in Times
      PROVE  LET next == Next(Parse(e), after)
                 given == after \div MinuteTicks
                 first == DateOf(given) + 1
             IN IF next = -1
                THEN \A m \in first .. first + MaxScanMinutes - 1 : ~Due(e, m)
                ELSE /\ DateOf(given) >= given => next > after
                     /\ Due(e, next \div MinuteTicks)
                     /\ \A m \in first .. next \div MinuteTicks - 1 : ~Due(e, m)
  <2> DEFINE given == after \div MinuteTicks
             day == DateOf(given)
             first == day + 1
             last == first + MaxScanMinutes - 1
             found == {m \in first .. last : Matches(Parse(e), m)}
             next == Next(Parse(e), after)
  <2>1. after \in Nat /\ MinuteTicks \in Nat \ {0} /\ MaxScanMinutes \in Nat
    BY AlgorithmsAssumption, CronAssumption
  <2>g. given \in Nat /\ after % MinuteTicks \in 0 .. MinuteTicks - 1
        /\ after = MinuteTicks * given + (after % MinuteTicks)
    BY <2>1, Division
  <2>2. day \in Nat
    BY AlgorithmsAssumption
  <2> HIDE DEF day, given
  <2>3. ASSUME NEW m \in first .. last
        PROVE  Matches(Parse(e), m) <=> Due(e, m)
    <3>1. m - day \in 1 .. MaxScanMinutes /\ m = day + (m - day)
      BY <2>1, <2>2
    <3>2. \A f \in FieldNames : Calendar(day + (m - day))[f] \in Lowest[f] .. Highest[f]
      BY <3>1, AlgorithmsAssumption DEF day, given
    <3>3. \A f \in FieldNames : Calendar(m)[f] \in Lowest[f] .. Highest[f]
      BY <3>1, <3>2
    <3> QED BY <1>1, <3>3, MatchesIsDue
  <2>4. next = IF found = {} THEN -1 ELSE Min(found) * MinuteTicks
    BY DEF Next, FirstScanned, day, given
  <2>5. CASE found = {}
    <3>1. next = -1
      BY <2>4, <2>5, Zenon
    <3>2. \A m \in first .. last : ~Due(e, m)
      <4> HIDE DEF last
      <4> QED BY <2>3, <2>5
    <3> HIDE DEF next
    <3> QED BY <3>1, <3>2, Zenon DEF day, given, next
  <2>6. CASE found # {}
    <3> DEFINE x == Min(found)
    <3>1. found \subseteq Nat
      BY <2>1, <2>2
    <3>2. x \in found /\ \A y \in found : x <= y
      <4> HIDE DEF found
      <4> QED BY <2>6, <3>1, Least
    <3> HIDE DEF x
    <3>3. x \in Nat /\ first <= x /\ x \in first .. last /\ Due(e, x)
      BY <2>1, <2>2, <2>3, <3>2
    <3>4. next = x * MinuteTicks
      BY <2>4, <2>6 DEF x
    <3>5. next \in Nat /\ next \div MinuteTicks = x
      BY <2>1, <3>3, <3>4, Times1
    <3>6. ASSUME day >= given PROVE next > after
      <4>0. given + 1 \in Nat /\ given + 1 <= x
        BY <2>g, <2>2, <3>3, <3>6
      <4>1. (given + 1) * MinuteTicks <= x * MinuteTicks
        BY <2>1, <2>g, <3>3, <4>0, Monotone
      <4>2. (given + 1) * MinuteTicks = MinuteTicks * given + MinuteTicks
        BY <2>1, <2>g
      <4> DEFINE u == MinuteTicks * given
                 w == x * MinuteTicks
                 r == after % MinuteTicks
      <4>3. u \in Nat /\ w \in Nat /\ u + MinuteTicks <= w /\ after = u + r /\ r < MinuteTicks /\ r \in Nat
        BY <2>1, <2>g, <3>3, <4>1, <4>2
      <4> HIDE DEF u, w, r
      <4> QED BY <2>1, <3>4, <4>3 DEF w
    <3>7. ASSUME NEW m \in first .. x - 1 PROVE ~Due(e, m)
      <4>1. m \in first .. last /\ m < x
        BY <2>1, <2>2, <3>3
      <4>2. m \notin found
        BY <3>2, <3>3, <4>1
      <4> QED BY <2>3, <4>1, <4>2
    <3>8. next # -1
      BY <3>5
    <3> HIDE DEF next
    <3>9. Due(e, next \div MinuteTicks)
      BY <3>3, <3>5
    <3>10. \A m \in first .. next \div MinuteTicks - 1 : ~Due(e, m)
      BY <3>5, <3>7
    <3> QED BY <3>6, <3>8, <3>9, <3>10, Zenon DEF day, given, next
  <2> QED BY <2>5, <2>6
<1>2. ScheduleInv => NextIsNearest
  <2> SUFFICES ASSUME ScheduleInv, cron # NoSchedule PROVE NextIsNearest
    BY DEF NextIsNearest
  <2> QED BY <1>1, Zenon DEF ScheduleInv, NextIsNearest
<1> QED BY <1>2, ScheduleAlways, PTL
=============================================================================
