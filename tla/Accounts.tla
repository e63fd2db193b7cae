------------------------------ MODULE Accounts ------------------------------
(***************************************************************************)
(* Users and their tokens: login, refresh and logout, and the requests of  *)
(* administrators that create and update users.  An access token is signed *)
(* and kept by its owner: the API looks at nothing but the role and the    *)
(* expiry inside it.  A refresh token is a row that is asked each time.    *)
(*                                                                         *)
(* One action is one statement.  What depends on the row alone is decided  *)
(* with its SELECT; what reads the clock is a step of its own, since the   *)
(* row may change before the code after the SELECT runs.  flush and COMMIT *)
(* of a write are one action: nobody sees an uncommitted row, and a rival  *)
(* that waits for its lock acts on what it left.                           *)
(***************************************************************************)
EXTENDS FiniteSets, Naturals

CONSTANTS
    Users,       \* ids, those of users yet to be created included
    Names,       \* what a username and an email may be
    Tokens,      \* refresh tokens, each generated once
    Owner,       \* Owner[t]: who may be given t, a bound on logins
    Creations,   \* the rows that POST requests ask for
    Patches,     \* the bodies of the PATCH requests
    Sessions,    \* request slots
    Admin,       \* the user the initial migration inserts
    AdminName,   \* its username and email
    AccessTTL,   \* access_token_expire_minutes
    RefreshTTL,  \* refresh_token_expire_days
    MaxTime,     \* bound of the clock
    None

ASSUME SeedAssumption == Admin \in Users /\ AdminName \in Names
ASSUME OwnerAssumption == Owner \in [Tokens -> Users]
ASSUME TimesAssumption == {AccessTTL, RefreshTTL, MaxTime} \subseteq Nat

Roles == {"admin", "operator"}

Row == [username: Names, email: Names, role: Roles, active: BOOLEAN]

\* The body of a PATCH: a field that is None is not given.
Columns == {"role", "active"}
Patch == [role: Roles \cup {None}, active: BOOLEAN \cup {None}]

ASSUME RequestsAssumption == Creations \subseteq Row /\ Patches \subseteq Patch

NoPatch == [role |-> None, active |-> None]

RefreshToken == [user: Users, expires: Nat, revoked: BOOLEAN]

ASSUME NoneAssumption ==
    /\ None \notin Users \cup Names \cup Tokens \cup BOOLEAN
    /\ None \notin Roles /\ None \notin Row /\ None \notin RefreshToken

\* sub, role and exp of the JWT.
AccessToken == [user: Users, role: Roles, exp: Nat]

VARIABLES
    users,   \* users[u]: the row of user u, or None
    tokens,  \* tokens[t]: the row of refresh token t, or None
    access,  \* the access tokens that were handed out and did not expire
    clock,   \* datetime.now
    req,     \* req[s]: the request session s serves
    since,   \* history: when a user's role last changed, and since when he
             \* is inactive
    overtaken, \* history: the sessions whose row had its column changed
               \* after they read it and before they made tokens of it
    strays   \* history: the tokens such sessions handed out

history == <<since, overtaken, strays>>
vars == <<users, tokens, access, clock, req, history>>

Steps == {"none", "sign", "save", "user", "issue", "email", "insert", "patch"}

\* actor: the administrator; user, token: what the request is about; time:
\* when it made the tokens; role: the role it read; row: what it will insert;
\* body: the PATCH; sets: the columns its UPDATE names.
Request == [at: Steps, actor: Users \cup {None}, user: Users \cup {None},
            token: Tokens \cup {None}, time: Nat, role: Roles \cup {None},
            row: Row \cup {None}, body: Patch, sets: Patch]

NoRequest == [at |-> "none", actor |-> None, user |-> None, token |-> None,
              time |-> 0, role |-> None, row |-> None, body |-> NoPatch, sets |-> NoPatch]

NewRow(name, mail, as) == [username |-> name, email |-> mail, role |-> as, active |-> TRUE]

Init ==
    /\ users = [u \in Users |-> IF u = Admin THEN NewRow(AdminName, AdminName, "admin") ELSE None]
    /\ tokens = [t \in Tokens |-> None]
    /\ access = {}
    /\ clock = 0
    /\ req = [s \in Sessions |-> NoRequest]
    /\ since = [role |-> [u \in Users |-> 0], inactive |-> [u \in Users |-> 0]]
    /\ overtaken = [role |-> {}, active |-> {}, revoked |-> {}]
    /\ strays = [access |-> {}, refresh |-> {}]

At(s, step) == req[s].at = step

Idle(s) == req[s] = NoRequest

Begin(s, request) == req' = [req EXCEPT ![s] = request]

\* The request is answered: what it had read no longer matters.
End(s) ==
    /\ req' = [req EXCEPT ![s] = NoRequest]
    /\ overtaken' = [k \in DOMAIN overtaken |-> overtaken[k] \ {s}]

\* decode_access_token refuses a token once its exp is past.
Alive(handed) == {a \in handed : a.exp >= clock}

\* An expired token is refused everywhere, so it may as well be gone.  A change
\* of role that no token alive can precede is forgotten.
Tick ==
    /\ clock < MaxTime
    /\ clock' = clock + 1
    /\ access' = {a \in access : a.exp >= clock'}
    /\ since' = [since EXCEPT !.role = [u \in Users |-> IF @[u] + AccessTTL < clock' THEN 0 ELSE @[u]]]
    /\ strays' = [strays EXCEPT !.access = @ \cap access']
    /\ UNCHANGED <<users, tokens, req, overtaken>>

(***************************************************************************)
(* /auth                                                                   *)
(***************************************************************************)
\* Mutation of Login: an inactive user logs in.
LoginInactive(s, u) ==
    /\ Idle(s)
    /\ users[u] # None
    /\ Begin(s, [NoRequest EXCEPT !.at = "sign", !.user = u, !.role = users[u].role])
    /\ UNCHANGED <<users, tokens, access, clock, history>>

\* The row is read; the password is right and the user is active.  Any other
\* login changes nothing.
Login(s, u) ==
    /\ Idle(s)
    /\ users[u] # None
    /\ users[u].active
    /\ \E t \in Tokens : Owner[t] = u /\ tokens[t] = None
    /\ Begin(s, [NoRequest EXCEPT !.at = "sign", !.user = u, !.role = users[u].role])
    /\ UNCHANGED <<users, tokens, access, clock, history>>

\* Both tokens are made, each good from now on: no await parts their two readings
\* of the clock.
SignTokens(s) ==
    /\ At(s, "sign")
    /\ req' = [req EXCEPT ![s].at = "save", ![s].time = clock]
    /\ UNCHANGED <<users, tokens, access, clock, history>>

\* The refresh token is stored, then both are handed out.  Tokens lost with the
\* answer are tokens never used.
SaveToken(s, t) ==
    LET r == req[s]
        token == [user |-> r.user, role |-> r.role, exp |-> r.time + AccessTTL]
    IN  /\ At(s, "save")
        /\ tokens[t] = None
        /\ Owner[t] = r.user
        /\ tokens' = [tokens EXCEPT ![t] = [user |-> r.user, expires |-> r.time + RefreshTTL,
                                            revoked |-> FALSE]]
        /\ access' = Alive(access \cup {token})
        /\ strays' = [access |-> Alive(strays.access \cup
                                       {a \in {token} : s \in overtaken.role}),
                      refresh |-> strays.refresh \cup
                                       {x \in {t} : s \in overtaken.active}]
        /\ End(s)
        /\ UNCHANGED <<users, clock, since>>

\* Mutation of Refresh: revoked_at is not looked at.
RefreshRevoked(s, t) ==
    /\ Idle(s)
    /\ tokens[t] # None
    /\ Begin(s, [NoRequest EXCEPT !.at = "user", !.token = t, !.user = tokens[t].user])
    /\ UNCHANGED <<users, tokens, access, clock, history>>

\* The token is read, and was not revoked.
Refresh(s, t) ==
    /\ Idle(s)
    /\ tokens[t] # None
    /\ ~tokens[t].revoked
    /\ Begin(s, [NoRequest EXCEPT !.at = "user", !.token = t, !.user = tokens[t].user])
    /\ UNCHANGED <<users, tokens, access, clock, history>>

\* Unless the token has expired, its user is read.  Whether he is active is not
\* asked.
ReadUser(s) ==
    LET r == req[s] IN
    /\ At(s, "user")
    /\ IF tokens[r.token].expires < clock THEN End(s)
       ELSE /\ req' = [req EXCEPT ![s].at = "issue", ![s].role = users[r.user].role]
            /\ UNCHANGED overtaken
    /\ UNCHANGED <<users, tokens, access, clock, since, strays>>

\* Mutation of Issue: the new access token lasts as long as the refresh token.
IssueLong(s) ==
    LET r == req[s]
        token == [user |-> r.user, role |-> r.role, exp |-> clock + RefreshTTL]
    IN  /\ At(s, "issue")
        /\ access' = access \cup {token}
        /\ strays' = [strays EXCEPT !.access = @ \cup {a \in {token} : s \in overtaken.role}]
        /\ End(s)
        /\ UNCHANGED <<users, tokens, clock, since>>

\* The new access token is made, good from now on.
Issue(s) ==
    LET r == req[s]
        token == [user |-> r.user, role |-> r.role, exp |-> clock + AccessTTL]
    IN  /\ At(s, "issue")
        /\ access' = access \cup {token}
        /\ strays' = [strays EXCEPT !.access = @ \cup {a \in {token} : s \in overtaken.role}]
        /\ End(s)
        /\ UNCHANGED <<users, tokens, clock, since>>

\* The token is found and revoked: nothing that happens between the two
\* statements could undo either.
Logout(t) ==
    /\ tokens[t] # None
    /\ tokens' = [tokens EXCEPT ![t].revoked = TRUE]
    /\ overtaken' = [overtaken EXCEPT !.revoked = @ \cup {s \in Sessions : req[s].token = t}]
    /\ UNCHANGED <<users, access, clock, req, since, strays>>

(***************************************************************************)
(* /admin/users                                                            *)
(***************************************************************************)
\* require_admin: a token that is alive and says admin.
Administrators == {a.user : a \in {b \in Alive(access) : b.role = "admin"}}

UsernameTaken(name) == \E u \in Users : users[u] # None /\ users[u].username = name
EmailTaken(mail) == \E u \in Users : users[u] # None /\ users[u].email = mail

CreateUser(s, actor, row) ==
    /\ Idle(s)
    /\ actor \in Administrators
    /\ ~UsernameTaken(row.username)
    /\ Begin(s, [NoRequest EXCEPT !.at = "email", !.row = row])
    /\ UNCHANGED <<users, tokens, access, clock, history>>

FindEmail(s) ==
    /\ At(s, "email")
    /\ req' = [req EXCEPT ![s] = IF EmailTaken(@.row.email) THEN NoRequest
                                 ELSE [@ EXCEPT !.at = "insert"]]
    /\ UNCHANGED <<users, tokens, access, clock, history>>

\* Mutation of InsertUser: the columns are not unique.
InsertUserUnchecked(s, u) ==
    /\ At(s, "insert")
    /\ users[u] = None
    /\ users' = [users EXCEPT ![u] = req[s].row]
    /\ End(s)
    /\ UNCHANGED <<tokens, access, clock, since, strays>>

\* A username or an email that was taken meanwhile violates its unique key.
InsertUser(s, u) ==
    LET row == req[s].row IN
    /\ At(s, "insert")
    /\ users[u] = None
    /\ users' = IF UsernameTaken(row.username) \/ EmailTaken(row.email) THEN users
                ELSE [users EXCEPT ![u] = row]
    /\ End(s)
    /\ UNCHANGED <<tokens, access, clock, since, strays>>

\* Mutation of SelfAllowed: only the role is compared.
SelfAllowedRoleOnly(patch) == patch.role # "operator"

\* What administrators may do to themselves.
SelfAllowed(patch) == patch.active # FALSE /\ patch.role # "operator"

\* Mutation of Changes: the UPDATE names every column.
ChangesWhole(row, patch) ==
    [k \in Columns |-> IF patch[k] = None THEN row[k] ELSE patch[k]]

\* The UPDATE names the columns given that differ from the row found.
Changes(row, patch) ==
    [k \in Columns |-> IF patch[k] = row[k] THEN None ELSE patch[k]]

\* An update that changes nothing sends no UPDATE.
UpdateUser(s, actor, u, patch) ==
    /\ Idle(s)
    /\ actor \in Administrators
    /\ u = actor => SelfAllowed(patch)
    /\ users[u] # None
    /\ Changes(users[u], patch) # NoPatch
    /\ Begin(s, [NoRequest EXCEPT !.at = "patch", !.actor = actor, !.user = u,
                                  !.body = patch, !.sets = Changes(users[u], patch)])
    /\ UNCHANGED <<users, tokens, access, clock, history>>

Written(row, sets) ==
    [row EXCEPT !.role = IF sets.role = None THEN @ ELSE sets.role,
                !.active = IF sets.active = None THEN @ ELSE sets.active]

\* The requests that have read the row of u and have yet to make a token of its
\* column k: of the role a login or a refresh, of active only a login.
Holding(u, k) ==
    {s \in Sessions : /\ req[s].user = u
                      /\ req[s].at = "sign" \/ (k = "role" /\ req[s].at = "issue")}

CommitPatch(s) ==
    LET u == req[s].user
        row == Written(users[u], req[s].sets)
        Overtakes(k) == IF row[k] # users[u][k] THEN Holding(u, k) ELSE {}
    IN  /\ At(s, "patch")
        /\ users' = [users EXCEPT ![u] = row]
        /\ since' = [since EXCEPT
                       !.role[u] = IF row.role # users[u].role THEN clock ELSE @,
                       !.inactive[u] = IF row.active # FALSE THEN 0
                                       ELSE IF users[u].active THEN clock ELSE @]
        /\ req' = [req EXCEPT ![s] = NoRequest]
        /\ overtaken' = [overtaken EXCEPT !.role = @ \cup Overtakes("role"),
                                          !.active = @ \cup Overtakes("active")]
        /\ UNCHANGED <<tokens, access, clock, strays>>

\* A statement fails, or the server dies: the request leaves nothing behind.
\* When only the answer is lost, what it wrote stays, as in the actions above.
Fail(s) ==
    /\ ~Idle(s)
    /\ End(s)
    /\ UNCHANGED <<users, tokens, access, clock, since, strays>>

(***************************************************************************)
(* The specification                                                       *)
(***************************************************************************)
AuthStep(s) ==
    \/ \E u \in Users : Login(s, u)
    \/ SignTokens(s)
    \/ \E t \in Tokens : SaveToken(s, t) \/ Refresh(s, t)
    \/ ReadUser(s)
    \/ Issue(s)

AdminStep(s) ==
    \/ \E actor \in Users, row \in Creations : CreateUser(s, actor, row)
    \/ \E actor, u \in Users, patch \in Patches : UpdateUser(s, actor, u, patch)
    \/ \E u \in Users : InsertUser(s, u)
    \/ FindEmail(s)
    \/ CommitPatch(s)

Next ==
    \/ Tick
    \/ \E t \in Tokens : Logout(t)
    \/ \E s \in Sessions : AuthStep(s) \/ AdminStep(s) \/ Fail(s)

Spec == Init /\ [][Next]_vars

(***************************************************************************)
(* Properties                                                              *)
(***************************************************************************)
\* Every variable has its type.
TypeOK ==
    /\ users \in [Users -> Row \cup {None}]
    /\ tokens \in [Tokens -> RefreshToken \cup {None}]
    /\ access \subseteq AccessToken
    /\ clock \in Nat
    /\ req \in [Sessions -> Request]
    /\ since \in [role: [Users -> Nat], inactive: [Users -> Nat]]
    /\ overtaken \in [role: SUBSET Sessions, active: SUBSET Sessions, revoked: SUBSET Sessions]
    /\ strays \in [access: SUBSET AccessToken, refresh: SUBSET Tokens]

\* Two accounts never share a username or an email, although both requests
\* found them free: who is logged in by a username is never in doubt.
AccountsUnique ==
    \A u, v \in Users :
        u # v /\ users[u] # None /\ users[v] # None =>
            users[u].username # users[v].username /\ users[u].email # users[v].email

\* An access token that names a role its user no longer has dies at most
\* AccessTTL after the change, whatever requests overlapped.  Only a login or a
\* refresh that the change overtook between its SELECT and the making of the
\* token hands out one that lasts longer.
StaleRoleExpires ==
    \A a \in access \ strays.access :
        a.role # users[a.user].role => a.exp <= since.role[a.user] + AccessTTL

\* A user who was deactivated gets access tokens only from a login that had
\* read him active: one that is still under way, or one whose refresh token
\* expires within RefreshTTL of the deactivation, since refresh does not ask
\* whether he is active.  Only a login that the deactivation overtook before it
\* made its tokens leaves a refresh token that lasts longer.
InactiveAccessEnds ==
    [][\A a \in access' \ access :
          ~users[a.user].active =>
             \E s \in Sessions :
                /\ req[s].user = a.user /\ Idle(s)'
                /\ \/ /\ At(s, "save")
                      /\ s \in overtaken.active \/ req[s].time <= since.inactive[a.user]
                   \/ /\ At(s, "issue")
                      /\ \/ req[s].token \in strays.refresh
                         \/ tokens[req[s].token].expires
                               <= since.inactive[a.user] + RefreshTTL]_vars

\* After a logout its refresh token yields an access token only to a request
\* that had read it before the logout committed.
LogoutEndsAccess ==
    [][\A s \in Sessions :
          Issue(s) /\ tokens[req[s].token].revoked => s \in overtaken.revoked]_vars

ActiveAdmins == {u \in Users : users[u] # None /\ users[u].active /\ users[u].role = "admin"}

\* No administrator who still is one can leave the system without any: that
\* takes an update by somebody whose own role or activity was taken away
\* after his token was made, as when two administrators demote each other.
OnlyStaleAdminsEndAdministration ==
    [][ActiveAdmins # {} /\ ActiveAdmins' = {} =>
          \E s \in Sessions : At(s, "patch") /\ ~At(s, "patch")' /\ req[s].actor \notin ActiveAdmins]_vars

\* A deactivation is undone, and a role taken or given, only by a request
\* for that column: concurrent updates of the two merge.
PatchesMerge ==
    [][\A u \in Users : \A k \in Columns :
          users[u] # None /\ users'[u][k] # users[u][k] =>
             \E s \in Sessions :
                /\ At(s, "patch") /\ req[s].user = u
                /\ req[s].body[k] = users'[u][k]]_vars

(***************************************************************************)
(* The inductive invariant behind the properties                           *)
(***************************************************************************)
Exists(u) == u \in Users /\ users[u] # None

\* What a request holds at each step, all of it about users there are.
LoginsFormed ==
    \A s \in Sessions : req[s].at \in {"sign", "save"} =>
        Exists(req[s].user) /\ req[s].role \in Roles /\ req[s].time <= clock

RefreshesFormed ==
    \A s \in Sessions : req[s].at \in {"user", "issue"} =>
        LET t == req[s].token
        IN  /\ t \in Tokens /\ tokens[t] # None
            /\ req[s].user = tokens[t].user
            /\ At(s, "issue") => req[s].role \in Roles
            /\ tokens[t].revoked => s \in overtaken.revoked

CreationsFormed ==
    \A s \in Sessions : req[s].at \in {"email", "insert"} => req[s].row \in Row

UpdatesFormed ==
    \A s \in Sessions : At(s, "patch") =>
        /\ Exists(req[s].user) /\ req[s].actor \in Users
        /\ req[s].user = req[s].actor => SelfAllowed(req[s].sets)
        /\ \A k \in Columns : req[s].sets[k] \in {None, req[s].body[k]}

RequestsFormed == LoginsFormed /\ RefreshesFormed /\ CreationsFormed /\ UpdatesFormed

\* The tokens of a user were made no later than now.
TokensFormed ==
    /\ \A t \in Tokens : tokens[t] # None =>
          Exists(tokens[t].user) /\ tokens[t].expires <= clock + RefreshTTL
    /\ \A a \in access :
          Exists(a.user) /\ clock <= a.exp /\ a.exp <= clock + AccessTTL

\* The role a request read is the one its user has, unless it was overtaken, or
\* the role changed after its login made the tokens.
RolesRead ==
    \A s \in Sessions : LET r == req[s] IN
        r.at \in {"sign", "save", "issue"} /\ r.role # users[r.user].role =>
            \/ s \in overtaken.role
            \/ /\ r.at = "save"
               /\ r.time <= since.role[r.user] \/ r.time + AccessTTL < clock

\* Whatever an inactive user still has goes back to before he was deactivated.
InactiveLeftovers ==
    \A u \in Users : users[u] # None /\ ~users[u].active =>
        /\ \A s \in Sessions :
              req[s].at \in {"sign", "save"} /\ req[s].user = u =>
                  \/ s \in overtaken.active
                  \/ req[s].at = "save" /\ req[s].time <= since.inactive[u]
        /\ \A t \in Tokens :
              tokens[t] # None /\ tokens[t].user = u =>
                  \/ t \in strays.refresh
                  \/ tokens[t].expires <= since.inactive[u] + RefreshTTL

AInv ==
    /\ TypeOK
    /\ RequestsFormed
    /\ TokensFormed
    /\ RolesRead
    /\ InactiveLeftovers
    /\ AccountsUnique
    /\ StaleRoleExpires
=============================================================================
