--------------------------- MODULE AccountsProofs ---------------------------
(***************************************************************************)
(* Machine-checked proofs about Accounts, for any users, tokens, requests  *)
(* and sessions, any lifetimes of the tokens and any clock.                *)
(***************************************************************************)
EXTENDS Accounts, TLAPS

(***************************************************************************)
(* The values the steps build                                              *)
(***************************************************************************)
\* The request of a login that found its user, and of a refresh that found its
\* token.
LEMMA AuthRequest ==
    ASSUME NEW u \in Users, NEW t \in Tokens, NEW as \in Roles
    PROVE  /\ [NoRequest EXCEPT !.at = "sign", !.user = u, !.role = as] \in Request
           /\ [NoRequest EXCEPT !.at = "user", !.token = t, !.user = u] \in Request
BY DEF NoPatch, Request, Patch, Steps, NoRequest

\* The login has made its tokens, the refresh has read its user.
LEMMA AuthProgress ==
    ASSUME TypeOK, NEW as \in Roles, NEW r \in Request
    PROVE  /\ [r EXCEPT !.at = "save", !.time = clock] \in Request
           /\ [r EXCEPT !.at = "issue", !.role = as] \in Request
BY DEF TypeOK, Request, Steps

\* The request of an administrator.
LEMMA AdminRequest ==
    ASSUME NEW actor \in Users, NEW u \in Users, NEW row \in Row,
           NEW body \in Patch, NEW sets \in Patch
    PROVE  /\ [NoRequest EXCEPT !.at = "email", !.row = row] \in Request
           /\ [NoRequest EXCEPT !.at = "patch", !.actor = actor, !.user = u,
                                !.body = body, !.sets = sets] \in Request
BY DEF NoPatch, Request, Patch, Steps, NoRequest

LEMMA NoRequestFormed == NoRequest \in Request
BY DEF NoPatch, Request, Patch, Steps, NoRequest

\* A request that ends is no longer overtaken.
LEMMA EndForgets ==
    ASSUME TypeOK, NEW s \in Sessions, End(s)
    PROVE  /\ req' = [req EXCEPT ![s] = NoRequest]
           /\ overtaken' = [role |-> overtaken.role \ {s}, active |-> overtaken.active \ {s},
                            revoked |-> overtaken.revoked \ {s}]
           /\ req' \in [Sessions -> Request]
           /\ overtaken' \in [role: SUBSET Sessions, active: SUBSET Sessions,
                              revoked: SUBSET Sessions]
<1>1. overtaken' = [role |-> overtaken.role \ {s}, active |-> overtaken.active \ {s},
                    revoked |-> overtaken.revoked \ {s}]
  BY DEF TypeOK, End
<1>2. overtaken' \in [role: SUBSET Sessions, active: SUBSET Sessions,
                     revoked: SUBSET Sessions]
  BY <1>1 DEF TypeOK
<1> QED BY <1>1, <1>2, NoRequestFormed DEF TypeOK, End

\* An UPDATE names only columns of the body, and leaves a row.
LEMMA ChangesNamed ==
    ASSUME NEW row \in Row, NEW patch \in Patch
    PROVE  /\ Changes(row, patch) \in Patch
           /\ \A k \in Columns : Changes(row, patch)[k] \in {None, patch[k]}
<1> DEFINE sets == Changes(row, patch)
<1>1. \A k \in Columns : sets[k] \in {None, patch[k]}
  BY DEF Changes
<1>2. sets = [k \in Columns |-> sets[k]]
  BY DEF Changes
<1>3. sets.role \in Roles \cup {None} /\ sets.active \in BOOLEAN \cup {None}
  BY <1>1 DEF Patch, Columns
<1>4. sets = [role |-> sets.role, active |-> sets.active]
  BY <1>2 DEF Columns
<1> QED BY <1>1, <1>3, <1>4 DEF Patch

LEMMA WrittenIsRow ==
    ASSUME NEW row \in Row, NEW sets \in Patch
    PROVE  Written(row, sets) \in Row
BY NoneAssumption DEF Written, Row, Patch

(***************************************************************************)
(* Every action preserves AInv                                             *)
(***************************************************************************)
LEMMA InitEstablishesAInv == Init => AInv
<1> SUFFICES ASSUME Init PROVE AInv
  OBVIOUS
<1> USE SeedAssumption, TimesAssumption DEF Init, NewRow
<1>1. TypeOK
  BY NoRequestFormed DEF TypeOK, Row, Roles
<1>2. RequestsFormed /\ TokensFormed /\ RolesRead /\ InactiveLeftovers
  BY DEF RequestsFormed, LoginsFormed, RefreshesFormed, CreationsFormed,
         UpdatesFormed, TokensFormed, RolesRead, InactiveLeftovers, At,
         NoRequest
<1>3. AccountsUnique /\ StaleRoleExpires
  BY DEF AccountsUnique, StaleRoleExpires
<1> QED BY <1>1, <1>2, <1>3 DEF AInv

\* Time passes: what is forgotten of a role no token alive can precede.
LEMMA TickKeepsAInv ==
    ASSUME AInv, Tick
    PROVE  AInv'
<1> USE TimesAssumption DEF At, history, Tick
<1>1. TypeOK'
  BY DEF AInv, TypeOK
<1>2. LoginsFormed'
  BY DEF AInv, TypeOK, RequestsFormed, LoginsFormed, Exists, Request
<1>3. RefreshesFormed'
  BY DEF AInv, TypeOK, RequestsFormed, RefreshesFormed
<1>4. CreationsFormed'
  BY DEF AInv, TypeOK, RequestsFormed, CreationsFormed
<1>5. UpdatesFormed'
  BY DEF AInv, TypeOK, RequestsFormed, UpdatesFormed, Exists
<1>6. TokensFormed'
  BY DEF AInv, TypeOK, TokensFormed, Exists, AccessToken, RefreshToken
<1>7. RolesRead'
  <2> SUFFICES ASSUME NEW s \in Sessions, At(s, "save"), req[s].role # users[req[s].user].role
               PROVE  \/ s \in overtaken'.role
                      \/ req[s].time <= since'.role[req[s].user]
                      \/ req[s].time + AccessTTL < clock'
    BY DEF AInv, RolesRead
  <2> DEFINE u == req[s].user
  <2>1. u \in Users /\ req[s].time \in Nat /\ since.role[u] \in Nat /\ clock \in Nat
    BY DEF AInv, TypeOK, RequestsFormed, LoginsFormed, Exists, Request
  <2>2. since'.role[u] = IF since.role[u] + AccessTTL < clock' THEN 0 ELSE since.role[u]
    BY <2>1 DEF AInv, TypeOK
  <2>3. \/ s \in overtaken.role
        \/ req[s].time <= since.role[u]
        \/ req[s].time + AccessTTL < clock
    BY DEF AInv, RolesRead
  <2> QED BY <2>1, <2>2, <2>3
<1>8. InactiveLeftovers'
  BY DEF AInv, TypeOK, InactiveLeftovers
<1>9. AccountsUnique'
  BY DEF AInv, AccountsUnique
<1>10. StaleRoleExpires'
  BY DEF AInv, TypeOK, StaleRoleExpires, AccessToken, TokensFormed
<1> QED BY <1>1, <1>2, <1>3, <1>4, <1>5, <1>6, <1>7, <1>8, <1>9, <1>10
  DEF AInv, RequestsFormed

\* A login signs the role its user has now.
LEMMA LoginKeepsAInv ==
    ASSUME AInv, NEW s \in Sessions, NEW u \in Users, Login(s, u)
    PROVE  AInv'
<1> USE DEF At, history, Login, Begin, Idle
<1>1. TypeOK'
  <2>1. users[u].role \in Roles
    BY DEF AInv, TypeOK, Row
  <2>2. PICK t \in Tokens : Owner[t] = u
    OBVIOUS
  <2> QED BY <2>1, <2>2, AuthRequest DEF AInv, TypeOK
<1>2. LoginsFormed'
  BY DEF AInv, TypeOK, RequestsFormed, LoginsFormed, Exists, Row, NoRequest
<1>3. RefreshesFormed'
  BY DEF AInv, TypeOK, RequestsFormed, RefreshesFormed
<1>4. CreationsFormed'
  BY DEF AInv, TypeOK, RequestsFormed, CreationsFormed
<1>5. UpdatesFormed'
  BY DEF AInv, TypeOK, RequestsFormed, UpdatesFormed, Exists
<1>6. TokensFormed'
  BY DEF AInv, TypeOK, TokensFormed, Exists
<1>7. RolesRead'
  BY DEF AInv, TypeOK, RolesRead
<1>8. InactiveLeftovers'
  BY DEF AInv, TypeOK, InactiveLeftovers
<1>9. AccountsUnique'
  BY DEF AInv, AccountsUnique
<1>10. StaleRoleExpires'
  BY DEF AInv, TypeOK, StaleRoleExpires
<1> QED BY <1>1, <1>2, <1>3, <1>4, <1>5, <1>6, <1>7, <1>8, <1>9, <1>10
  DEF AInv, RequestsFormed

\* The tokens of a login are good from the moment they are made.
LEMMA SignTokensKeepsAInv ==
    ASSUME AInv, NEW s \in Sessions, SignTokens(s)
    PROVE  AInv'
<1>a. /\ req[s] \in Request /\ clock \in Nat
      /\ req' = [req EXCEPT ![s] = [req[s] EXCEPT !.at = "save", !.time = clock]]
      /\ [req[s] EXCEPT !.at = "save", !.time = clock] \in Request
      /\ req[s].user \in Users /\ users[req[s].user] \in Row
  <2>1. req[s] \in Request /\ clock \in Nat /\ req[s].at = "sign"
    BY DEF AInv, TypeOK, SignTokens, At
  <2>2. req[s].user \in Users /\ users[req[s].user] \in Row /\ req[s].role \in Roles
    BY <2>1 DEF AInv, TypeOK, RequestsFormed, LoginsFormed, Exists
  <2>3. req' = [req EXCEPT ![s] = [req[s] EXCEPT !.at = "save", !.time = clock]]
    BY DEF SignTokens
  <2> QED BY <2>1, <2>2, <2>3, AuthProgress DEF AInv
<1> USE <1>a DEF At, history, SignTokens
<1>1. TypeOK'
  BY DEF AInv, TypeOK
<1>2. LoginsFormed'
  BY DEF AInv, TypeOK, RequestsFormed, LoginsFormed, Exists, Request
<1>3. RefreshesFormed'
  BY DEF AInv, TypeOK, RequestsFormed, RefreshesFormed, Request
<1>4. CreationsFormed'
  BY DEF AInv, TypeOK, RequestsFormed, CreationsFormed, Request
<1>5. UpdatesFormed'
  BY DEF AInv, TypeOK, RequestsFormed, UpdatesFormed, Exists, Request
<1>6. TokensFormed'
  BY DEF AInv, TypeOK, TokensFormed, Exists
<1>7. RolesRead'
  BY DEF AInv, TypeOK, RolesRead, Request
<1>8. InactiveLeftovers'
  BY DEF AInv, TypeOK, InactiveLeftovers, Request
<1>9. AccountsUnique'
  BY DEF AInv, AccountsUnique
<1>10. StaleRoleExpires'
  BY DEF AInv, TypeOK, StaleRoleExpires
<1> QED BY <1>1, <1>2, <1>3, <1>4, <1>5, <1>6, <1>7, <1>8, <1>9, <1>10
  DEF AInv, RequestsFormed

\* The tokens of a login date from when the password was checked.
LEMMA SaveTokenKeepsAInv ==
    ASSUME AInv, NEW s \in Sessions, NEW t \in Tokens, SaveToken(s, t)
    PROVE  AInv'
<1>e. End(s) /\ TypeOK
  BY DEF SaveToken, AInv
<1> USE <1>e, EndForgets, NoneAssumption, TimesAssumption DEF At, history, SaveToken, Alive
<1>1. TypeOK'
  BY NoRequestFormed
     DEF AInv, TypeOK, RequestsFormed, LoginsFormed, Exists, RefreshToken,
         AccessToken, Request
<1>2. LoginsFormed'
  BY DEF AInv, TypeOK, RequestsFormed, LoginsFormed, Exists, NoRequest
<1>3. RefreshesFormed'
  BY DEF AInv, TypeOK, RequestsFormed, RefreshesFormed, NoRequest
<1>4. CreationsFormed'
  BY DEF AInv, TypeOK, RequestsFormed, CreationsFormed, NoRequest
<1>5. UpdatesFormed'
  BY DEF AInv, TypeOK, RequestsFormed, UpdatesFormed, Exists, NoRequest
<1>6. TokensFormed'
  BY DEF AInv, TypeOK, TokensFormed, Exists, RequestsFormed, LoginsFormed, Request
<1>7. RolesRead'
  BY DEF AInv, TypeOK, RolesRead, NoRequest
<1>8. InactiveLeftovers'
  <2> SUFFICES ASSUME NEW u \in Users, users[u] # None, ~users[u].active
               PROVE  /\ \A x \in Sessions :
                            req'[x].at \in {"sign", "save"} /\ req'[x].user = u =>
                                \/ x \in overtaken'.active
                                \/ req'[x].at = "save" /\ req'[x].time <= since.inactive[u]
                      /\ \A x \in Tokens :
                            tokens'[x] # None /\ tokens'[x].user = u =>
                                \/ x \in strays'.refresh
                                \/ tokens'[x].expires <= since.inactive[u] + RefreshTTL
    BY DEF InactiveLeftovers
  <2>1. ASSUME NEW x \in Sessions, req'[x].at \in {"sign", "save"}, req'[x].user = u
        PROVE  \/ x \in overtaken'.active
               \/ req'[x].at = "save" /\ req'[x].time <= since.inactive[u]
    BY <2>1 DEF AInv, TypeOK, InactiveLeftovers, NoRequest
  <2>2. strays'.refresh = strays.refresh \cup {x \in {t} : s \in overtaken.active}
    OBVIOUS
  <2>3. ASSUME NEW x \in Tokens, x # t, tokens'[x] # None, tokens'[x].user = u
        PROVE  x \in strays'.refresh \/ tokens'[x].expires <= since.inactive[u] + RefreshTTL
    BY <2>2, <2>3 DEF AInv, TypeOK, InactiveLeftovers
  <2>4. ASSUME tokens'[t].user = u
        PROVE  t \in strays'.refresh \/ tokens'[t].expires <= since.inactive[u] + RefreshTTL
    <3>1. tokens'[t].expires = req[s].time + RefreshTTL /\ req[s].user = u
      BY <2>4 DEF AInv, TypeOK
    <3>2. req[s].time \in Nat /\ since.inactive[u] \in Nat
      BY DEF AInv, TypeOK, Request
    <3>3. s \in overtaken.active \/ req[s].time <= since.inactive[u]
      BY <3>1 DEF AInv, InactiveLeftovers
    <3> QED BY <2>2, <3>1, <3>2, <3>3
  <2> QED BY <2>1, <2>3, <2>4
<1>9. AccountsUnique'
  BY DEF AInv, AccountsUnique
<1>10. StaleRoleExpires'
  <2> DEFINE made == [user |-> req[s].user, role |-> req[s].role, exp |-> req[s].time + AccessTTL]
  <2> SUFFICES ASSUME NEW a \in access', a \notin strays'.access, a.role # users[a.user].role
               PROVE  a.exp <= since.role[a.user] + AccessTTL
    BY DEF StaleRoleExpires
  <2>1. a \in access \/ a = made
    OBVIOUS
  <2>2. a.exp >= clock
    OBVIOUS
  <2>3. a \notin strays.access /\ (a = made => s \notin overtaken.role)
    BY <2>2
  <2>4. CASE a \in access
    BY <2>3, <2>4 DEF AInv, StaleRoleExpires
  <2>5. CASE a = made
    <3>1. req[s].user \in Users /\ req[s].time \in Nat /\ clock \in Nat
      BY DEF AInv, TypeOK, RequestsFormed, LoginsFormed, Exists, Request
    <3>2. since.role[req[s].user] \in Nat
      BY <3>1 DEF AInv, TypeOK
    <3>3. \/ req[s].time <= since.role[req[s].user]
          \/ req[s].time + AccessTTL < clock
      BY <2>3, <2>5 DEF AInv, RolesRead
    <3> QED BY <2>2, <2>5, <3>1, <3>2, <3>3
  <2> QED BY <2>1, <2>4, <2>5
<1> QED BY <1>1, <1>2, <1>3, <1>4, <1>5, <1>6, <1>7, <1>8, <1>9, <1>10
  DEF AInv, RequestsFormed

\* A refresh reads a token that is not revoked.
LEMMA RefreshKeepsAInv ==
    ASSUME AInv, NEW s \in Sessions, NEW t \in Tokens, Refresh(s, t)
    PROVE  AInv'
<1> USE DEF At, history, Refresh, Begin, Idle
<1>1. TypeOK'
  <2>1. tokens[t].user \in Users
    BY DEF AInv, TypeOK, RefreshToken
  <2>2. "admin" \in Roles
    BY DEF Roles
  <2> QED BY <2>1, <2>2, AuthRequest DEF AInv, TypeOK
<1>2. LoginsFormed'
  BY DEF AInv, TypeOK, RequestsFormed, LoginsFormed, Exists
<1>3. RefreshesFormed'
  BY DEF AInv, TypeOK, RequestsFormed, RefreshesFormed
<1>4. CreationsFormed'
  BY DEF AInv, TypeOK, RequestsFormed, CreationsFormed
<1>5. UpdatesFormed'
  BY DEF AInv, TypeOK, RequestsFormed, UpdatesFormed, Exists
<1>6. TokensFormed'
  BY DEF AInv, TypeOK, TokensFormed, Exists
<1>7. RolesRead'
  BY DEF AInv, TypeOK, RolesRead
<1>8. InactiveLeftovers'
  BY DEF AInv, TypeOK, InactiveLeftovers
<1>9. AccountsUnique'
  BY DEF AInv, AccountsUnique
<1>10. StaleRoleExpires'
  BY DEF AInv, TypeOK, StaleRoleExpires
<1> QED BY <1>1, <1>2, <1>3, <1>4, <1>5, <1>6, <1>7, <1>8, <1>9, <1>10
  DEF AInv, RequestsFormed

\* A refresh that finds its token expired ends; another reads the role of its
\* user.
LEMMA ReadUserKeepsAInv ==
    ASSUME AInv, NEW s \in Sessions, ReadUser(s)
    PROVE  AInv'
<1> DEFINE r == req[s]
           next == [r EXCEPT !.at = "issue", !.role = users[r.user].role]
<1>a. /\ r \in Request /\ r.at = "user" /\ r.token \in Tokens
      /\ r.user \in Users /\ users[r.user].role \in Roles
      /\ next \in Request
  <2>1. r \in Request /\ r.at = "user"
    BY DEF AInv, TypeOK, ReadUser, At
  <2>2. r.token \in Tokens /\ tokens[r.token] # None /\ r.user = tokens[r.token].user
    BY <2>1 DEF AInv, RequestsFormed, RefreshesFormed
  <2>3. r.user \in Users /\ users[r.user] # None
    BY <2>2 DEF AInv, TokensFormed, Exists
  <2>4. users[r.user].role \in Roles
    BY <2>3 DEF AInv, TypeOK, Row
  <2> QED BY <2>1, <2>2, <2>3, <2>4, AuthProgress DEF AInv
<1>d. /\ next.at = "issue" /\ next.role = users[r.user].role
      /\ next.token = r.token /\ next.user = r.user
  BY <1>a DEF Request
<1>b. /\ UNCHANGED <<users, tokens, access, clock, since, strays>>
      /\ TypeOK
      /\ \/ End(s)
         \/ req' = [req EXCEPT ![s] = next] /\ overtaken' = overtaken
  BY DEF ReadUser, AInv, TypeOK
<1>c. /\ req' \in [Sessions -> Request]
      /\ req'[s] \in {NoRequest, next}
      /\ \A x \in Sessions \ {s} : req'[x] = req[x]
      /\ overtaken' \in [role: SUBSET Sessions, active: SUBSET Sessions,
                         revoked: SUBSET Sessions]
      /\ \A x \in Sessions \ {s} :
            /\ x \in overtaken.role <=> x \in overtaken'.role
            /\ x \in overtaken.active <=> x \in overtaken'.active
            /\ x \in overtaken.revoked <=> x \in overtaken'.revoked
      /\ req'[s] = NoRequest \/ overtaken' = overtaken
  <2>1. CASE End(s)
    BY <1>b, <2>1, EndForgets DEF TypeOK
  <2>2. CASE req' = [req EXCEPT ![s] = next] /\ overtaken' = overtaken
    BY <1>a, <1>b, <2>2 DEF TypeOK
  <2> QED BY <1>b, <2>1, <2>2
<1> HIDE DEF next
<1> USE <1>a, <1>b, <1>c, <1>d DEF At, history
<1>1. TypeOK'
  BY DEF AInv, TypeOK
<1>2. LoginsFormed'
  BY DEF AInv, TypeOK, RequestsFormed, LoginsFormed, Exists, NoRequest
<1>3. RefreshesFormed'
  BY DEF AInv, TypeOK, RequestsFormed, RefreshesFormed, NoRequest
<1>4. CreationsFormed'
  BY DEF AInv, TypeOK, RequestsFormed, CreationsFormed, NoRequest
<1>5. UpdatesFormed'
  BY DEF AInv, TypeOK, RequestsFormed, UpdatesFormed, Exists, NoRequest
<1>6. TokensFormed'
  BY DEF AInv, TypeOK, TokensFormed, Exists
<1>7. RolesRead'
  BY DEF AInv, TypeOK, RolesRead, NoRequest
<1>8. InactiveLeftovers'
  BY DEF AInv, TypeOK, InactiveLeftovers, NoRequest
<1>9. AccountsUnique'
  BY DEF AInv, AccountsUnique
<1>10. StaleRoleExpires'
  BY DEF AInv, TypeOK, StaleRoleExpires
<1> QED BY <1>1, <1>2, <1>3, <1>4, <1>5, <1>6, <1>7, <1>8, <1>9, <1>10
  DEF AInv, RequestsFormed

\* An access token got by a refresh names the role of now.
LEMMA IssueKeepsAInv ==
    ASSUME AInv, NEW s \in Sessions, Issue(s)
    PROVE  AInv'
<1>e. End(s) /\ TypeOK
  BY DEF Issue, AInv
<1> USE <1>e, EndForgets, TimesAssumption DEF At, history, Issue
<1>1. TypeOK'
  BY NoRequestFormed
     DEF AInv, TypeOK, RequestsFormed, RefreshesFormed, TokensFormed, Exists,
         AccessToken, Row
<1>2. LoginsFormed'
  BY DEF AInv, TypeOK, RequestsFormed, LoginsFormed, Exists, NoRequest
<1>3. RefreshesFormed'
  BY DEF AInv, TypeOK, RequestsFormed, RefreshesFormed, NoRequest
<1>4. CreationsFormed'
  BY DEF AInv, TypeOK, RequestsFormed, CreationsFormed, NoRequest
<1>5. UpdatesFormed'
  BY DEF AInv, TypeOK, RequestsFormed, UpdatesFormed, Exists, NoRequest
<1>6. TokensFormed'
  BY DEF AInv, TypeOK, TokensFormed, Exists, RequestsFormed, RefreshesFormed
<1>7. RolesRead'
  BY DEF AInv, TypeOK, RolesRead, NoRequest
<1>8. InactiveLeftovers'
  BY DEF AInv, TypeOK, InactiveLeftovers, NoRequest
<1>9. AccountsUnique'
  BY DEF AInv, AccountsUnique
<1>10. StaleRoleExpires'
  <2> DEFINE made == [user |-> req[s].user, role |-> req[s].role, exp |-> clock + AccessTTL]
  <2> SUFFICES ASSUME NEW a \in access', a \notin strays'.access, a.role # users[a.user].role
               PROVE  a.exp <= since.role[a.user] + AccessTTL
    BY DEF StaleRoleExpires
  <2>1. /\ a \in access \/ a = made
        /\ a \notin strays.access
        /\ a = made => s \notin overtaken.role
    BY DEF TypeOK
  <2>2. a # made
    BY <2>1 DEF AInv, RolesRead
  <2> QED BY <2>1, <2>2 DEF AInv, StaleRoleExpires
<1> QED BY <1>1, <1>2, <1>3, <1>4, <1>5, <1>6, <1>7, <1>8, <1>9, <1>10
  DEF AInv, RequestsFormed

\* A logout revokes, and marks who read the token before.
LEMMA LogoutKeepsAInv ==
    ASSUME AInv, NEW t \in Tokens, Logout(t)
    PROVE  AInv'
<1> USE NoneAssumption DEF At, history, Logout
<1>1. TypeOK'
  BY DEF AInv, TypeOK, RefreshToken
<1>2. LoginsFormed'
  BY DEF AInv, TypeOK, RequestsFormed, LoginsFormed, Exists
<1>3. RefreshesFormed'
  BY DEF AInv, TypeOK, RequestsFormed, RefreshesFormed, RefreshToken
<1>4. CreationsFormed'
  BY DEF AInv, TypeOK, RequestsFormed, CreationsFormed
<1>5. UpdatesFormed'
  BY DEF AInv, TypeOK, RequestsFormed, UpdatesFormed, Exists
<1>6. TokensFormed'
  BY DEF AInv, TypeOK, TokensFormed, Exists
<1>7. RolesRead'
  BY DEF AInv, TypeOK, RolesRead
<1>8. InactiveLeftovers'
  BY DEF AInv, TypeOK, InactiveLeftovers
<1>9. AccountsUnique'
  BY DEF AInv, AccountsUnique
<1>10. StaleRoleExpires'
  BY DEF AInv, TypeOK, StaleRoleExpires
<1> QED BY <1>1, <1>2, <1>3, <1>4, <1>5, <1>6, <1>7, <1>8, <1>9, <1>10
  DEF AInv, RequestsFormed

\* A creation starts.
LEMMA CreateUserKeepsAInv ==
    ASSUME AInv, NEW s \in Sessions, NEW actor \in Users, NEW row \in Creations,
           CreateUser(s, actor, row)
    PROVE  AInv'
<1> USE DEF At, history, CreateUser, Begin, Idle
<1>1. TypeOK'
  <2>1. row \in Row
    BY RequestsAssumption
  <2>2. NoPatch \in Patch
    BY DEF NoPatch, Patch
  <2> QED BY <2>1, <2>2, AdminRequest DEF AInv, TypeOK
<1>2. LoginsFormed'
  BY RequestsAssumption DEF AInv, TypeOK, RequestsFormed, LoginsFormed, Exists
<1>3. RefreshesFormed'
  BY RequestsAssumption DEF AInv, TypeOK, RequestsFormed, RefreshesFormed
<1>4. CreationsFormed'
  BY RequestsAssumption DEF AInv, TypeOK, RequestsFormed, CreationsFormed
<1>5. UpdatesFormed'
  BY RequestsAssumption DEF AInv, TypeOK, RequestsFormed, UpdatesFormed, Exists
<1>6. TokensFormed'
  BY DEF AInv, TypeOK, TokensFormed, Exists
<1>7. RolesRead'
  BY DEF AInv, TypeOK, RolesRead
<1>8. InactiveLeftovers'
  BY DEF AInv, TypeOK, InactiveLeftovers
<1>9. AccountsUnique'
  BY DEF AInv, AccountsUnique
<1>10. StaleRoleExpires'
  BY DEF AInv, TypeOK, StaleRoleExpires
<1> QED BY <1>1, <1>2, <1>3, <1>4, <1>5, <1>6, <1>7, <1>8, <1>9, <1>10
  DEF AInv, RequestsFormed

\* A creation moves on, or is refused.
LEMMA FindEmailKeepsAInv ==
    ASSUME AInv, NEW s \in Sessions, FindEmail(s)
    PROVE  AInv'
<1> USE DEF At, history, FindEmail
<1>1. TypeOK'
  BY NoRequestFormed DEF AInv, TypeOK, Request, Steps
<1>2. LoginsFormed'
  BY DEF AInv, TypeOK, RequestsFormed, LoginsFormed, Exists, NoRequest
<1>3. RefreshesFormed'
  BY DEF AInv, TypeOK, RequestsFormed, RefreshesFormed, NoRequest
<1>4. CreationsFormed'
  BY DEF AInv, TypeOK, RequestsFormed, CreationsFormed, NoRequest
<1>5. UpdatesFormed'
  BY DEF AInv, TypeOK, RequestsFormed, UpdatesFormed, Exists, NoRequest
<1>6. TokensFormed'
  BY DEF AInv, TypeOK, TokensFormed, Exists
<1>7. RolesRead'
  BY DEF AInv, TypeOK, RolesRead, NoRequest
<1>8. InactiveLeftovers'
  BY DEF AInv, TypeOK, InactiveLeftovers, NoRequest
<1>9. AccountsUnique'
  BY DEF AInv, AccountsUnique
<1>10. StaleRoleExpires'
  BY DEF AInv, TypeOK, StaleRoleExpires, NoRequest
<1> QED BY <1>1, <1>2, <1>3, <1>4, <1>5, <1>6, <1>7, <1>8, <1>9, <1>10
  DEF AInv, RequestsFormed

\* A row is inserted only when both of its unique columns are free.
LEMMA InsertUserKeepsAInv ==
    ASSUME AInv, NEW s \in Sessions, NEW u \in Users, InsertUser(s, u)
    PROVE  AInv'
<1>e. End(s) /\ TypeOK
  BY DEF InsertUser, AInv
<1> USE <1>e, EndForgets DEF At, history, InsertUser
<1>1. TypeOK'
  BY NoRequestFormed DEF AInv, TypeOK, RequestsFormed, CreationsFormed
<1>2. LoginsFormed'
  BY DEF AInv, TypeOK, RequestsFormed, LoginsFormed, Exists, NoRequest
<1>3. RefreshesFormed'
  BY DEF AInv, TypeOK, RequestsFormed, RefreshesFormed, NoRequest
<1>4. CreationsFormed'
  BY DEF AInv, TypeOK, RequestsFormed, CreationsFormed, NoRequest
<1>5. UpdatesFormed'
  BY DEF AInv, TypeOK, RequestsFormed, UpdatesFormed, Exists, NoRequest
<1>6. TokensFormed'
  BY DEF AInv, TypeOK, TokensFormed, Exists
<1>7. RolesRead'
  BY DEF AInv, TypeOK, RolesRead, RequestsFormed, LoginsFormed, RefreshesFormed,
         TokensFormed, Exists, NoRequest
<1>8. InactiveLeftovers'
  BY DEF AInv, TypeOK, InactiveLeftovers, RequestsFormed, LoginsFormed, TokensFormed,
         Exists, NoRequest
<1>9. AccountsUnique'
  BY DEF AInv, AccountsUnique, TypeOK, UsernameTaken, EmailTaken
<1>10. StaleRoleExpires'
  BY DEF AInv, TypeOK, StaleRoleExpires, TokensFormed, Exists
<1> QED BY <1>1, <1>2, <1>3, <1>4, <1>5, <1>6, <1>7, <1>8, <1>9, <1>10
  DEF AInv, RequestsFormed

\* An update starts: its UPDATE names columns of its body.
LEMMA UpdateUserKeepsAInv ==
    ASSUME AInv, NEW s \in Sessions, NEW actor \in Users, NEW u \in Users,
           NEW patch \in Patches, UpdateUser(s, actor, u, patch)
    PROVE  AInv'
<1> DEFINE sets == Changes(users[u], patch)
<1>a. /\ users[u] \in Row /\ patch \in Patch /\ sets \in Patch
      /\ \A k \in Columns : sets[k] \in {None, patch[k]}
  BY RequestsAssumption, ChangesNamed DEF UpdateUser, AInv, TypeOK
<1>b. u = actor => SelfAllowed(sets)
  BY <1>a, NoneAssumption DEF UpdateUser, SelfAllowed, Columns, Roles
<1> USE DEF At, history, UpdateUser, Begin, Idle
<1>1. TypeOK'
  BY <1>a, AdminRequest DEF AInv, TypeOK
<1>2. LoginsFormed'
  BY <1>a DEF AInv, TypeOK, RequestsFormed, LoginsFormed, Exists
<1>3. RefreshesFormed'
  BY DEF AInv, TypeOK, RequestsFormed, RefreshesFormed
<1>4. CreationsFormed'
  BY DEF AInv, TypeOK, RequestsFormed, CreationsFormed
<1>5. UpdatesFormed'
  BY <1>a, <1>b DEF AInv, TypeOK, RequestsFormed, UpdatesFormed, Exists
<1>6. TokensFormed'
  BY DEF AInv, TypeOK, TokensFormed, Exists
<1>7. RolesRead'
  BY DEF AInv, TypeOK, RolesRead
<1>8. InactiveLeftovers'
  BY DEF AInv, TypeOK, InactiveLeftovers
<1>9. AccountsUnique'
  BY DEF AInv, AccountsUnique
<1>10. StaleRoleExpires'
  BY DEF AInv, TypeOK, StaleRoleExpires
<1> QED BY <1>1, <1>2, <1>3, <1>4, <1>5, <1>6, <1>7, <1>8, <1>9, <1>10
  DEF AInv, RequestsFormed

\* A role that changes leaves tokens made no later than now, and so does a
\* deactivation.
LEMMA CommitPatchKeepsAInv ==
    ASSUME AInv, NEW s \in Sessions, CommitPatch(s)
    PROVE  AInv'
<1> DEFINE u == req[s].user
           row == Written(users[u], req[s].sets)
<1>a. /\ u \in Users /\ users[u] \in Row /\ row \in Row
      /\ row.username = users[u].username /\ row.email = users[u].email
      /\ users' = [users EXCEPT ![u] = row]
      /\ since' = [since EXCEPT
                     !.role[u] = IF row.role # users[u].role THEN clock ELSE @,
                     !.inactive[u] = IF row.active # FALSE THEN 0
                                     ELSE IF users[u].active THEN clock ELSE @]
      /\ req' = [req EXCEPT ![s] = NoRequest]
      /\ UNCHANGED <<tokens, access, clock, strays>>
  <2>1. u \in Users /\ users[u] \in Row /\ req[s].sets \in Patch
    BY DEF CommitPatch, At, AInv, TypeOK, RequestsFormed, UpdatesFormed, Exists,
           Request
  <2>2. row \in Row /\ row.username = users[u].username /\ row.email = users[u].email
    BY <2>1, WrittenIsRow DEF Written, Row
  <2> QED BY <2>1, <2>2 DEF CommitPatch
<1>e. /\ overtaken' \in [role: SUBSET Sessions, active: SUBSET Sessions,
                         revoked: SUBSET Sessions]
      /\ overtaken.role \subseteq overtaken'.role
      /\ overtaken.active \subseteq overtaken'.active
      /\ overtaken.revoked = overtaken'.revoked
  BY DEF CommitPatch, Holding, AInv, TypeOK
<1>f. \A x \in Sessions :
         /\ /\ req[x].at \in {"sign", "issue"} /\ req[x].user = u
            /\ row.role # users[u].role
            => x \in overtaken'.role
         /\ /\ req[x].at = "sign" /\ req[x].user = u
            /\ row.active # users[u].active
            => x \in overtaken'.active
  BY DEF CommitPatch, Holding, AInv, TypeOK
<1> HIDE DEF row
<1> USE <1>e, <1>f, NoneAssumption, NoRequestFormed DEF At, history
<1>1. TypeOK'
  BY <1>a, NoRequestFormed DEF AInv, TypeOK
<1>2. LoginsFormed'
  BY <1>a DEF AInv, TypeOK, RequestsFormed, LoginsFormed, Exists, NoRequest
<1>3. RefreshesFormed'
  BY <1>a DEF AInv, TypeOK, RequestsFormed, RefreshesFormed, NoRequest
<1>4. CreationsFormed'
  BY <1>a DEF AInv, TypeOK, RequestsFormed, CreationsFormed, NoRequest
<1>5. UpdatesFormed'
  BY <1>a DEF AInv, TypeOK, RequestsFormed, UpdatesFormed, Exists, NoRequest
<1>6. TokensFormed'
  BY <1>a DEF AInv, TypeOK, TokensFormed, Exists
<1>7. RolesRead'
  <2> SUFFICES ASSUME NEW x \in Sessions, req'[x].at \in {"sign", "save", "issue"},
                      req'[x].role # users'[req'[x].user].role
               PROVE  \/ x \in overtaken'.role
                      \/ /\ req'[x].at = "save"
                         /\ \/ req'[x].time <= since'.role[req'[x].user]
                            \/ req'[x].time + AccessTTL < clock
    BY <1>a DEF RolesRead
  <2> DEFINE r == req[x]
  <2>1. x # s /\ req'[x] = r
    BY <1>a DEF AInv, TypeOK, NoRequest
  <2>2. clock \in Nat /\ (r.at = "save" => r.time <= clock /\ r.time \in Nat /\ r.user \in Users)
    BY <2>1 DEF AInv, TypeOK, RequestsFormed, LoginsFormed, Exists, Request
  <2>3. CASE r.role # users[r.user].role
    <3>1. since'.role[r.user] = since.role[r.user] \/ since'.role[r.user] = clock \/ r.user \notin Users
      BY <1>a DEF AInv, TypeOK
    <3>2. \/ x \in overtaken.role
          \/ r.at = "save" /\ (r.time <= since.role[r.user] \/ r.time + AccessTTL < clock)
      BY <2>1, <2>3 DEF AInv, RolesRead
    <3> QED BY <2>1, <2>2, <3>1, <3>2
  <2>4. CASE r.role = users[r.user].role
    <3>1. r.user = u /\ row.role # users[u].role
      BY <1>a, <2>1, <2>4 DEF AInv, TypeOK
    <3>2. since'.role[u] = clock
      BY <1>a, <3>1 DEF AInv, TypeOK
    <3> QED BY <2>1, <2>2, <3>1, <3>2
  <2> QED BY <2>3, <2>4
<1>8. InactiveLeftovers'
  <2> SUFFICES ASSUME NEW v \in Users, users'[v] # None, ~users'[v].active
               PROVE  /\ \A x \in Sessions :
                            req'[x].at \in {"sign", "save"} /\ req'[x].user = v =>
                                \/ x \in overtaken'.active
                                \/ req'[x].at = "save" /\ req'[x].time <= since'.inactive[v]
                      /\ \A t \in Tokens :
                            tokens[t] # None /\ tokens[t].user = v =>
                                \/ t \in strays.refresh
                                \/ tokens[t].expires <= since'.inactive[v] + RefreshTTL
    BY <1>a DEF InactiveLeftovers
  <2>1. clock \in Nat /\ users[v] # None
    BY <1>a DEF AInv, TypeOK
  <2>2. \/ v = u /\ users[u].active /\ since'.inactive[v] = clock
        \/ ~users[v].active /\ since'.inactive[v] = since.inactive[v]
    BY <1>a DEF AInv, TypeOK, Row
  <2>3. ASSUME NEW x \in Sessions, req'[x].at \in {"sign", "save"}, req'[x].user = v
        PROVE  \/ x \in overtaken'.active
               \/ req'[x].at = "save" /\ req'[x].time <= since'.inactive[v]
    <3>1. x # s /\ req'[x] = req[x]
      BY <1>a, <2>3 DEF AInv, TypeOK, NoRequest
    <3>2. req[x].time <= clock
      BY <2>3, <3>1 DEF AInv, RequestsFormed, LoginsFormed
    <3>3. CASE ~users[v].active
      BY <2>1, <2>2, <2>3, <3>1, <3>3 DEF AInv, InactiveLeftovers
    <3>4. CASE users[v].active
      <4>1. v = u /\ row.active # users[u].active /\ since'.inactive[v] = clock
        BY <1>a, <2>2, <3>4 DEF AInv, TypeOK
      <4> QED BY <2>3, <3>1, <3>2, <4>1
    <3> QED BY <3>3, <3>4
  <2>4. ASSUME NEW t \in Tokens, tokens[t] # None, tokens[t].user = v
        PROVE  \/ t \in strays.refresh
               \/ tokens[t].expires <= since'.inactive[v] + RefreshTTL
    BY <2>1, <2>2, <2>4 DEF AInv, TokensFormed, InactiveLeftovers
  <2> QED BY <2>3, <2>4
<1>9. AccountsUnique'
  BY <1>a DEF AInv, AccountsUnique, TypeOK
<1>10. StaleRoleExpires'
  BY <1>a DEF AInv, TypeOK, StaleRoleExpires, TokensFormed
<1> QED BY <1>1, <1>2, <1>3, <1>4, <1>5, <1>6, <1>7, <1>8, <1>9, <1>10
  DEF AInv, RequestsFormed

\* A request that fails leaves nothing behind.
LEMMA FailKeepsAInv ==
    ASSUME AInv, NEW s \in Sessions, Fail(s)
    PROVE  AInv'
<1>e. End(s) /\ TypeOK
  BY DEF Fail, AInv
<1> USE <1>e, EndForgets DEF At, history, Fail
<1>1. TypeOK'
  BY NoRequestFormed DEF AInv, TypeOK
<1>2. LoginsFormed'
  BY DEF AInv, TypeOK, RequestsFormed, LoginsFormed, Exists, NoRequest
<1>3. RefreshesFormed'
  BY DEF AInv, TypeOK, RequestsFormed, RefreshesFormed, NoRequest
<1>4. CreationsFormed'
  BY DEF AInv, TypeOK, RequestsFormed, CreationsFormed, NoRequest
<1>5. UpdatesFormed'
  BY DEF AInv, TypeOK, RequestsFormed, UpdatesFormed, Exists, NoRequest
<1>6. TokensFormed'
  BY DEF AInv, TypeOK, TokensFormed, Exists
<1>7. RolesRead'
  BY DEF AInv, TypeOK, RolesRead, NoRequest
<1>8. InactiveLeftovers'
  BY DEF AInv, TypeOK, InactiveLeftovers, NoRequest
<1>9. AccountsUnique'
  BY DEF AInv, AccountsUnique
<1>10. StaleRoleExpires'
  BY DEF AInv, TypeOK, StaleRoleExpires
<1> QED BY <1>1, <1>2, <1>3, <1>4, <1>5, <1>6, <1>7, <1>8, <1>9, <1>10
  DEF AInv, RequestsFormed

LEMMA StutterKeepsAInv ==
    ASSUME AInv, UNCHANGED vars
    PROVE  AInv'
BY DEF vars, history, AInv, TypeOK, RequestsFormed, LoginsFormed, RefreshesFormed,
       CreationsFormed, UpdatesFormed, TokensFormed, RolesRead,
       InactiveLeftovers, AccountsUnique, StaleRoleExpires, Exists, At

LEMMA NextKeepsAInv == AInv /\ [Next]_vars => AInv'
<1> SUFFICES ASSUME AInv, [Next]_vars
             PROVE  AInv'
  OBVIOUS
<1>1. CASE Tick
  BY <1>1, TickKeepsAInv
<1>2. CASE \E t \in Tokens : Logout(t)
  BY <1>2, LogoutKeepsAInv
<1>3. ASSUME NEW s \in Sessions, AuthStep(s)
      PROVE  AInv'
  BY <1>3, LoginKeepsAInv, SignTokensKeepsAInv, SaveTokenKeepsAInv, RefreshKeepsAInv,
     ReadUserKeepsAInv, IssueKeepsAInv
     DEF AuthStep
<1>4. ASSUME NEW s \in Sessions, AdminStep(s)
      PROVE  AInv'
  BY <1>4, CreateUserKeepsAInv, FindEmailKeepsAInv, InsertUserKeepsAInv,
     UpdateUserKeepsAInv, CommitPatchKeepsAInv
     DEF AdminStep
<1>5. CASE \E s \in Sessions : Fail(s)
  BY <1>5, FailKeepsAInv
<1>6. CASE UNCHANGED vars
  BY <1>6, StutterKeepsAInv
<1> QED BY <1>1, <1>2, <1>3, <1>4, <1>5, <1>6 DEF Next

(***************************************************************************)
(* The theorems                                                            *)
(***************************************************************************)
\* The inductive invariant holds in every reachable state.
THEOREM AInvAlways == Spec => []AInv
<1>1. Init => AInv
  BY InitEstablishesAInv
<1>2. AInv /\ [Next]_vars => AInv'
  BY NextKeepsAInv
<1> QED BY <1>1, <1>2, PTL DEF Spec

\* Every variable keeps its type, whatever requests overlap.
THEOREM TypesKept == Spec => []TypeOK
<1>1. AInv => TypeOK
  BY DEF AInv
<1> QED BY <1>1, AInvAlways, PTL

\* No two accounts ever share a username or an email, however many creations
\* found them free at the same time.
THEOREM AccountsStayUnique == Spec => []AccountsUnique
<1>1. AInv => AccountsUnique
  BY DEF AInv
<1> QED BY <1>1, AInvAlways, PTL

\* A role that was taken away is worth at most one more AccessTTL, for any
\* overlap of logins, refreshes and updates, but to a request that had read it.
THEOREM StaleRolesExpire == Spec => []StaleRoleExpires
<1>1. AInv => StaleRoleExpires
  BY DEF AInv
<1> QED BY <1>1, AInvAlways, PTL

\* Access tokens are handed out by logins and refreshes only, each to the user
\* of the request, which ends.
LEMMA AccessComesFrom ==
    ASSUME AInv, [Next]_vars, NEW a \in access' \ access
    PROVE  \E s \in Sessions : /\ At(s, "save") \/ At(s, "issue")
                              /\ a.user = req[s].user /\ Idle(s)'
<1>1. ASSUME NEW s \in Sessions, NEW t \in Tokens, SaveToken(s, t)
      PROVE  At(s, "save") /\ a.user = req[s].user /\ End(s)
  BY <1>1 DEF SaveToken, Alive
<1>2. ASSUME NEW s \in Sessions, Issue(s)
      PROVE  At(s, "issue") /\ a.user = req[s].user /\ End(s)
  BY <1>2 DEF Issue
<1>3. CASE access' \subseteq access
  BY <1>3
<1>4. \/ \E s \in Sessions, t \in Tokens : SaveToken(s, t)
      \/ \E s \in Sessions : Issue(s)
      \/ access' \subseteq access
  <2>1. CASE Tick
    BY <2>1 DEF Tick
  <2>2. CASE \E t \in Tokens : Logout(t)
    BY <2>2 DEF Logout
  <2>3. CASE \E s \in Sessions : AuthStep(s)
    BY <2>3 DEF AuthStep, Login, SignTokens, Refresh, ReadUser
  <2>4. CASE \E s \in Sessions : AdminStep(s)
    BY <2>4
       DEF AdminStep, CreateUser, FindEmail, InsertUser, UpdateUser, CommitPatch
  <2>5. CASE \E s \in Sessions : Fail(s)
    BY <2>5 DEF Fail
  <2>6. CASE UNCHANGED vars
    BY <2>6 DEF vars
  <2> QED BY <2>1, <2>2, <2>3, <2>4, <2>5, <2>6 DEF Next
<1>5. \A s \in Sessions : End(s) => Idle(s)'
  BY DEF AInv, TypeOK, End, Idle
<1> QED BY <1>1, <1>2, <1>3, <1>4, <1>5

\* After a deactivation, a user's new access tokens all go back to a row that
\* was read before it.
THEOREM InactiveAccessAlwaysEnds == Spec => InactiveAccessEnds
<1> DEFINE Leftover(s, u) ==
              /\ req[s].user = u /\ Idle(s)'
              /\ \/ /\ At(s, "save")
                    /\ s \in overtaken.active \/ req[s].time <= since.inactive[u]
                 \/ /\ At(s, "issue")
                    /\ \/ req[s].token \in strays.refresh
                       \/ tokens[req[s].token].expires <= since.inactive[u] + RefreshTTL
           Ends == \A a \in access' \ access :
                      ~users[a.user].active => \E s \in Sessions : Leftover(s, a.user)
<1>1. AInv /\ [Next]_vars => Ends
  <2> SUFFICES ASSUME AInv, [Next]_vars, NEW a \in access' \ access, ~users[a.user].active
               PROVE  \E s \in Sessions : Leftover(s, a.user)
    OBVIOUS
  <2>1. PICK s \in Sessions : /\ At(s, "save") \/ At(s, "issue")
                             /\ a.user = req[s].user /\ Idle(s)'
    BY AccessComesFrom
  <2>2. CASE At(s, "save")
    <3>1. a.user \in Users /\ users[a.user] # None
      BY <2>1, <2>2 DEF AInv, RequestsFormed, LoginsFormed, Exists, At
    <3>2. s \in overtaken.active \/ req[s].time <= since.inactive[a.user]
      BY <2>1, <2>2, <3>1 DEF AInv, InactiveLeftovers, At
    <3> QED BY <2>1, <2>2, <3>2
  <2>3. CASE At(s, "issue")
    <3> DEFINE t == req[s].token
    <3>1. t \in Tokens /\ tokens[t] # None /\ a.user = tokens[t].user
      BY <2>1, <2>3 DEF AInv, RequestsFormed, RefreshesFormed, At
    <3>2. a.user \in Users /\ users[a.user] # None
      BY <3>1 DEF AInv, TokensFormed, Exists
    <3>3. t \in strays.refresh \/ tokens[t].expires <= since.inactive[a.user] + RefreshTTL
      BY <3>1, <3>2 DEF AInv, InactiveLeftovers
    <3> QED BY <2>1, <2>3, <3>3
  <2> QED BY <2>1, <2>2, <2>3
<1>2. AInv /\ [Next]_vars => [Ends]_vars
  BY <1>1
<1> QED BY <1>2, AInvAlways, PTL DEF Spec, InactiveAccessEnds

\* A revoked refresh token yields nothing to who asks after the logout.
THEOREM LogoutAlwaysEndsAccess == Spec => LogoutEndsAccess
<1>1. AInv => \A s \in Sessions :
                 Issue(s) /\ tokens[req[s].token].revoked => s \in overtaken.revoked
  BY DEF AInv, RequestsFormed, RefreshesFormed, Issue, At
<1> QED BY <1>1, AInvAlways, PTL DEF Spec, LogoutEndsAccess

\* Rows are written by inserts, into ids that are free, and by updates.
LEMMA RowsWrittenBy ==
    ASSUME [Next]_vars, TypeOK, NEW u \in Users, users[u] # None, users'[u] # users[u]
    PROVE  \E s \in Sessions : CommitPatch(s) /\ req[s].user = u
<1>1. CASE \E s \in Sessions, v \in Users : InsertUser(s, v)
  BY <1>1 DEF InsertUser, TypeOK
<1>2. CASE \E s \in Sessions : CommitPatch(s)
  BY <1>2 DEF CommitPatch, TypeOK
<1>3. CASE users' = users
  BY <1>3
<1>4. \/ \E s \in Sessions, v \in Users : InsertUser(s, v)
      \/ \E s \in Sessions : CommitPatch(s)
      \/ users' = users
  <2>1. CASE Tick \/ \E t \in Tokens : Logout(t)
    BY <2>1 DEF Tick, Logout
  <2>2. CASE \E s \in Sessions : AuthStep(s)
    BY <2>2 DEF AuthStep, Login, SignTokens, SaveToken, Refresh, ReadUser, Issue
  <2>3. CASE \E s \in Sessions : AdminStep(s)
    BY <2>3 DEF AdminStep, CreateUser, FindEmail, UpdateUser
  <2>4. CASE \E s \in Sessions : Fail(s)
    BY <2>4 DEF Fail
  <2>5. CASE UNCHANGED vars
    BY <2>5 DEF vars
  <2> QED BY <2>1, <2>2, <2>3, <2>4, <2>5 DEF Next
<1> QED BY <1>1, <1>2, <1>3, <1>4

\* What an update leaves of a row: each column as it was, or as the body says.
LEMMA CommitWrites ==
    ASSUME AInv, NEW s \in Sessions, CommitPatch(s)
    PROVE  LET u == req[s].user
           IN  /\ At(s, "patch") /\ At(s, "patch")' = FALSE
               /\ u \in Users /\ users[u] # None /\ users'[u] # None
               /\ \A k \in Columns :
                     users'[u][k] = IF req[s].sets[k] = None THEN users[u][k]
                                    ELSE req[s].sets[k]
<1> DEFINE u == req[s].user
<1>1. /\ u \in Users /\ users[u] # None /\ users[u] \in Row
      /\ req[s].sets \in Patch
  BY DEF CommitPatch, AInv, TypeOK, RequestsFormed, UpdatesFormed, Exists, Request
<1>2. users'[u] = Written(users[u], req[s].sets)
  BY <1>1 DEF CommitPatch, AInv, TypeOK
<1>3. users'[u] \in Row
  BY <1>1, <1>2, WrittenIsRow
<1>4. \A k \in Columns :
         users'[u][k] = IF req[s].sets[k] = None THEN users[u][k] ELSE req[s].sets[k]
  BY <1>1, <1>2 DEF Written, Columns, Row, Patch
<1>5. At(s, "patch") /\ At(s, "patch")' = FALSE
  BY DEF CommitPatch, End, At, AInv, TypeOK, NoRequest
<1> QED BY <1>1, <1>3, <1>4, <1>5, NoneAssumption

\* Whoever still administers the system cannot end its administration.
THEOREM AdministrationStays == Spec => OnlyStaleAdminsEndAdministration
<1> DEFINE Stays ==
      ActiveAdmins # {} /\ ActiveAdmins' = {} =>
          \E s \in Sessions :
             At(s, "patch") /\ ~At(s, "patch")' /\ req[s].actor \notin ActiveAdmins
<1>1. ASSUME AInv, [Next]_vars, ActiveAdmins # {}, ActiveAdmins' = {}
      PROVE  \E s \in Sessions :
                At(s, "patch") /\ ~At(s, "patch")' /\ req[s].actor \notin ActiveAdmins
  <2>1. PICK v \in Users : v \in ActiveAdmins
    BY <1>1 DEF ActiveAdmins
  <2>2. users[v] # None /\ users'[v] # users[v]
    BY <1>1, <2>1 DEF ActiveAdmins
  <2>3. PICK s \in Sessions : CommitPatch(s) /\ req[s].user = v
    BY <1>1, <2>2, RowsWrittenBy DEF AInv
  <2>4. At(s, "patch") /\ ~At(s, "patch")'
    BY <1>1, <2>3, CommitWrites
  <2>5. ASSUME req[s].actor \in ActiveAdmins
        PROVE  FALSE
    <3> DEFINE actor == req[s].actor
    <3>1. actor \in Users /\ users[actor] # None /\ users[actor].active
          /\ users[actor].role = "admin"
      BY <2>5 DEF ActiveAdmins
    <3>2. CASE actor # v
      <4>1. users'[actor] = users[actor]
        BY <1>1, <2>3, <3>1, <3>2 DEF CommitPatch, AInv, TypeOK
      <4> QED BY <1>1, <3>1, <4>1 DEF ActiveAdmins
    <3>3. CASE actor = v
      <4>1. SelfAllowed(req[s].sets)
        BY <1>1, <2>3, <2>4, <3>3 DEF AInv, RequestsFormed, UpdatesFormed
      <4>2. req[s].sets \in Patch
        BY <1>1 DEF AInv, TypeOK, Request
      <4>3. /\ users'[v].role = IF req[s].sets.role = None THEN users[v].role
                                ELSE req[s].sets.role
            /\ users'[v].active = IF req[s].sets.active = None THEN users[v].active
                                  ELSE req[s].sets.active
            /\ users'[v] # None
        BY <1>1, <2>3, CommitWrites DEF Columns
      <4>4. users'[v].role = "admin" /\ users'[v].active
        BY <3>1, <3>3, <4>1, <4>2, <4>3 DEF SelfAllowed, Patch, Roles
      <4> QED BY <1>1, <4>3, <4>4 DEF ActiveAdmins
    <3> QED BY <3>2, <3>3
  <2> QED BY <2>4, <2>5
<1>2. AInv /\ [Next]_vars => [Stays]_vars
  BY <1>1
<1> QED BY <1>2, AInvAlways, PTL DEF Spec, OnlyStaleAdminsEndAdministration

\* A column changes only to what a request for it asked.
THEOREM PatchesAlwaysMerge == Spec => PatchesMerge
<1> DEFINE Merge ==
      \A u \in Users : \A k \in Columns :
          users[u] # None /\ users'[u][k] # users[u][k] =>
             \E s \in Sessions :
                /\ At(s, "patch") /\ req[s].user = u
                /\ req[s].body[k] = users'[u][k]
<1>1. ASSUME AInv, [Next]_vars, NEW u \in Users, NEW k \in Columns,
             users[u] # None, users'[u][k] # users[u][k]
      PROVE  \E s \in Sessions :
                At(s, "patch") /\ req[s].user = u /\ req[s].body[k] = users'[u][k]
  <2>1. PICK s \in Sessions : CommitPatch(s) /\ req[s].user = u
    BY <1>1, RowsWrittenBy DEF AInv
  <2>2. /\ At(s, "patch")
        /\ users'[u][k] = IF req[s].sets[k] = None THEN users[u][k] ELSE req[s].sets[k]
    BY <1>1, <2>1, CommitWrites
  <2>3. req[s].sets[k] \in {None, req[s].body[k]}
    BY <1>1, <2>2 DEF AInv, RequestsFormed, UpdatesFormed
  <2> QED BY <1>1, <2>1, <2>2, <2>3
<1>2. AInv /\ [Next]_vars => [Merge]_vars
  BY <1>1
<1> QED BY <1>2, AInvAlways, PTL DEF Spec, PatchesMerge
=============================================================================
