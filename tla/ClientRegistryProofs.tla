------------------------ MODULE ClientRegistryProofs ------------------------
(***************************************************************************)
(* Machine-checked proofs about ClientRegistry, for any clients, requests  *)
(* and faults and a pool of any size.                                      *)
(***************************************************************************)
EXTENDS ClientRegistry, TLAPS

(***************************************************************************)
(* The values the steps build                                              *)
(***************************************************************************)
LEMMA NoRequestFormed == NoRequest \in Request
BY DEF NoRequest, NoPatch, Request, Patch, Steps

\* The requests callers send.
LEMMA CreateRequest ==
    ASSUME NEW c \in Clients, NEW n \in Names
    PROVE  [NoRequest EXCEPT !.at = "find", !.client = c,
                             !.want = [name |-> n, active |-> TRUE]] \in Request
BY DEF NoRequest, NoPatch, Request, Patch, Steps, Row

LEMMA UpdateRequest ==
    ASSUME NEW c \in Clients, NEW patch \in Patch
    PROVE  [NoRequest EXCEPT !.at = "find", !.client = c, !.patch = patch] \in Request
BY DEF NoRequest, NoPatch, Request, Patch, Steps

\* A request that moves on is still one.
LEMMA RequestUpdate ==
    ASSUME NEW r \in Request, NEW at \in Steps, NEW rows \in Table \cup {None},
           NEW seen \in Row \cup {None}
    PROVE  /\ [r EXCEPT !.at = at] \in Request
           /\ [r EXCEPT !.at = at, !.rows = rows] \in Request
           /\ [r EXCEPT !.at = at, !.seen = seen] \in Request
BY DEF Request

\* What an update writes is a row.
LEMMA WrittenIsRow ==
    ASSUME TypeOK, NEW s \in Sessions, req[s].client \in Clients,
           clients[req[s].client] \in Row
    PROVE  Written(s) \in Row
<1> DEFINE row == clients[req[s].client]
           patch == req[s].patch
<1>1. patch \in Patch
  BY DEF TypeOK, Request
<1>2. \A k \in {"name", "active"} :
         Written(s)[k] = IF patch[k] \notin {None, req[s].seen[k]} THEN patch[k] ELSE row[k]
  BY DEF Written, Changed
<1>3. Written(s).name \in Names /\ Written(s).active \in BOOLEAN
  BY <1>1, <1>2 DEF Patch, Row
<1>4. Written(s) = [name |-> Written(s).name, active |-> Written(s).active]
  BY DEF Written
<1> QED BY <1>3, <1>4 DEF Row

\* An UPDATE of no column leaves the row as it is.
LEMMA NothingWritten ==
    ASSUME NEW s \in Sessions, clients[req[s].client] \in Row, Changed(s) = {}
    PROVE  Written(s) = clients[req[s].client]
BY DEF Written, Row

(***************************************************************************)
(* Every action preserves RInv                                             *)
(***************************************************************************)
LEMMA InitEstablishesRInv == Init => RInv
<1> SUFFICES ASSUME Init PROVE RInv
  OBVIOUS
<1> USE DEF Init
<1>1. TypeOK
  <2>1. clients \in Table
    BY DEF Table, Row
  <2> QED BY <2>1, NoRequestFormed DEF TypeOK
<1>2. RequestsFormed /\ RowsKnown /\ ReadsCurrent
  BY DEF RequestsFormed, RowsKnown, ReadsCurrent, NoRequest, At
<1>3. LockHoldersConnected /\ ListHasCause
  BY DEF LockHoldersConnected, ListHasCause
<1> QED BY <1>1, <1>2, <1>3 DEF RInv

\* Requests that end take what they hold with them, and leave no trace in what
\* the others hold.
LEMMA CloseKeepsRequests ==
    ASSUME RInv, NEW S \in SUBSET Sessions, Close(S), clients' = clients,
           overtaken' \subseteq overtaken, overtaken \ S \subseteq overtaken'
    PROVE  /\ req' \in [Sessions -> Request] /\ connected' \subseteq Sessions
           /\ writer' \in [Clients -> Sessions \cup {None}]
           /\ RequestsFormed' /\ RowsKnown' /\ ReadsCurrent' /\ LockHoldersConnected'
<1> USE DEF Close, NoRequest, At
<1>1. req' \in [Sessions -> Request] /\ connected' \subseteq Sessions
  BY NoRequestFormed DEF RInv, TypeOK
<1>2. writer' \in [Clients -> Sessions \cup {None}]
  BY DEF RInv, TypeOK
<1>3. RequestsFormed'
  BY DEF RInv, RequestsFormed, Creates
<1>4. RowsKnown'
  BY DEF RInv, RequestsFormed, RowsKnown, Creates, Changed
<1>5. ReadsCurrent'
  BY DEF RInv, ReadsCurrent, Creates
<1>6. LockHoldersConnected'
  BY NoneAssumption DEF RInv, TypeOK, LockHoldersConnected
<1> QED BY <1>1, <1>2, <1>3, <1>4, <1>5, <1>6

\* A hit is answered.
LEMMA ListHitKeepsRInv ==
    ASSUME RInv, NEW s \in Sessions, ListHit(s)
    PROVE  RInv'
<1>1. /\ Close({s}) /\ clients' = clients
      /\ overtaken' \subseteq overtaken /\ overtaken \ {s} \subseteq overtaken'
  BY DEF ListHit, history
<1>2. /\ req' \in [Sessions -> Request] /\ connected' \subseteq Sessions
      /\ writer' \in [Clients -> Sessions \cup {None}]
      /\ RequestsFormed' /\ RowsKnown' /\ ReadsCurrent' /\ LockHoldersConnected'
  BY <1>1, CloseKeepsRequests
<1>3. TypeOK'
  BY <1>1, <1>2 DEF RInv, TypeOK, Close, ListHit, history
<1>4. ListHasCause'
  BY <1>1 DEF RInv, ListHasCause, OwesEviction, Close, At, ListHit, history
<1> QED BY <1>2, <1>3, <1>4 DEF RInv

\* 409 and 404 leave nothing.
LEMMA FindRefusesKeepsRInv ==
    ASSUME RInv, NEW s \in Sessions, FindRefuses(s)
    PROVE  RInv'
<1>1. /\ Close({s}) /\ clients' = clients
      /\ overtaken' \subseteq overtaken /\ overtaken \ {s} \subseteq overtaken'
  BY DEF FindRefuses, history
<1>2. /\ req' \in [Sessions -> Request] /\ connected' \subseteq Sessions
      /\ writer' \in [Clients -> Sessions \cup {None}]
      /\ RequestsFormed' /\ RowsKnown' /\ ReadsCurrent' /\ LockHoldersConnected'
  BY <1>1, CloseKeepsRequests
<1>3. TypeOK'
  BY <1>1, <1>2 DEF RInv, TypeOK, Close, FindRefuses, history
<1>4. ListHasCause'
  BY <1>1 DEF RInv, ListHasCause, OwesEviction, Close, At, FindRefuses, history
<1> QED BY <1>2, <1>3, <1>4 DEF RInv

\* A listing stores what is current, unless it was overtaken.
LEMMA StoreKeepsRInv ==
    ASSUME RInv, NEW s \in Sessions, Store(s)
    PROVE  RInv'
<1>1. /\ Close({s}) /\ clients' = clients
      /\ overtaken' \subseteq overtaken /\ overtaken \ {s} \subseteq overtaken'
  BY DEF Store
<1>2. /\ req' \in [Sessions -> Request] /\ connected' \subseteq Sessions
      /\ writer' \in [Clients -> Sessions \cup {None}]
      /\ RequestsFormed' /\ RowsKnown' /\ ReadsCurrent' /\ LockHoldersConnected'
  BY <1>1, CloseKeepsRequests
<1>3. TypeOK'
  BY <1>1, <1>2 DEF RInv, TypeOK, Close, Store, RequestsFormed
<1>4. ListHasCause'
  BY <1>1 DEF RInv, ListHasCause, OwesEviction, Store, ReadsCurrent
<1> QED BY <1>2, <1>3, <1>4 DEF RInv

\* Without an entry there is nothing to explain.
LEMMA EvictKeepsRInv ==
    ASSUME RInv, NEW s \in Sessions, Evict(s)
    PROVE  RInv'
<1>1. /\ Close({s}) /\ clients' = clients
      /\ overtaken' \subseteq overtaken /\ overtaken \ {s} \subseteq overtaken'
  BY DEF Evict
<1>2. /\ req' \in [Sessions -> Request] /\ connected' \subseteq Sessions
      /\ writer' \in [Clients -> Sessions \cup {None}]
      /\ RequestsFormed' /\ RowsKnown' /\ ReadsCurrent' /\ LockHoldersConnected'
  BY <1>1, CloseKeepsRequests
<1>3. TypeOK'
  BY <1>1, <1>2 DEF RInv, TypeOK, Close, Evict
<1>4. ListHasCause'
  BY <1>1 DEF RInv, ListHasCause, OwesEviction, Evict
<1> QED BY <1>2, <1>3, <1>4 DEF RInv

\* A request that owed the eviction taints the entry when it fails.
LEMMA FailKeepsRInv ==
    ASSUME RInv, NEW S \in SUBSET Sessions, Fail(S), listing' = listing
    PROVE  RInv'
<1>1. /\ Close(S) /\ clients' = clients
      /\ overtaken' \subseteq overtaken /\ overtaken \ S \subseteq overtaken'
  BY DEF Fail
<1>2. /\ req' \in [Sessions -> Request] /\ connected' \subseteq Sessions
      /\ writer' \in [Clients -> Sessions \cup {None}]
      /\ RequestsFormed' /\ RowsKnown' /\ ReadsCurrent' /\ LockHoldersConnected'
  BY <1>1, CloseKeepsRequests
<1>3. TypeOK'
  BY <1>1, <1>2 DEF RInv, TypeOK, Close, Fail
<1>4. ListHasCause'
  BY <1>1 DEF RInv, ListHasCause, OwesEviction, Close, Fail
<1> QED BY <1>2, <1>3, <1>4 DEF RInv

\* A listing begins.
LEMMA StartListKeepsRInv ==
    ASSUME RInv, NEW s \in Sessions, StartList(s)
    PROVE  RInv'
<1> USE DEF At, history, StartList, Go, NoRequest
<1>1. TypeOK'
  BY NoRequestFormed, RequestUpdate DEF RInv, TypeOK, Steps
<1>2. RequestsFormed'
  BY DEF RInv, RequestsFormed, Creates
<1>3. RowsKnown'
  BY DEF RInv, RowsKnown, Creates, Changed
<1>4. ReadsCurrent'
  BY DEF RInv, ReadsCurrent, Creates
<1>5. LockHoldersConnected'
  BY DEF RInv, LockHoldersConnected
<1>6. ListHasCause'
  BY DEF RInv, ListHasCause, OwesEviction
<1> QED BY <1>1, <1>2, <1>3, <1>4, <1>5, <1>6 DEF RInv

\* A miss only moves on.
LEMMA ListMissKeepsRInv ==
    ASSUME RInv, NEW s \in Sessions, ListMiss(s)
    PROVE  RInv'
<1> USE DEF At, history, ListMiss, Go
<1>1. TypeOK'
  BY RequestUpdate DEF RInv, TypeOK, Steps
<1>2. RequestsFormed'
  BY DEF RInv, RequestsFormed, Creates
<1>3. RowsKnown'
  BY DEF RInv, RowsKnown, Creates, Changed
<1>4. ReadsCurrent'
  BY DEF RInv, ReadsCurrent, Creates
<1>5. LockHoldersConnected'
  BY DEF RInv, LockHoldersConnected
<1>6. ListHasCause'
  BY DEF RInv, ListHasCause, OwesEviction
<1> QED BY <1>1, <1>2, <1>3, <1>4, <1>5, <1>6 DEF RInv

\* What was just selected is current.
LEMMA SelectAllKeepsRInv ==
    ASSUME RInv, NEW s \in Sessions, SelectAll(s)
    PROVE  RInv'
<1> USE DEF At, history, SelectAll, Connect
<1>1. TypeOK'
  BY RequestUpdate DEF RInv, TypeOK, Steps
<1>2. RequestsFormed'
  BY DEF RInv, TypeOK, RequestsFormed, Creates
<1>3. RowsKnown'
  BY DEF RInv, TypeOK, RowsKnown, Creates, Changed
<1>4. ReadsCurrent'
  BY DEF RInv, TypeOK, ReadsCurrent, Creates
<1>5. LockHoldersConnected'
  BY DEF RInv, TypeOK, LockHoldersConnected
<1>6. ListHasCause'
  BY DEF RInv, TypeOK, ListHasCause, OwesEviction
<1> QED BY <1>1, <1>2, <1>3, <1>4, <1>5, <1>6 DEF RInv

\* A creation begins.
LEMMA StartCreateKeepsRInv ==
    ASSUME RInv, NEW s \in Sessions, NEW c \in Clients, NEW n \in Names,
           StartCreate(s, c, n)
    PROVE  RInv'
<1> USE DEF At, history, StartCreate, NoRequest
<1>1. TypeOK'
  BY CreateRequest DEF RInv, TypeOK
<1>2. RequestsFormed'
  BY DEF RInv, RequestsFormed, Creates
<1>3. RowsKnown'
  BY DEF RInv, RowsKnown, Creates, Changed
<1>4. ReadsCurrent'
  BY DEF RInv, ReadsCurrent, Creates
<1>5. LockHoldersConnected'
  BY DEF RInv, LockHoldersConnected
<1>6. ListHasCause'
  BY DEF RInv, ListHasCause, OwesEviction
<1> QED BY <1>1, <1>2, <1>3, <1>4, <1>5, <1>6 DEF RInv

\* An update begins.
LEMMA StartUpdateKeepsRInv ==
    ASSUME RInv, NEW s \in Sessions, NEW c \in Clients, NEW patch \in Patches,
           StartUpdate(s, c, patch)
    PROVE  RInv'
<1> USE DEF At, history, StartUpdate, NoRequest
<1>1. TypeOK'
  BY UpdateRequest, PatchesAssumption DEF RInv, TypeOK
<1>2. RequestsFormed'
  BY DEF RInv, RequestsFormed, Creates
<1>3. RowsKnown'
  BY DEF RInv, RowsKnown, Creates, Changed
<1>4. ReadsCurrent'
  BY DEF RInv, ReadsCurrent, Creates
<1>5. LockHoldersConnected'
  BY DEF RInv, LockHoldersConnected
<1>6. ListHasCause'
  BY DEF RInv, ListHasCause, OwesEviction
<1> QED BY <1>1, <1>2, <1>3, <1>4, <1>5, <1>6 DEF RInv

\* A client to update was found, one to create was not.
LEMMA FindKeepsRInv ==
    ASSUME RInv, NEW s \in Sessions, Find(s)
    PROVE  RInv'
<1> USE DEF At, history, Find, Connect
<1>1. TypeOK'
  BY RequestUpdate DEF RInv, TypeOK, RequestsFormed, Table, Steps
<1>2. RequestsFormed'
  BY DEF RInv, TypeOK, RequestsFormed, Creates
<1>3. RowsKnown'
  BY DEF RInv, TypeOK, RequestsFormed, RowsKnown, Creates, Changed, Table
<1>4. ReadsCurrent'
  BY DEF RInv, TypeOK, ReadsCurrent, Creates
<1>5. LockHoldersConnected'
  BY DEF RInv, TypeOK, LockHoldersConnected
<1>6. ListHasCause'
  BY DEF RInv, TypeOK, ListHasCause, OwesEviction
<1> QED BY <1>1, <1>2, <1>3, <1>4, <1>5, <1>6 DEF RInv

\* The INSERT locks a key nobody else holds.
LEMMA InsertKeepsRInv ==
    ASSUME RInv, NEW s \in Sessions, Insert(s)
    PROVE  RInv'
<1> DEFINE c == req[s].client
<1>a. /\ c \in Clients /\ s \in connected /\ s # None /\ req[s].at # "commit"
  BY NoneAssumption DEF RInv, RequestsFormed, Insert, Update, At
<1>b. /\ req' = [req EXCEPT ![s] = [req[s] EXCEPT !.at = "commit"]]
      /\ req[s] \in Request
  BY DEF RInv, TypeOK, Insert, Update, Go
<1>c. /\ req'[s].at = "commit" /\ req'[s].client = c /\ req'[s].want = req[s].want
      /\ req'[s].patch = req[s].patch /\ req'[s].seen = req[s].seen
      /\ \A r \in Sessions \ {s} : req'[r] = req[r]
  BY <1>b DEF RInv, TypeOK, Request
<1> USE DEF At, history, Insert, Lock, Go
<1>1. TypeOK'
  BY <1>a, RequestUpdate DEF RInv, TypeOK, Steps
<1>2. RequestsFormed'
  BY <1>a, <1>c DEF RInv, RequestsFormed, Creates
<1>3. RowsKnown'
  <2> SUFFICES ASSUME NEW r \in Sessions
               PROVE  LET d == req'[r].client IN
                      /\ At(r, "commit")' /\ Creates(r)' => writer'[d] = r /\ clients'[d] = None
                      /\ At(r, "commit")' /\ ~Creates(r)' /\ Changed(r)' # {} => writer'[d] = r
                      /\ req'[r].at \in {"update", "commit"} /\ ~Creates(r)' =>
                            clients'[d] # None /\ req'[r].seen \in Row
    BY DEF RowsKnown
  <2>1. CASE r = s
    BY <1>a, <1>c, <2>1 DEF RInv, TypeOK, RequestsFormed, RowsKnown, Creates
  <2>2. CASE r # s
    BY <1>a, <1>c, <2>2, NoneAssumption DEF RInv, RowsKnown, Creates, Changed
  <2> QED BY <2>1, <2>2
<1>4. ReadsCurrent'
  BY <1>a, <1>c DEF RInv, RequestsFormed, ReadsCurrent, Creates
<1>5. LockHoldersConnected'
  BY <1>a, <1>c DEF RInv, LockHoldersConnected
<1>6. ListHasCause'
  BY <1>a, <1>c DEF RInv, ListHasCause, OwesEviction
<1> QED BY <1>1, <1>2, <1>3, <1>4, <1>5, <1>6 DEF RInv

\* The UPDATE locks the row, one that names no column is not sent.
LEMMA UpdateKeepsRInv ==
    ASSUME RInv, NEW s \in Sessions, Update(s)
    PROVE  RInv'
<1> DEFINE c == req[s].client
<1>a. /\ c \in Clients /\ s \in connected /\ s # None /\ req[s].at # "commit"
  BY NoneAssumption DEF RInv, RequestsFormed, Insert, Update, At
<1>b. /\ req' = [req EXCEPT ![s] = [req[s] EXCEPT !.at = "commit"]]
      /\ req[s] \in Request
  BY DEF RInv, TypeOK, Insert, Update, Go
<1>c. /\ req'[s].at = "commit" /\ req'[s].client = c /\ req'[s].want = req[s].want
      /\ req'[s].patch = req[s].patch /\ req'[s].seen = req[s].seen
      /\ \A r \in Sessions \ {s} : req'[r] = req[r]
  BY <1>b DEF RInv, TypeOK, Request
<1> USE DEF At, history, Update, Lock, Go
<1>1. TypeOK'
  BY <1>a, RequestUpdate DEF RInv, TypeOK, Steps
<1>2. RequestsFormed'
  BY <1>a, <1>c DEF RInv, RequestsFormed, Creates
<1>3. RowsKnown'
  <2> SUFFICES ASSUME NEW r \in Sessions
               PROVE  LET d == req'[r].client IN
                      /\ At(r, "commit")' /\ Creates(r)' => writer'[d] = r /\ clients'[d] = None
                      /\ At(r, "commit")' /\ ~Creates(r)' /\ Changed(r)' # {} => writer'[d] = r
                      /\ req'[r].at \in {"update", "commit"} /\ ~Creates(r)' =>
                            clients'[d] # None /\ req'[r].seen \in Row
    BY DEF RowsKnown
  <2>1. CASE r = s
    BY <1>a, <1>c, <2>1
       DEF RInv, TypeOK, RequestsFormed, RowsKnown, Creates, Changed
  <2>2. CASE r # s
    BY <1>a, <1>c, <2>2, NoneAssumption
       DEF RInv, TypeOK, RequestsFormed, RowsKnown, Creates, Changed
  <2> QED BY <2>1, <2>2
<1>4. ReadsCurrent'
  BY <1>a, <1>c DEF RInv, ReadsCurrent, Creates
<1>5. LockHoldersConnected'
  BY <1>a, <1>c DEF RInv, TypeOK, LockHoldersConnected
<1>6. ListHasCause'
  BY <1>a, <1>c DEF RInv, ListHasCause, OwesEviction
<1> QED BY <1>1, <1>2, <1>3, <1>4, <1>5, <1>6 DEF RInv

\* The row is read back on a new connection.
LEMMA RefreshKeepsRInv ==
    ASSUME RInv, NEW s \in Sessions, Refresh(s)
    PROVE  RInv'
<1> USE DEF At, history, Refresh, Connect, Go
<1>1. TypeOK'
  BY RequestUpdate DEF RInv, TypeOK, Steps
<1>2. RequestsFormed'
  BY DEF RInv, RequestsFormed, Creates
<1>3. RowsKnown'
  BY DEF RInv, RowsKnown, Creates, Changed
<1>4. ReadsCurrent'
  BY DEF RInv, ReadsCurrent, Creates
<1>5. LockHoldersConnected'
  BY DEF RInv, LockHoldersConnected
<1>6. ListHasCause'
  BY DEF RInv, ListHasCause, OwesEviction
<1> QED BY <1>1, <1>2, <1>3, <1>4, <1>5, <1>6 DEF RInv

\* The entry leaves Redis.
LEMMA ExpireKeepsRInv ==
    ASSUME RInv, Expire
    PROVE  RInv'
<1> USE DEF At, history, Expire
<1>1. TypeOK'
  BY DEF RInv, TypeOK
<1>2. RequestsFormed'
  BY DEF RInv, RequestsFormed, Creates
<1>3. RowsKnown'
  BY DEF RInv, RowsKnown, Creates, Changed
<1>4. ReadsCurrent'
  BY DEF RInv, ReadsCurrent, Creates
<1>5. LockHoldersConnected'
  BY DEF RInv, LockHoldersConnected
<1>6. ListHasCause'
  BY DEF RInv, ListHasCause, OwesEviction
<1> QED BY <1>1, <1>2, <1>3, <1>4, <1>5, <1>6 DEF RInv

\* What a commit writes, and that it is alone: only the request that holds the
\* lock of a client changes it.
LEMMA CommitWrites ==
    ASSUME RInv, NEW s \in Sessions, Commit(s)
    PROVE  LET c == req[s].client
               row == clients'[c]
           IN  /\ c \in Clients /\ row \in Row /\ row # None
               /\ clients' = [clients EXCEPT ![c] = row]
               /\ row # clients[c] => writer[c] = s
               /\ row = IF Creates(s) THEN req[s].want ELSE Written(s)
               /\ ~Creates(s) => clients[c] \in Row
               /\ Creates(s) => clients[c] = None
<1> DEFINE c == req[s].client
<1>1. c \in Clients
  BY DEF RInv, RequestsFormed, Commit, At
<1>2. clients'[c] = IF Creates(s) THEN req[s].want ELSE Written(s)
  BY <1>1 DEF RInv, TypeOK, Table, Commit
<1>3. clients' = [clients EXCEPT ![c] = clients'[c]]
  BY <1>1 DEF RInv, Table, Commit
<1>4. CASE Creates(s)
  <2>1. req[s].want \in Row
    BY <1>4 DEF RInv, TypeOK, Request, Creates
  <2>2. writer[c] = s /\ clients[c] = None
    BY <1>4 DEF RInv, RowsKnown, Commit
  <2> QED BY <1>1, <1>2, <1>3, <1>4, <2>1, <2>2, NoneAssumption
<1>5. CASE ~Creates(s)
  <2>1. clients[c] \in Row
    BY <1>1, <1>5 DEF RInv, TypeOK, Table, RowsKnown, Commit, At
  <2>2. Written(s) \in Row
    BY <1>1, <2>1, WrittenIsRow DEF RInv
  <2>3. CASE Changed(s) = {}
    BY <1>1, <1>2, <1>3, <1>5, <2>1, <2>2, <2>3, NothingWritten, NoneAssumption
  <2>4. CASE Changed(s) # {}
    <3>1. writer[c] = s
      BY <1>5, <2>4 DEF RInv, RowsKnown, Commit
    <3> QED BY <1>1, <1>2, <1>3, <1>5, <2>1, <2>2, <3>1, NoneAssumption
  <2> QED BY <2>3, <2>4
<1> QED BY <1>4, <1>5

\* What a commit does to its own request and to those of the others.
LEMMA CommitMovesOn ==
    ASSUME RInv, NEW s \in Sessions, Commit(s)
    PROVE  /\ \/ req'[s] = NoRequest
              \/ req'[s] = [NoRequest EXCEPT !.at = "refresh"]
           /\ \A r \in Sessions \ {s} : req'[r] = req[r]
           /\ req' \in [Sessions -> Request]
           /\ writer' = [d \in Clients |-> IF writer[d] = s THEN None ELSE writer[d]]
           /\ connected' = connected \ {s}
<1>1. NoRequest \in Request /\ [NoRequest EXCEPT !.at = "refresh"] \in Request
  BY NoRequestFormed, RequestUpdate DEF Steps
<1>2. CASE GoOn(s, "refresh") /\ connected' = connected \ {s}
           /\ writer' = [d \in Clients |-> IF writer[d] = s THEN None ELSE writer[d]]
  BY <1>1, <1>2 DEF RInv, TypeOK, GoOn
<1>3. CASE Close({s})
  BY <1>1, <1>3 DEF RInv, TypeOK, Close
<1> QED BY <1>2, <1>3 DEF Commit

\* Whoever read what a commit changes is overtaken.
LEMMA CommitOvertakes ==
    ASSUME RInv, NEW s \in Sessions, Commit(s), NEW r \in Sessions \ overtaken', r # s
    PROVE  /\ r \notin overtaken
           /\ clients' # clients => r \notin Readers(req[s].client)
<1> DEFINE c == req[s].client
<1>1. clients'[c] # clients[c] => overtaken' = (overtaken \cup Readers(c)) \ {s}
  BY CommitWrites DEF Commit
<1>2. clients'[c] = clients[c] => clients' = clients /\ overtaken' = overtaken \ {s}
  BY CommitWrites DEF Commit, RInv, TypeOK, Table
<1> QED BY <1>1, <1>2

\* The lock goes, the request owes the eviction from now on.
LEMMA CommitKeepsRInv ==
    ASSUME RInv, NEW s \in Sessions, Commit(s)
    PROVE  RInv'
<1> DEFINE c == req[s].client
<1> USE CommitWrites, CommitMovesOn DEF At
<1>1. TypeOK'
  <2>1. clients' \in Table
    BY DEF RInv, TypeOK, Table
  <2>2. overtaken' \subseteq Sessions /\ tainted' \in BOOLEAN /\ pool' = pool
        /\ listing' = listing
    BY DEF RInv, TypeOK, Commit, Readers, Close
  <2> QED BY <2>1, <2>2 DEF RInv, TypeOK
<1>2. RequestsFormed'
  BY DEF RInv, RequestsFormed, NoRequest, Creates
<1>3. RowsKnown'
  <2> SUFFICES ASSUME NEW r \in Sessions
               PROVE  LET d == req'[r].client IN
                      /\ At(r, "commit")' /\ Creates(r)' => writer'[d] = r /\ clients'[d] = None
                      /\ At(r, "commit")' /\ ~Creates(r)' /\ Changed(r)' # {} => writer'[d] = r
                      /\ req'[r].at \in {"update", "commit"} /\ ~Creates(r)' =>
                            clients'[d] # None /\ req'[r].seen \in Row
    BY DEF RowsKnown
  <2>1. CASE r = s
    BY <2>1 DEF NoRequest
  <2>2. CASE r # s
    <3> DEFINE d == req[r].client
    <3>1. req[r].at \in {"update", "commit"} => d \in Clients
      BY DEF RInv, RequestsFormed
    <3>2. At(r, "commit") /\ Creates(r) => d # c \/ clients'[d] = clients[d]
      BY <2>2 DEF RInv, RowsKnown
    <3> QED BY <2>2, <3>1, <3>2 DEF RInv, TypeOK, Table, RowsKnown, Creates, Changed
  <2> QED BY <2>1, <2>2
<1>4. ReadsCurrent'
  <2> SUFFICES ASSUME NEW r \in Sessions \ overtaken'
               PROVE  /\ At(r, "set")' => req'[r].rows = clients'
                      /\ req'[r].at \in {"update", "commit"} /\ ~Creates(r)' =>
                            req'[r].seen = clients'[req'[r].client]
    BY DEF ReadsCurrent
  <2>1. CASE r = s
    BY <2>1 DEF NoRequest
  <2>2. CASE r # s
    <3>1. r \notin overtaken /\ (clients' # clients => r \notin Readers(c))
      BY <2>2, CommitOvertakes
    <3>2. clients' # clients => writer[c] = s
      BY DEF RInv, TypeOK, Table
    <3> QED BY <2>2, <3>1, <3>2
       DEF RInv, TypeOK, Table, RequestsFormed, ReadsCurrent, Readers, Creates
  <2> QED BY <2>1, <2>2
<1>5. LockHoldersConnected'
  BY NoneAssumption DEF RInv, TypeOK, LockHoldersConnected
<1>6. ListHasCause'
  <2>1. OwesEviction(s)' \/ tainted'
    BY DEF Commit, GoOn, OwesEviction, RInv, TypeOK, NoRequest
  <2> QED BY <2>1 DEF ListHasCause
<1> QED BY <1>1, <1>2, <1>3, <1>4, <1>5, <1>6 DEF RInv

LEMMA StutterKeepsRInv ==
    ASSUME RInv, UNCHANGED vars
    PROVE  RInv'
BY DEF vars, history, RInv, TypeOK, RequestsFormed, RowsKnown, ReadsCurrent,
       LockHoldersConnected, ListHasCause, OwesEviction, Creates, Changed, At

LEMMA NextKeepsRInv == RInv /\ [Next]_vars => RInv'
<1> SUFFICES ASSUME RInv, [Next]_vars
             PROVE  RInv'
  OBVIOUS
<1>1. ASSUME NEW s \in Sessions, ListStep(s)
      PROVE  RInv'
  BY <1>1, ListHitKeepsRInv, ListMissKeepsRInv, StoreKeepsRInv DEF ListStep
<1>2. ASSUME NEW s \in Sessions, WriteStep(s)
      PROVE  RInv'
  BY <1>2, InsertKeepsRInv, FailKeepsRInv, UpdateKeepsRInv
     DEF WriteStep, DuplicateClient
<1>3. ASSUME NEW s \in Sessions, CommitStep(s)
      PROVE  RInv'
  BY <1>3, CommitKeepsRInv, EvictKeepsRInv DEF CommitStep
<1>4. ASSUME NEW s \in Sessions, ConnectStep(s)
      PROVE  RInv'
  BY <1>4, SelectAllKeepsRInv, FindKeepsRInv, FindRefusesKeepsRInv, RefreshKeepsRInv
     DEF ConnectStep
<1>5. ASSUME NEW s \in Sessions, CallerStep(s)
      PROVE  RInv'
  BY <1>5, StartListKeepsRInv, StartCreateKeepsRInv, StartUpdateKeepsRInv
     DEF CallerStep
<1>6. ASSUME NEW s \in Sessions, PoolTimeout(s) \/ DatabaseFails(s) \/ RedisFails(s)
      PROVE  RInv'
  BY <1>6, FailKeepsRInv DEF PoolTimeout, DatabaseFails, RedisFails
<1>7. ASSUME NEW S \in SUBSET Sessions, Crash(S)
      PROVE  RInv'
  BY <1>7, FailKeepsRInv DEF Crash
<1>8. CASE Expire
  BY <1>8, ExpireKeepsRInv
<1>9. CASE UNCHANGED vars
  BY <1>9, StutterKeepsRInv
<1> QED BY <1>1, <1>2, <1>3, <1>4, <1>5, <1>6, <1>7, <1>8, <1>9 DEF Next

(***************************************************************************)
(* The theorems                                                            *)
(***************************************************************************)
\* The inductive invariant holds in every reachable state.
THEOREM RInvAlways == Spec => []RInv
<1>1. Init => RInv
  BY InitEstablishesRInv
<1>2. RInv /\ [Next]_vars => RInv'
  BY NextKeepsRInv
<1> QED BY <1>1, <1>2, PTL DEF Spec

\* Every variable keeps its type, under every fault.
THEOREM TypesKept == Spec => []TypeOK
<1>1. RInv => TypeOK
  BY DEF RInv
<1> QED BY <1>1, RInvAlways, PTL

\* A list of clients in Redis that is not the table always has a known cause.
THEOREM ListAlwaysHasCause == Spec => []ListHasCause
<1>1. RInv => ListHasCause
  BY DEF RInv
<1> QED BY <1>1, RInvAlways, PTL

\* No writer ever waits for a connection while it holds a lock, in a pool of
\* any size.
THEOREM LockHoldersStayConnected == Spec => []LockHoldersConnected
<1>1. RInv => LockHoldersConnected
  BY DEF RInv
<1> QED BY <1>1, RInvAlways, PTL

\* Rows are written by commits only.
LEMMA OnlyCommitWrites ==
    ASSUME [Next]_vars, clients' # clients
    PROVE  \E s \in Sessions : Commit(s)
<1>1. CASE \E s \in Sessions : ListStep(s) \/ WriteStep(s)
  BY <1>1
     DEF ListStep, ListHit, ListMiss, Store, WriteStep, Insert, DuplicateClient,
         Update, Fail
<1>2. CASE \E s \in Sessions : CommitStep(s)
  BY <1>2 DEF CommitStep, Evict
<1>3. CASE \E s \in Sessions : ConnectStep(s) \/ CallerStep(s)
  BY <1>3
     DEF ConnectStep, SelectAll, Find, FindRefuses, Refresh, CallerStep, StartList,
         StartCreate, StartUpdate
<1>4. CASE \E s \in Sessions : PoolTimeout(s) \/ DatabaseFails(s) \/ RedisFails(s)
  BY <1>4 DEF PoolTimeout, DatabaseFails, RedisFails, Fail
<1>5. CASE \/ \E S \in SUBSET Sessions : Crash(S)
           \/ Expire
           \/ UNCHANGED vars
  BY <1>5 DEF Crash, Fail, Expire, vars
<1> QED BY <1>1, <1>2, <1>3, <1>4, <1>5 DEF Next

\* Concurrent updates of different columns merge, and a creation replaces
\* nothing.
THEOREM PatchesKeepOtherColumns == Spec => PatchKeepsOtherColumns
<1> DEFINE Keeps ==
      \A c \in Clients : \A k \in {"name", "active"} :
          clients[c] # None /\ clients'[c][k] # clients[c][k] =>
             \E s \in Sessions :
                /\ At(s, "commit") /\ req[s].client = c
                /\ req[s].patch[k] = clients'[c][k]
<1>1. ASSUME RInv, [Next]_vars, NEW c \in Clients, NEW k \in {"name", "active"},
             clients[c] # None, clients'[c][k] # clients[c][k]
      PROVE  \E s \in Sessions :
                /\ At(s, "commit") /\ req[s].client = c
                /\ req[s].patch[k] = clients'[c][k]
  <2>1. PICK s \in Sessions : Commit(s)
    BY <1>1, OnlyCommitWrites
  <2>2. req[s].client = c
    BY <1>1, <2>1, CommitWrites DEF RInv, TypeOK, Table
  <2>3. clients'[c] = Written(s)
    BY <1>1, <2>1, <2>2, CommitWrites
  <2>4. req[s].patch[k] = clients'[c][k]
    BY <1>1, <2>2, <2>3 DEF Written
  <2> QED BY <2>1, <2>2, <2>4 DEF Commit
<1>2. RInv /\ [Next]_vars => [Keeps]_vars
  BY <1>1
<1> QED BY <1>2, RInvAlways, PTL DEF Spec, PatchKeepsOtherColumns

\* An update that was not overtaken leaves what it was given.
THEOREM UndisturbedPatchesApplied == Spec => UndisturbedPatchApplied
<1> DEFINE Applied ==
      \A s \in Sessions :
          Commit(s) /\ ~Creates(s) /\ s \notin overtaken =>
             \A k \in {"name", "active"} :
                req[s].patch[k] \in {None, clients'[req[s].client][k]}
<1>1. ASSUME RInv, NEW s \in Sessions, Commit(s), ~Creates(s), s \notin overtaken,
             NEW k \in {"name", "active"}
      PROVE  req[s].patch[k] \in {None, clients'[req[s].client][k]}
  <2>1. req[s].seen = clients[req[s].client]
    BY <1>1 DEF RInv, ReadsCurrent, Commit, At
  <2>2. clients'[req[s].client] = Written(s)
    BY <1>1, CommitWrites
  <2> QED BY <1>1, <2>1, <2>2 DEF Written, Changed
<1>2. RInv /\ [Next]_vars => [Applied]_vars
  BY <1>1
<1> QED BY <1>2, RInvAlways, PTL DEF Spec, UndisturbedPatchApplied
=============================================================================
