--------------------------- MODULE ClientRegistry ---------------------------
(***************************************************************************)
(* The administration of clients: GET, POST and PATCH /admin/clients over  *)
(* the table clients, the one Redis entry clients:all that holds the whole *)
(* list, and the connection pool of the engine.  A session takes a         *)
(* connection with its first statement and keeps it, across its Redis      *)
(* commands too, until it commits or is closed; the statement that follows *)
(* a commit takes one anew, and may wait for it in vain.                   *)
(***************************************************************************)
EXTENDS FiniteSets, Naturals

CONSTANTS
    Clients,   \* the primary key of table clients
    Names,     \* what the column name may hold
    Patches,   \* the bodies of the PATCH requests
    Seeded,    \* the clients the initial migration inserts
    Sessions,  \* request slots, each with a session of its own
    PoolSizes, \* how many connections the pool may open
    Faults,    \* which of "redis", "database", "crash" may happen
    None

ASSUME PoolAssumption == PoolSizes \subseteq Nat \ {0}
ASSUME SeededAssumption == Seeded \subseteq Clients
Row == [name: Names, active: BOOLEAN]

ASSUME NoneAssumption == None \notin Names \cup BOOLEAN \cup Clients \cup Sessions /\ None \notin Row

Table == [Clients -> Row \cup {None}]

\* The body of a PATCH: a field that is None is not given.
Patch == [name: Names \cup {None}, active: BOOLEAN \cup {None}]

ASSUME PatchesAssumption == Patches \subseteq Patch

NoPatch == [name |-> None, active |-> None]

VARIABLES
    clients,    \* clients[c]: the committed row of client c, or None
    listing,    \* the Redis entry clients:all, or None
    writer,     \* writer[c]: the session with an uncommitted write of c
    pool,       \* the size of the pool, fixed when the engine is created
    connected,  \* the sessions that hold a connection of the pool
    req,        \* req[s]: the request session s serves
    overtaken,  \* history: requests that read what was rewritten since
    tainted     \* history: the entry was filled by such a request, or an
                \* eviction of it never took place

history == <<overtaken, tainted>>
vars == <<clients, listing, writer, pool, connected, req, history>>

Steps == {"none", "get", "list", "set",
          "find", "insert", "update", "commit", "refresh", "evict"}

\* want: the row to insert; patch: the columns to update; seen: the row that
\* find returned; rows: the table as the listing selected it.
Request == [at: Steps, client: Clients \cup {None}, want: Row \cup {None},
            patch: Patch, seen: Row \cup {None}, rows: Table \cup {None}]

NoRequest == [at |-> "none", client |-> None, want |-> None,
              patch |-> NoPatch, seen |-> None, rows |-> None]

Init ==
    /\ \E n \in Names :
         clients = [c \in Clients |-> IF c \in Seeded THEN [name |-> n, active |-> TRUE]
                                                      ELSE None]
    /\ listing = None
    /\ writer = [c \in Clients |-> None]
    /\ pool \in PoolSizes
    /\ connected = {}
    /\ req = [s \in Sessions |-> NoRequest]
    /\ overtaken = {}
    /\ tainted = FALSE

At(s, step) == req[s].at = step

Go(s, step) == req' = [req EXCEPT ![s].at = step]

\* After its commit a request needs nothing of what it has read or was sent.
GoOn(s, step) == req' = [req EXCEPT ![s] = [NoRequest EXCEPT !.at = step]]

\* Some statement is sent: on the session's connection, or on a new one as
\* long as the pool has one.
Connect(s) ==
    /\ s \in connected \/ Cardinality(connected) < pool
    /\ connected' = connected \cup {s}
    /\ UNCHANGED pool

\* Mutation of Close: the session is not closed.
CloseNothing(S) ==
    /\ req' = [s \in Sessions |-> IF s \in S THEN NoRequest ELSE req[s]]
    /\ UNCHANGED <<writer, pool, connected>>

\* The request is answered, by a result or an exception, and get_session
\* closes its session: whatever it holds is given back.
Close(S) ==
    /\ req' = [s \in Sessions |-> IF s \in S THEN NoRequest ELSE req[s]]
    /\ writer' = [c \in Clients |-> IF writer[c] \in S THEN None ELSE writer[c]]
    /\ connected' = connected \ S
    /\ UNCHANGED pool

\* A request that ends between its commit and its eviction leaves the entry.
OwesEviction(s) == req[s].at \in {"refresh", "evict"}

Fail(S) ==
    /\ Close(S)
    /\ overtaken' = overtaken \ S
    /\ tainted' = (tainted \/ \E s \in S : OwesEviction(s))
    /\ UNCHANGED clients

(***************************************************************************)
(* GET                                                                     *)
(***************************************************************************)
StartList(s) ==
    /\ req[s] = NoRequest
    /\ Go(s, "get")
    /\ UNCHANGED <<clients, listing, writer, pool, connected, history>>

ListHit(s) ==
    /\ At(s, "get")
    /\ listing # None
    /\ Close({s})
    /\ UNCHANGED <<clients, listing, history>>

ListMiss(s) ==
    /\ At(s, "get")
    /\ listing = None
    /\ Go(s, "list")
    /\ UNCHANGED <<clients, listing, writer, pool, connected, history>>

SelectAll(s) ==
    /\ At(s, "list")
    /\ Connect(s)
    /\ req' = [req EXCEPT ![s].at = "set", ![s].rows = clients]
    /\ UNCHANGED <<clients, listing, writer, history>>

Store(s) ==
    /\ At(s, "set")
    /\ listing' = req[s].rows
    /\ tainted' = (s \in overtaken)
    /\ overtaken' = overtaken \ {s}
    /\ Close({s})
    /\ UNCHANGED clients

(***************************************************************************)
(* POST and PATCH                                                          *)
(***************************************************************************)
StartCreate(s, c, n) ==
    /\ req[s] = NoRequest
    /\ req' = [req EXCEPT ![s] = [NoRequest EXCEPT
                 !.at = "find", !.client = c, !.want = [name |-> n, active |-> TRUE]]]
    /\ UNCHANGED <<clients, listing, writer, pool, connected, history>>

StartUpdate(s, c, patch) ==
    /\ req[s] = NoRequest
    /\ req' = [req EXCEPT ![s] = [NoRequest EXCEPT
                 !.at = "find", !.client = c, !.patch = patch]]
    /\ UNCHANGED <<clients, listing, writer, pool, connected, history>>

Creates(s) == req[s].want # None

\* A client to create is not there, a client to update is.
Find(s) ==
    LET row == clients[req[s].client] IN
    /\ At(s, "find")
    /\ Creates(s) <=> row = None
    /\ Connect(s)
    /\ req' = [req EXCEPT ![s].at = IF Creates(s) THEN "insert" ELSE "update",
                          ![s].seen = row]
    /\ UNCHANGED <<clients, listing, writer, history>>

\* 409 or 404.
FindRefuses(s) ==
    /\ At(s, "find")
    /\ Creates(s) <=> clients[req[s].client] # None
    /\ s \in connected \/ Cardinality(connected) < pool
    /\ Close({s})
    /\ UNCHANGED <<clients, listing, history>>

Lock(s) ==
    LET c == req[s].client IN
    /\ writer[c] = None
    /\ writer' = [writer EXCEPT ![c] = s]

\* Mutation of Insert: id is no primary key.
InsertUnchecked(s) ==
    /\ At(s, "insert")
    /\ Lock(s)
    /\ Go(s, "commit")
    /\ UNCHANGED <<clients, listing, pool, connected, history>>

Insert(s) ==
    /\ At(s, "insert")
    /\ clients[req[s].client] = None
    /\ Lock(s)
    /\ Go(s, "commit")
    /\ UNCHANGED <<clients, listing, pool, connected, history>>

\* Another request created the client since find: 500.
DuplicateClient(s) ==
    /\ At(s, "insert")
    /\ writer[req[s].client] = None
    /\ clients[req[s].client] # None
    /\ Fail({s})
    /\ UNCHANGED listing

\* Mutation of Changed: a value that is false counts as not given.
ChangedTruthy(s) ==
    {k \in {"name", "active"} : req[s].patch[k] \notin {None, FALSE, req[s].seen[k]}}

\* The columns the UPDATE names: those given that differ from the row found.
Changed(s) ==
    {k \in {"name", "active"} : req[s].patch[k] \notin {None, req[s].seen[k]}}

Update(s) ==
    /\ At(s, "update")
    /\ \/ Changed(s) # {} /\ Lock(s)
       \/ Changed(s) = {} /\ UNCHANGED writer
    /\ Go(s, "commit")
    /\ UNCHANGED <<clients, listing, pool, connected, history>>

\* Mutation of Written: the UPDATE names every column.
WrittenWhole(s) ==
    [k \in {"name", "active"} |->
        IF req[s].patch[k] # None THEN req[s].patch[k] ELSE req[s].seen[k]]

Written(s) ==
    [k \in {"name", "active"} |->
        IF k \in Changed(s) THEN req[s].patch[k] ELSE clients[req[s].client][k]]

\* The requests that read client c and are still to act on it.
Readers(c) ==
    {t \in Sessions : \/ At(t, "set")
                      \/ req[t].client = c /\ req[t].at \in {"insert", "update"}
                      \/ req[t].client = c /\ At(t, "commit") /\ writer[c] # t}

\* Mutation of Commit: the connection is given back, the row lock is kept.
CommitKeepsLock(s) ==
    LET c == req[s].client IN
    /\ At(s, "commit")
    /\ clients' = [clients EXCEPT ![c] = IF Creates(s) THEN req[s].want ELSE Written(s)]
    /\ overtaken' = IF clients' = clients THEN overtaken
                    ELSE (overtaken \cup Readers(c)) \ {s}
    /\ connected' = connected \ {s}
    /\ GoOn(s, "refresh")
    /\ UNCHANGED <<listing, writer, pool, tainted>>

\* The connection goes back to the pool with the row lock.
Commit(s) ==
    LET c == req[s].client
        row == IF Creates(s) THEN req[s].want ELSE Written(s)
    IN  /\ At(s, "commit")
        /\ clients' = [clients EXCEPT ![c] = row]
        /\ overtaken' = IF row = clients[c] THEN overtaken \ {s}
                        ELSE (overtaken \cup Readers(c)) \ {s}
        /\ \/ /\ GoOn(s, "refresh")
              /\ writer' = [d \in Clients |-> IF writer[d] = s THEN None ELSE writer[d]]
              /\ connected' = connected \ {s}
              /\ UNCHANGED <<pool, tainted>>
           \/ /\ "database" \in Faults
              /\ Close({s})
              /\ tainted' = TRUE
        /\ UNCHANGED listing

\* session.refresh reads the row back, on a connection it has to take again.
Refresh(s) ==
    /\ At(s, "refresh")
    /\ Connect(s)
    /\ Go(s, "evict")
    /\ UNCHANGED <<clients, listing, writer, history>>

\* Mutation of Evict: the list is not removed.
EvictNothing(s) ==
    /\ At(s, "evict")
    /\ tainted' = FALSE
    /\ Close({s})
    /\ UNCHANGED <<clients, listing, overtaken>>

Evict(s) ==
    /\ At(s, "evict")
    /\ listing' = None
    /\ tainted' = FALSE
    /\ Close({s})
    /\ UNCHANGED <<clients, overtaken>>

(***************************************************************************)
(* What can go wrong                                                       *)
(***************************************************************************)
\* No connection came free within pool_timeout: 500.
PoolTimeout(s) ==
    /\ req[s].at \in {"list", "find", "refresh"}
    /\ s \notin connected
    /\ Cardinality(connected) >= pool
    /\ Fail({s})
    /\ UNCHANGED listing

DatabaseFails(s) ==
    /\ "database" \in Faults
    /\ req[s].at \in {"list", "find", "insert", "update", "commit", "refresh"}
    /\ Fail({s})
    /\ UNCHANGED listing

\* The command is lost.  When only its answer is, the request ends all the
\* same, which Store and Evict are.
RedisFails(s) ==
    /\ "redis" \in Faults
    /\ req[s].at \in {"get", "set", "evict"}
    /\ Fail({s})
    /\ UNCHANGED listing

\* A server process dies: PostgreSQL rolls back, Redis keeps its entry.
Crash(S) ==
    /\ "crash" \in Faults
    /\ \E s \in S : req[s] # NoRequest
    /\ Fail(S)
    /\ UNCHANGED listing

\* Mutation of Expire: the entry is stored without a TTL.
ExpireNever ==
    /\ listing # None
    /\ UNCHANGED vars

\* The TTL of the entry ends.
Expire ==
    /\ listing # None
    /\ listing' = None
    /\ tainted' = FALSE
    /\ UNCHANGED <<clients, writer, pool, connected, req, overtaken>>

(***************************************************************************)
(* The specification                                                       *)
(***************************************************************************)
ListStep(s) == ListHit(s) \/ ListMiss(s) \/ Store(s)

WriteStep(s) == Insert(s) \/ DuplicateClient(s) \/ Update(s)

CommitStep(s) == Commit(s) \/ Evict(s)

ConnectStep(s) == SelectAll(s) \/ Find(s) \/ FindRefuses(s) \/ Refresh(s)

CallerStep(s) ==
    \/ StartList(s)
    \/ \E c \in Clients, n \in Names : StartCreate(s, c, n)
    \/ \E c \in Clients, patch \in Patches : StartUpdate(s, c, patch)

Next ==
    \/ \E s \in Sessions :
         \/ ListStep(s) \/ WriteStep(s) \/ CommitStep(s) \/ ConnectStep(s)
         \/ CallerStep(s)
         \/ PoolTimeout(s) \/ DatabaseFails(s) \/ RedisFails(s)
    \/ \E S \in SUBSET Sessions : Crash(S)
    \/ Expire

Spec == Init /\ [][Next]_vars

\* A request that can go on does, PostgreSQL queues the waiters of a lock, a
\* wait for a connection ends by getting one or by the timeout, and the entry
\* has a TTL.
Fairness ==
    /\ \A s \in Sessions :
         /\ WF_vars(ListStep(s) \/ CommitStep(s))
         /\ SF_vars(WriteStep(s))
         /\ WF_vars(ConnectStep(s) \/ PoolTimeout(s))
    /\ WF_vars(Expire)

FairSpec == Spec /\ Fairness

(***************************************************************************)
(* Properties                                                              *)
(***************************************************************************)
\* Every variable has its type.
TypeOK ==
    /\ clients \in Table
    /\ listing \in Table \cup {None}
    /\ writer \in [Clients -> Sessions \cup {None}]
    /\ pool \in PoolSizes
    /\ connected \subseteq Sessions
    /\ req \in [Sessions -> Request]
    /\ overtaken \subseteq Sessions
    /\ tainted \in BOOLEAN

\* The entry clients:all differs from the table for one of three reasons: a
\* listing stored what was rewritten after it was selected, a request that
\* committed is still to evict the entry, or it ended before it did.  The
\* last includes a request that stored its client and then found no
\* connection to read it back with.
ListHasCause ==
    listing \notin {None, clients} => tainted \/ \E s \in Sessions : OwesEviction(s)

\* A request that holds the lock of a client holds a connection and is about
\* to commit: nobody waits for a connection while others wait for his lock,
\* so a full pool and a queue of writers never wait for one another.
LockHoldersConnected ==
    \A c \in Clients : writer[c] # None =>
        /\ writer[c] \in connected
        /\ At(writer[c], "commit")
        /\ req[writer[c]].client = c

\* A column of a stored client changes only to what a PATCH of that column
\* asked for: concurrent updates of different columns merge, and two
\* concurrent creations never replace one another.
PatchKeepsOtherColumns ==
    [][\A c \in Clients : \A k \in {"name", "active"} :
          clients[c] # None /\ clients'[c][k] # clients[c][k] =>
             \E s \in Sessions :
                /\ At(s, "commit") /\ req[s].client = c
                /\ req[s].patch[k] = clients'[c][k]]_vars

\* An update no other commit overtook since it found the row leaves every
\* column it was given as it was given, also where that is false.
UndisturbedPatchApplied ==
    [][\A s \in Sessions :
          Commit(s) /\ ~Creates(s) /\ s \notin overtaken =>
             \A k \in {"name", "active"} :
                req[s].patch[k] \in {None, clients'[req[s].client][k]}]_vars

\* Every request ends: none waits forever for a lock or a connection.
RequestEnds ==
    \A s \in Sessions : req[s] # NoRequest ~> req[s] = NoRequest

\* Once clients are no longer changed, what is listed settles on the table.
ListConverges ==
    <>[][clients' = clients]_vars => <>[](listing \in {None, clients})

(***************************************************************************)
(* The inductive invariant behind the properties                           *)
(***************************************************************************)
\* What a request holds at each step, and that it kept its connection.
RequestsFormed ==
    \A s \in Sessions :
        /\ req[s].at \in {"find", "insert", "update", "commit"} => req[s].client \in Clients
        /\ req[s].at \in {"set", "insert", "update", "commit"} => s \in connected
        /\ At(s, "set") => req[s].rows \in Table
        /\ At(s, "insert") => Creates(s)
        /\ At(s, "update") => ~Creates(s)

\* Only the holder of its lock creates a client, and no client is deleted.
RowsKnown ==
    \A s \in Sessions : LET c == req[s].client IN
        /\ At(s, "commit") /\ Creates(s) => writer[c] = s /\ clients[c] = None
        /\ At(s, "commit") /\ ~Creates(s) /\ Changed(s) # {} => writer[c] = s
        /\ req[s].at \in {"update", "commit"} /\ ~Creates(s) =>
              clients[c] # None /\ req[s].seen \in Row

\* What a request that was not overtaken has read is what is stored.
ReadsCurrent ==
    \A s \in Sessions \ overtaken :
        /\ At(s, "set") => req[s].rows = clients
        /\ req[s].at \in {"update", "commit"} /\ ~Creates(s) =>
              req[s].seen = clients[req[s].client]

RInv ==
    /\ TypeOK
    /\ RequestsFormed
    /\ RowsKnown
    /\ ReadsCurrent
    /\ LockHoldersConnected
    /\ ListHasCause
=============================================================================
