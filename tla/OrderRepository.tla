--------------------------- MODULE OrderRepository ---------------------------
(***************************************************************************)
(* PostgresPurchaseOrderRepository with its read-through Redis cache: the  *)
(* single-order read find_by_client_and_number and the write upsert, run   *)
(* by concurrent requests.  Every await of the code is a step here, so the *)
(* statements of several requests interleave as the event loop and the two *)
(* servers let them.                                                       *)
(*                                                                         *)
(* A request owns one SQLAlchemy session, hence one PostgreSQL transaction *)
(* at a time at READ COMMITTED: each statement sees what was committed     *)
(* when it started, and a write waits for the row lock (or the unique      *)
(* index entry) of an uncommitted writer of the same order.                *)
(***************************************************************************)
EXTENDS FiniteSets, Naturals

CONSTANTS
    Orders,    \* (client_id, po_number): the unique key and the cache key
    Sessions,  \* request slots, each with a session of its own
    Columns,   \* header columns upsert may update (status, vendor, ...)
    Values,    \* what a header column may hold
    Lines,     \* item line numbers
    Contents,  \* the rest of an item: material, quantities, price
    Payloads,  \* the orders the callers pass to upsert
    Faults,    \* which of "redis", "database", "crash" may happen
    None       \* Python's None: no row, no cache entry, no value

Item == [line: Lines, content: Contents]
Row == [header: [Columns -> Values], items: SUBSET Item]

ASSUME PayloadsAssumption == Payloads \subseteq Row
ASSUME NoneAssumption == None \notin Row \cup Orders \cup Sessions

VARIABLES
    db,        \* db[o]: the committed row of order o with its items, or None
    cache,     \* cache[o]: the Redis entry po:<o>, or None
    writer,    \* writer[o]: the session with an uncommitted write of o
    call,      \* call[s]: the repository call session s is in
    broken,    \* sessions that must be rolled back before another statement
    overtaken, \* history: calls whose order was rewritten after they read it
    tainted    \* history: entries filled by an overtaken read, or whose
               \* eviction was lost

vars == <<db, cache, writer, call, broken, overtaken, tainted>>

Resting == {"idle", "found", "missing", "stored", "failed"}
ReadSteps == {"get", "header", "items", "fill"}
WriteSteps == {"select", "flush", "delete", "commit", "evict"}
Steps == Resting \cup ReadSteps \cup WriteSteps

\* at: the statement about to be sent, or how the last call ended;
\* want: the order being upserted; seen: what the call read so far.
Call == [at: Steps, order: Orders \cup {None},
         want: Row \cup {None}, seen: Row \cup {None}]

NoCall == [at |-> "idle", order |-> None, want |-> None, seen |-> None]

Init ==
    /\ db = [o \in Orders |-> None]
    /\ cache = [o \in Orders |-> None]
    /\ writer = [o \in Orders |-> None]
    /\ call = [s \in Sessions |-> NoCall]
    /\ broken = {}
    /\ overtaken = {}
    /\ tainted = {}

At(s, step) == call[s].at = step

Go(s, step) == call' = [call EXCEPT ![s].at = step]

\* The request was served, but its answer may be lost: the caller then sees
\* an exception although the effect took place.
Answer(s, step, server) ==
    \/ Go(s, step)
    \/ server \in Faults /\ Go(s, "failed")

HeaderOnly(row) == IF row = None THEN None ELSE [row EXCEPT !.items = {}]

LinesDistinct(items) ==
    \A i, j \in items : i.line = j.line => i = j

(***************************************************************************)
(* The callers: a request enters the repository, or ends.                  *)
(***************************************************************************)
StartFind(s, o) ==
    /\ call[s].at \in Resting
    /\ call' = [call EXCEPT ![s] = [at |-> "get", order |-> o,
                                    want |-> None, seen |-> None]]
    /\ UNCHANGED <<db, cache, writer, broken, overtaken, tainted>>

StartUpsert(s, o, order) ==
    /\ call[s].at \in Resting
    /\ call' = [call EXCEPT ![s] = [at |-> "select", order |-> o,
                                    want |-> order, seen |-> None]]
    /\ UNCHANGED <<db, cache, writer, broken, overtaken, tainted>>

\* The request ends and get_session closes its session.
EndRequest(s) ==
    /\ call[s].at \in Resting
    /\ call[s] # NoCall
    /\ call' = [call EXCEPT ![s] = NoCall]
    /\ broken' = broken \ {s}
    /\ UNCHANGED <<db, cache, writer, overtaken, tainted>>

(***************************************************************************)
(* find_by_client_and_number                                               *)
(***************************************************************************)
CacheHit(s) ==
    LET o == call[s].order IN
    /\ At(s, "get")
    /\ cache[o] # None
    /\ call' = [call EXCEPT ![s].at = "found", ![s].seen = cache[o]]
    /\ UNCHANGED <<db, cache, writer, broken, overtaken, tainted>>

CacheMiss(s) ==
    /\ At(s, "get")
    /\ cache[call[s].order] = None
    /\ Go(s, "header")
    /\ UNCHANGED <<db, cache, writer, broken, overtaken, tainted>>

ReadHeader(s) ==
    LET row == db[call[s].order] IN
    /\ At(s, "header")
    /\ s \notin broken
    /\ call' = [call EXCEPT
                  ![s].at = IF row = None THEN "missing" ELSE "items",
                  ![s].seen = HeaderOnly(row)]
    /\ UNCHANGED <<db, cache, writer, broken, overtaken, tainted>>

\* selectinload loads the items with a second statement, whose snapshot is
\* a later one.
ReadItems(s) ==
    /\ At(s, "items")
    /\ call' = [call EXCEPT ![s].at = "fill",
                            ![s].seen.items = db[call[s].order].items]
    /\ UNCHANGED <<db, cache, writer, broken, overtaken, tainted>>

Fill(s) ==
    LET o == call[s].order IN
    /\ At(s, "fill")
    /\ cache' = [cache EXCEPT ![o] = call[s].seen]
    /\ tainted' = IF s \in overtaken THEN tainted \cup {o} ELSE tainted \ {o}
    /\ Answer(s, "found", "redis")
    /\ overtaken' = overtaken \ {s}
    /\ UNCHANGED <<db, writer, broken>>

(***************************************************************************)
(* upsert                                                                  *)
(***************************************************************************)
SelectRow(s) ==
    /\ At(s, "select")
    /\ s \notin broken
    /\ call' = [call EXCEPT ![s].at = "flush",
                            ![s].seen = HeaderOnly(db[call[s].order])]
    /\ UNCHANGED <<db, cache, writer, broken, overtaken, tainted>>

Acquire(s) ==
    LET o == call[s].order IN
    /\ writer[o] = None
    /\ writer' = [writer EXCEPT ![o] = s]

\* Mutation of Release: the transaction is left open.
ReleaseNothing(s) == UNCHANGED writer

Release(s) ==
    writer' = [o \in Orders |-> IF writer[o] = s THEN None ELSE writer[o]]

\* The row was there: the delete below autoflushes an UPDATE of it.
UpdateHeader(s) ==
    /\ At(s, "flush")
    /\ call[s].seen # None
    /\ Acquire(s)
    /\ Go(s, "delete")
    /\ UNCHANGED <<db, cache, broken, overtaken, tainted>>

\* Mutation of DeleteItems: the old items are left in place.
DeleteNothing(s) ==
    /\ At(s, "delete")
    /\ Go(s, "commit")
    /\ UNCHANGED <<db, cache, writer, broken, overtaken, tainted>>

\* Mutation of DeleteItems: the DELETE commits on its own.
DeleteItemsAtOnce(s) ==
    LET o == call[s].order IN
    /\ At(s, "delete")
    /\ call' = [call EXCEPT ![s].at = "commit", ![s].seen.items = db[o].items]
    /\ db' = [db EXCEPT ![o].items = {}]
    /\ UNCHANGED <<cache, writer, broken, overtaken, tainted>>

DeleteItems(s) ==
    /\ At(s, "delete")
    /\ call' = [call EXCEPT ![s].at = "commit",
                            ![s].seen.items = db[call[s].order].items]
    /\ UNCHANGED <<db, cache, writer, broken, overtaken, tainted>>

\* Mutation of InsertHeader: no unique key on (client_id, po_number).
InsertHeaderUnchecked(s) ==
    /\ At(s, "flush")
    /\ call[s].seen = None
    /\ Acquire(s)
    /\ Go(s, "commit")
    /\ UNCHANGED <<db, cache, broken, overtaken, tainted>>

\* The row was not there: flush the INSERT, unless another session stored
\* the order in the meantime.
InsertHeader(s) ==
    /\ At(s, "flush")
    /\ call[s].seen = None
    /\ db[call[s].order] = None
    /\ Acquire(s)
    /\ Go(s, "commit")
    /\ UNCHANGED <<db, cache, broken, overtaken, tainted>>

DuplicateOrder(s) ==
    LET o == call[s].order IN
    /\ At(s, "flush")
    /\ call[s].seen = None
    /\ writer[o] = None
    /\ db[o] # None
    /\ Go(s, "failed")
    /\ broken' = broken \cup {s}
    /\ overtaken' = overtaken \ {s}
    /\ UNCHANGED <<db, cache, writer, tainted>>

\* Mutation of Written: the re-ingestion forgets to update the header.
WrittenItemsOnly(s) ==
    LET c == call[s]
        stored == db[c.order]
    IN  IF c.seen = None THEN c.want
        ELSE [header |-> stored.header,
              items |-> (stored.items \ c.seen.items) \cup c.want.items]

\* What the transaction leaves in the row.  SQLAlchemy's UPDATE names only
\* the columns that differ from the row the session selected; the others
\* keep what is stored.  The old items that DELETE saw make room for the
\* new ones.
Written(s) ==
    LET c == call[s]
        stored == db[c.order]
    IN  IF c.seen = None THEN c.want
        ELSE [header |-> [k \in Columns |->
                            IF c.want.header[k] # c.seen.header[k]
                              THEN c.want.header[k] ELSE stored.header[k]],
              items |-> (stored.items \ c.seen.items) \cup c.want.items]

\* The calls that read o from the database and are still to act on it.
Readers(o) ==
    {t \in Sessions : call[t].order = o /\ call[t].at \in {"items", "fill", "flush"}}

Commit(s) ==
    LET o == call[s].order IN
    /\ At(s, "commit")
    /\ LinesDistinct(Written(s).items)
    /\ db' = [db EXCEPT ![o] = Written(s)]
    /\ Release(s)
    /\ overtaken' = (overtaken \cup Readers(o)) \ {s}
    /\ \/ /\ Go(s, "evict")
          /\ UNCHANGED <<broken, tainted>>
       \/ /\ "database" \in Faults
          /\ Go(s, "failed")
          /\ broken' = broken \cup {s}
          /\ tainted' = tainted \cup {o}
    /\ UNCHANGED cache

\* Two items of the payload share a line: uq_purchase_order_items rejects
\* the INSERT that commit() flushes.
DuplicateLine(s) ==
    /\ At(s, "commit")
    /\ ~LinesDistinct(Written(s).items)
    /\ Release(s)
    /\ Go(s, "failed")
    /\ broken' = broken \cup {s}
    /\ overtaken' = overtaken \ {s}
    /\ UNCHANGED <<db, cache, tainted>>

\* Mutation of Evict: the key is not deleted after the commit.
EvictNothing(s) ==
    /\ At(s, "evict")
    /\ tainted' = tainted \ {call[s].order}
    /\ Answer(s, "stored", "redis")
    /\ UNCHANGED <<db, cache, writer, broken, overtaken>>

Evict(s) ==
    LET o == call[s].order IN
    /\ At(s, "evict")
    /\ cache' = [cache EXCEPT ![o] = None]
    /\ tainted' = tainted \ {o}
    /\ Answer(s, "stored", "redis")
    /\ UNCHANGED <<db, writer, broken, overtaken>>

(***************************************************************************)
(* What can go wrong                                                       *)
(***************************************************************************)
\* A statement failed earlier in this request and nothing rolled back: the
\* session refuses the next one.
SessionRefuses(s) ==
    /\ call[s].at \in {"header", "select"}
    /\ s \in broken
    /\ Go(s, "failed")
    /\ UNCHANGED <<db, cache, writer, broken, overtaken, tainted>>

DatabaseFails(s) ==
    /\ "database" \in Faults
    /\ call[s].at \in {"header", "items", "select", "flush", "delete", "commit"}
    /\ Release(s)
    /\ Go(s, "failed")
    /\ broken' = broken \cup {s}
    /\ overtaken' = overtaken \ {s}
    /\ UNCHANGED <<db, cache, tainted>>

\* The command does not reach Redis.  A lost eviction leaves the old entry.
RedisFails(s) ==
    /\ "redis" \in Faults
    /\ call[s].at \in {"get", "fill", "evict"}
    /\ Go(s, "failed")
    /\ tainted' = IF At(s, "evict") THEN tainted \cup {call[s].order} ELSE tainted
    /\ overtaken' = overtaken \ {s}
    /\ UNCHANGED <<db, cache, writer, broken>>

\* A server process dies (or its requests are cancelled): PostgreSQL rolls
\* the open transactions back, Redis keeps its entries.
Crash(S) ==
    /\ "crash" \in Faults
    /\ call' = [s \in Sessions |-> IF s \in S THEN NoCall ELSE call[s]]
    /\ writer' = [o \in Orders |-> IF writer[o] \in S THEN None ELSE writer[o]]
    /\ broken' = broken \ S
    /\ overtaken' = overtaken \ S
    /\ tainted' = tainted \cup {call[s].order : s \in {t \in S : At(t, "evict")}}
    /\ UNCHANGED <<db, cache>>

\* Mutation of Drop: entries are stored without a TTL.
DropNothing(O) ==
    /\ \E o \in O : cache[o] # None
    /\ UNCHANGED vars

\* Entries leave Redis in another way: their TTL ends, delete_pattern
\* removes a batch, or Redis restarts empty.
Drop(O) ==
    /\ \E o \in O : cache[o] # None
    /\ cache' = [o \in Orders |-> IF o \in O THEN None ELSE cache[o]]
    /\ tainted' = tainted \ O
    /\ UNCHANGED <<db, writer, call, broken, overtaken>>

(***************************************************************************)
(* The specification                                                       *)
(***************************************************************************)
FindStep(s) ==
    CacheHit(s) \/ CacheMiss(s) \/ ReadHeader(s) \/ ReadItems(s) \/ Fill(s)

LockStep(s) == UpdateHeader(s) \/ InsertHeader(s) \/ DuplicateOrder(s)

UpsertStep(s) ==
    SelectRow(s) \/ DeleteItems(s) \/ Commit(s) \/ DuplicateLine(s) \/ Evict(s)

FailStep(s) == DatabaseFails(s) \/ RedisFails(s)

RepositoryStep(s) ==
    FindStep(s) \/ LockStep(s) \/ UpsertStep(s) \/ SessionRefuses(s) \/ FailStep(s)

CallerStep(s) ==
    \/ \E o \in Orders : StartFind(s, o)
    \/ \E o \in Orders, order \in Payloads : StartUpsert(s, o, order)
    \/ EndRequest(s)

Next ==
    \/ \E s \in Sessions : RepositoryStep(s) \/ CallerStep(s)
    \/ \E S \in SUBSET Sessions : Crash(S)
    \/ \E O \in SUBSET Orders : Drop(O)

Spec == Init /\ [][Next]_vars

\* A call that can go on does (the event loop resumes its coroutine), the
\* lock queue of PostgreSQL serves every waiter, and every cache entry
\* reaches the end of its TTL.  No caller, fault or crash is fair.
Fairness ==
    /\ \A s \in Sessions :
         /\ WF_vars(FindStep(s) \/ UpsertStep(s) \/ SessionRefuses(s))
         /\ SF_vars(LockStep(s))
    /\ \A o \in Orders : WF_vars(Drop({o}))

FairSpec == Spec /\ Fairness

(***************************************************************************)
(* Properties                                                              *)
(***************************************************************************)
\* Every variable has its type.
TypeOK ==
    /\ db \in [Orders -> Row \cup {None}]
    /\ cache \in [Orders -> Row \cup {None}]
    /\ writer \in [Orders -> Sessions \cup {None}]
    /\ call \in [Sessions -> Call]
    /\ broken \subseteq Sessions
    /\ overtaken \subseteq Sessions
    /\ tainted \subseteq Orders

\* A Redis entry that disagrees with the database has one of three causes:
\* the read that filled it was overtaken by a commit, the eviction that
\* should have removed it was lost, or that eviction is still to come.
\* Nothing else the repository does makes an entry stale.
StaleEntryHasCause ==
    \A o \in Orders :
        cache[o] \notin {None, db[o]} =>
            \/ o \in tainted
            \/ \E s \in Sessions : At(s, "evict") /\ call[s].order = o

\* find_by_client_and_number is not atomic (header and items are two
\* statements), yet a read that no commit overtook holds the order exactly
\* as it is stored when it is about to be cached and returned.
UndisturbedReadIsCurrent ==
    \A s \in Sessions :
        At(s, "fill") /\ s \notin overtaken => call[s].seen = db[call[s].order]

\* upsert replaces the items as a whole: after any commit the order has
\* exactly the items of the upsert that committed, and never a line left
\* over from, or mixed with, a concurrent upsert of the same order.
ItemsReplacedWhole ==
    [][\A o \in Orders : db'[o] # db[o] =>
          \E s \in Sessions :
              /\ writer[o] = s
              /\ call[s].order = o
              /\ db'[o].items = call[s].want.items]_vars

\* An upsert that no other commit overtook between its SELECT and its lock
\* stores exactly the order it was given, header and items.
UndisturbedCommitStoresOrder ==
    [][\A s \in Sessions :
          Commit(s) /\ s \notin overtaken => db'[call[s].order] = call[s].want]_vars

\* An upsert that found no row never overwrites one that appeared since:
\* the unique key turns the race of two first ingestions into an error.
InsertNeverOverwrites ==
    [][\A s \in Sessions :
          /\ At(s, "commit") /\ call[s].seen = None
          /\ db'[call[s].order] # db[call[s].order]
          => db[call[s].order] = None]_vars

\* Every repository call returns, a result or an exception: no request waits
\* forever for the lock of another.
CallReturns ==
    \A s \in Sessions :
        call[s].at \notin Resting ~> call[s].at \in Resting

\* Once an order is no longer rewritten, its cache entry settles on the
\* stored row for good, whatever fills and evictions were in flight or lost.
CacheConverges ==
    \A o \in Orders :
        <>[][db'[o] = db[o]]_vars => <>[](cache[o] \in {None, db[o]})

\* docs/visao-geral.md: on a re-ingestion the header is updated, the items
\* are replaced, "last write wins": the upsert that commits leaves its own
\* header behind.
LastWriteWins ==
    [][\A s \in Sessions :
          Commit(s) => db'[call[s].order].header = call[s].want.header]_vars

(***************************************************************************)
(* The inductive invariant behind the properties                           *)
(***************************************************************************)
\* What a call holds at each step: an order key from its first statement on,
\* the order to write throughout upsert, a row once one was read.
CallsFormed ==
    \A s \in Sessions : LET c == call[s] IN
        /\ c.at # "idle" => c.order \in Orders
        /\ c.at \in WriteSteps => c.want \in Row
        /\ c.at \in {"items", "fill", "delete"} => c.seen \in Row

\* An order is locked exactly while its writer is between flush and commit,
\* so at most one session rewrites it.
LocksHeld ==
    /\ \A o \in Orders : writer[o] # None =>
          At(writer[o], "delete") \/ At(writer[o], "commit")
    /\ \A o \in Orders : writer[o] # None => call[writer[o]].order = o
    /\ \A s \in Sessions :
          At(s, "delete") \/ At(s, "commit") => writer[call[s].order] = s

\* A row that was read is still there; one that was missed is still missing
\* when the INSERT holds its unique key; the DELETE under the lock took all
\* the items there are.
RowsKnown ==
    \A s \in Sessions : LET c == call[s] IN
        /\ c.at \in {"items", "fill", "flush", "delete", "commit"} /\ c.seen # None
             => db[c.order] # None
        /\ c.at = "commit" /\ c.seen = None => db[c.order] = None
        /\ c.at = "commit" /\ c.seen # None => c.seen.items = db[c.order].items

\* What a call that was not overtaken has read is what is stored.
ReadsCurrent ==
    \A s \in Sessions \ overtaken : LET c == call[s] IN
        /\ c.at \in {"items", "flush", "delete", "commit"} /\ c.seen # None
             => c.seen.header = db[c.order].header
        /\ c.at = "flush" /\ c.seen = None => db[c.order] = None
        /\ c.at = "fill" => c.seen = db[c.order]

\* A broken session is between calls or before its next statement.
BrokenSessionsIdle ==
    \A s \in broken : call[s].at \in Resting \cup {"get", "header", "select"}

\* Together with the types and the causes of stale entries these are
\* preserved by every step.
IInv ==
    /\ TypeOK
    /\ CallsFormed
    /\ LocksHeld
    /\ RowsKnown
    /\ ReadsCurrent
    /\ BrokenSessionsIdle
    /\ StaleEntryHasCause
=============================================================================
