----------------------------- MODULE UserListing -----------------------------
(***************************************************************************)
(* GET /admin/users, UserRepository.find_all: a count and a page cut by    *)
(* OFFSET, newest first, while administrators create users.  The sweep     *)
(* follows has_next, which build_pagination derives from the count.        *)
(***************************************************************************)
EXTENDS FiniteSets, Naturals

CONSTANTS
    Users,     \* ids, one per user that is created
    Admin,     \* the user of the initial migration
    Sessions,  \* the requests that create users
    PageSize,  \* page_size
    MaxTime,   \* bound of the clock
    None

\* What is assumed of the constants.
ConstantsOK ==
    /\ Admin \in Users /\ IsFiniteSet(Users) /\ None \notin Users
    /\ PageSize \in Nat \ {0}
    /\ MaxTime \in Nat

VARIABLES
    stored,      \* the committed rows of users
    created_at,  \* created_at[u]: the time in the row of u
    clock,       \* now()
    create,      \* create[s]: the user session s creates, or None
    sweep,       \* the caller's sweep: its page and the count of that page
    start,       \* history: the users there were when the sweep began
    joined,      \* history: the users stored since then
    late,        \* history: those of them stored since the last count
    returned,    \* history: the users the sweep has returned
    repeated     \* history: those it has returned again

table == <<stored, created_at, create>>
history == <<start, joined, late, returned, repeated>>
vars == <<table, clock, sweep, history>>

NoSweep == [at |-> "none", page |-> 1, total |-> 0]

Init ==
    /\ stored = {Admin}
    /\ created_at = [u \in Users |-> 0]
    /\ clock = 0
    /\ create = [s \in Sessions |-> None]
    /\ sweep = NoSweep
    /\ start = {}
    /\ joined = {}
    /\ late = {}
    /\ returned = {}
    /\ repeated = {}

Tick ==
    /\ clock < MaxTime
    /\ clock' = clock + 1
    /\ UNCHANGED <<table, sweep, history>>

(***************************************************************************)
(* Creating users                                                          *)
(***************************************************************************)
\* now() is the time of the first statement of the transaction, the search for
\* the username.
Begin(s, u) ==
    /\ create[s] = None
    /\ u \notin stored
    /\ \A r \in Sessions : create[r] # u
    /\ create' = [create EXCEPT ![s] = u]
    /\ created_at' = [created_at EXCEPT ![u] = clock]
    /\ UNCHANGED <<stored, clock, sweep, history>>

Commit(s) ==
    /\ create[s] # None
    /\ stored' = stored \cup {create[s]}
    /\ create' = [create EXCEPT ![s] = None]
    /\ joined' = joined \cup {u \in {create[s]} : sweep.at \in {"count", "select"}}
    /\ late' = late \cup {u \in {create[s]} : sweep.at = "select"}
    /\ UNCHANGED <<created_at, clock, sweep, start, returned, repeated>>

\* The name is taken, a statement fails, or the server dies.
Abort(s) ==
    /\ create[s] # None
    /\ create' = [create EXCEPT ![s] = None]
    /\ created_at' = [created_at EXCEPT ![create[s]] = 0]
    /\ UNCHANGED <<stored, clock, sweep, history>>

(***************************************************************************)
(* The sweep                                                               *)
(***************************************************************************)
\* Mutation of TotalPages: the last page counts only when it is full.
TotalPagesFull(total) ==
    IF total \div PageSize = 0 THEN 1 ELSE total \div PageSize

\* max(1, ceil(total / page_size))
TotalPages(total) ==
    IF total = 0 THEN 1 ELSE (total + PageSize - 1) \div PageSize

HasNext(page, total) == page < TotalPages(total)

Newer(U, V) == \A u \in U, v \in V : created_at[u] >= created_at[v]

\* head, page, and what is left are in the order of the query, which leaves
\* users of the same time in any order.
InOrder(head, page) ==
    /\ Newer(head, stored \ head)
    /\ Newer(page, (stored \ head) \ page)

\* The first users up to the offset are skipped, those up to the limit taken.
IsPage(head, page, offset) ==
    LET left == Cardinality(stored \ head) IN
    /\ Cardinality(head) = IF offset < Cardinality(stored) THEN offset ELSE Cardinality(stored)
    /\ Cardinality(page) = IF PageSize < left THEN PageSize ELSE left
    /\ InOrder(head, page)

\* Of the sweeps, which change nothing, one is followed.
StartSweep ==
    /\ sweep.at = "none"
    /\ sweep' = [sweep EXCEPT !.at = "count"]
    /\ start' = stored
    /\ UNCHANGED <<table, clock, joined, late, returned, repeated>>

Count ==
    /\ sweep.at = "count"
    /\ sweep' = [sweep EXCEPT !.at = "select", !.total = Cardinality(stored)]
    /\ late' = {}
    /\ UNCHANGED <<table, clock, start, joined, returned, repeated>>

\* A later snapshot; has_next still speaks of the count.
SelectPage ==
    /\ sweep.at = "select"
    /\ \E head \in SUBSET stored : \E page \in SUBSET (stored \ head) :
         /\ IsPage(head, page, (sweep.page - 1) * PageSize)
         /\ returned' = returned \cup page
         /\ repeated' = repeated \cup (returned \cap page)
    /\ sweep' = IF HasNext(sweep.page, sweep.total)
                  THEN [sweep EXCEPT !.at = "count", !.page = @ + 1]
                  ELSE [sweep EXCEPT !.at = "end"]
    /\ UNCHANGED <<table, clock, start, joined, late>>

Next ==
    \/ Tick
    \/ \E s \in Sessions : (\E u \in Users : Begin(s, u)) \/ Commit(s) \/ Abort(s)
    \/ StartSweep
    \/ Count
    \/ SelectPage

Spec == Init /\ [][Next]_vars

(***************************************************************************)
(* Properties                                                              *)
(***************************************************************************)
\* Every variable has its type, and no page is asked for that cannot be.
TypeOK ==
    /\ stored \subseteq Users
    /\ created_at \in [Users -> Nat]
    /\ clock \in Nat
    /\ create \in [Sessions -> Users \cup {None}]
    /\ sweep \in [at: {"none", "count", "select", "end"}, page: 1 .. Cardinality(Users),
                  total: 0 .. Cardinality(Users)]
    /\ {start, joined, late, returned, repeated} \subseteq SUBSET Users

\* Users of one time may come in another order each time they are queried.
NoTies == \A u, v \in stored : u # v => created_at[u] # created_at[v]

\* A sweep misses no more users than were created between the count and the
\* rows of its last page, which push as many beyond the last page it was told
\* of, and returns no more of them twice than were created while it ran.
\* Without creations the offsets cut the list into pages that fit.
UserSweepErrs ==
    /\ TypeOK
    /\ NoTies =>
         /\ sweep.at = "end" => Cardinality(start \ returned) <= Cardinality(late)
         /\ Cardinality(repeated) <= Cardinality(joined)

(***************************************************************************)
(* Why UserSweepErrs holds                                                 *)
(***************************************************************************)
\* The first n users of the list, in some order the query may give them.
IsHead(head, n) ==
    /\ head \subseteq stored
    /\ Cardinality(head) = IF n < Cardinality(stored) THEN n ELSE Cardinality(stored)
    /\ Newer(head, stored \ head)

Offset == (sweep.page - 1) * PageSize

\* What is being created is not stored, and by one session only; nobody was
\* created in the future.
CreationsFormed ==
    /\ \A u \in Users : created_at[u] <= clock
    /\ \A s \in Sessions : create[s] # None => create[s] \notin stored
    /\ \A r, s \in Sessions : create[r] = create[s] /\ create[s] # None => r = s

\* The history speaks of stored users, and of none before a sweep begins.
HistoryFormed ==
    /\ start \cup joined \cup late \cup returned \cup repeated \subseteq stored
    /\ start \cap joined = {}
    /\ sweep.at = "none" =>
         /\ sweep.page = 1
         /\ start \cup joined \cup returned \cup repeated = {}
    /\ sweep.at \in {"none", "count"} => sweep.page <= Cardinality(stored)

\* Those stored since the count are the ones it does not include.
CountIsOld ==
    /\ sweep.total <= Cardinality(stored)
    /\ sweep.at = "select" =>
         /\ Cardinality(stored) = sweep.total + Cardinality(late)
         /\ sweep.page <= Cardinality(stored)

\* Whoever was there from the start and now comes before the page has been
\* returned: new users only push the others towards the end.
HeadReturned ==
    sweep.at \in {"count", "select"} =>
        \A head \in SUBSET stored : IsHead(head, Offset) => head \cap start \subseteq returned

\* Every user that has joined pushed at most one that was returned beyond
\* the head, where the sweep meets it again.
PushedBack ==
    sweep.at \in {"count", "select"} =>
        \A head \in SUBSET stored : IsHead(head, Offset) =>
            Cardinality(repeated \cup (returned \ head)) <= Cardinality(joined)

UInv ==
    /\ TypeOK
    /\ Admin \in stored
    /\ CreationsFormed
    /\ HistoryFormed
    /\ CountIsOld
    /\ NoTies => HeadReturned /\ PushedBack
    /\ UserSweepErrs
=============================================================================
