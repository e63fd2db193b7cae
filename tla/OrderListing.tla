---------------------------- MODULE OrderListing ----------------------------
(***************************************************************************)
(* PostgresPurchaseOrderRepository.find_many: the platform sweeps the      *)
(* orders page by page, newest first, while ingestions go on storing and   *)
(* re-storing them.  The pages are cut by a keyset on (loaded_at, id), so  *)
(* what upsert does to loaded_at decides what a sweep sees.                *)
(***************************************************************************)
EXTENDS FiniteSets, Naturals

CONSTANTS
    Orders,    \* the orders, each represented by its id, the tie-breaker
    Sessions,  \* the ingestions
    PageSize,  \* page_size
    MaxTime,   \* bound of the clock
    Matches,   \* whether an order may pass, or may fail, the filters
    None

ASSUME OrdersAssumption == Orders \subseteq Nat /\ IsFiniteSet(Orders)
ASSUME PageSizeAssumption == PageSize \in Nat \ {0}
ASSUME MaxTimeAssumption == MaxTime \in Nat
ASSUME MatchesAssumption == Matches \subseteq BOOLEAN
ASSUME NoneAssumption == None \notin Sessions

\* The columns of a stored order that find_many reads; matches stands for
\* the four filters together.
Row == [stored: BOOLEAN, loaded_at: Nat, matches: BOOLEAN]

NoRow == [stored |-> FALSE, loaded_at |-> 0, matches |-> FALSE]

VARIABLES
    db,         \* db[o]: the committed row of order o
    clock,      \* datetime.now
    load,       \* load[s]: the upsert session s is in
    writer,     \* writer[o]: the session with an uncommitted write of o
    sweep,      \* the caller's sweep: its next cursor
    start,      \* history: the orders that matched when the sweep began
    touched,    \* history: orders stored since then
    regressed,  \* history: orders whose loaded_at went back since then
    returned,   \* history: the orders the sweep has returned
    repeated    \* history: those it has returned again

loads == <<load, writer>>
history == <<start, touched, regressed, returned, repeated>>
vars == <<db, clock, loads, sweep, history>>

Steps == {"none", "parsed", "selected", "written"}

\* What of the row the session selected its UPDATE depends on.
Seen == [stored: BOOLEAN, loaded_at: Nat]

Unseen == [stored |-> FALSE, loaded_at |-> 0]

Load == [at: Steps, order: Orders \cup {None}, stamp: Nat, seen: Seen]

NoLoad == [at |-> "none", order |-> None, stamp |-> 0, seen |-> Unseen]

\* A cursor is the (loaded_at, id) of a row; the first page has none.
Cursor == [given: BOOLEAN, loaded_at: Nat, id: Nat]

NoCursor == [given |-> FALSE, loaded_at |-> 0, id |-> 0]

NoSweep == [at |-> "none", cursor |-> NoCursor]

Init ==
    /\ db = [o \in Orders |-> NoRow]
    /\ clock = 0
    /\ load = [s \in Sessions |-> NoLoad]
    /\ writer = [o \in Orders |-> None]
    /\ sweep = NoSweep
    /\ start = {}
    /\ touched = {}
    /\ regressed = {}
    /\ returned = {}
    /\ repeated = {}

Tick ==
    /\ clock < MaxTime
    /\ clock' = clock + 1
    /\ UNCHANGED <<db, loads, sweep, history>>

(***************************************************************************)
(* Ingestion, as far as loaded_at goes                                     *)
(***************************************************************************)
\* The adapter stamps the order when it parses the payload.
Parse(s, o) ==
    /\ load[s] = NoLoad
    /\ load' = [load EXCEPT ![s] = [at |-> "parsed", order |-> o,
                                    stamp |-> clock, seen |-> Unseen]]
    /\ UNCHANGED <<db, clock, writer, sweep, history>>

\* An order that is already stored is stamped anew, before its row is locked.
Select(s) ==
    LET row == db[load[s].order] IN
    /\ load[s].at = "parsed"
    /\ load' = [load EXCEPT ![s].at = "selected",
                            ![s].seen = [stored |-> row.stored, loaded_at |-> row.loaded_at],
                            ![s].stamp = IF row.stored THEN clock ELSE @]
    /\ UNCHANGED <<db, clock, writer, sweep, history>>

\* The UPDATE or the INSERT waits for the other writer of the order.
Write(s) ==
    LET o == load[s].order IN
    /\ load[s].at = "selected"
    /\ writer[o] = None
    /\ load[s].seen.stored \/ ~db[o].stored
    /\ writer' = [writer EXCEPT ![o] = s]
    /\ load' = [load EXCEPT ![s].at = "written"]
    /\ UNCHANGED <<db, clock, sweep, history>>

\* The UPDATE leaves out a column that equals the row the session selected.
LoadedAt(s) ==
    IF load[s].seen.stored /\ load[s].stamp = load[s].seen.loaded_at
      THEN db[load[s].order].loaded_at
      ELSE load[s].stamp

Commit(s) ==
    LET o == load[s].order IN
    /\ load[s].at = "written"
    /\ \E m \in Matches :
         db' = [db EXCEPT ![o] = [stored |-> TRUE, loaded_at |-> LoadedAt(s), matches |-> m]]
    /\ load' = [load EXCEPT ![s] = NoLoad]
    /\ writer' = [writer EXCEPT ![o] = None]
    /\ IF sweep.at = "page"
         THEN /\ touched' = touched \cup {o}
              /\ regressed' = regressed \cup {p \in {o} : LoadedAt(s) < db[o].loaded_at}
         ELSE UNCHANGED <<touched, regressed>>
    /\ UNCHANGED <<clock, sweep, start, returned, repeated>>

\* A duplicate INSERT, any other failure, or a crash: rolled back.
Abort(s) ==
    /\ load[s] # NoLoad
    /\ load' = [load EXCEPT ![s] = NoLoad]
    /\ writer' = [o \in Orders |-> IF writer[o] = s THEN None ELSE writer[o]]
    /\ UNCHANGED <<db, clock, sweep, history>>

(***************************************************************************)
(* The sweep                                                               *)
(***************************************************************************)
KeyOf(o) == [given |-> TRUE, loaded_at |-> db[o].loaded_at, id |-> o]

\* The order of the pages, from the last row to the first.
Before(k, c) ==
    \/ k.loaded_at < c.loaded_at
    \/ k.loaded_at = c.loaded_at /\ k.id < c.id

\* Mutation of Candidates: the cursor's own row is listed again.
CandidatesFromCursor(c) ==
    {o \in Orders : /\ db[o].stored /\ db[o].matches
                    /\ ~c.given \/ Before(KeyOf(o), c) \/ KeyOf(o) = c}

\* Mutation of Candidates: the query does not break ties by id.
CandidatesByTime(c) ==
    {o \in Orders : /\ db[o].stored /\ db[o].matches
                    /\ ~c.given \/ db[o].loaded_at < c.loaded_at}

\* The rows the query selects, before its LIMIT.
Candidates(c) ==
    {o \in Orders : /\ db[o].stored /\ db[o].matches
                    /\ ~c.given \/ Before(KeyOf(o), c)}

\* The first PageSize rows of them in the order of the query.
IsPage(page, rows) ==
    /\ Cardinality(page) =
         IF Cardinality(rows) > PageSize THEN PageSize ELSE Cardinality(rows)
    /\ \A o \in page, p \in rows \ page : Before(KeyOf(p), KeyOf(o))

IsLast(o, page) ==
    o \in page /\ \A p \in page \ {o} : Before(KeyOf(o), KeyOf(p))

\* Of the sweeps, which change nothing, one is followed.
StartSweep ==
    /\ sweep = NoSweep
    /\ sweep' = [at |-> "page", cursor |-> NoCursor]
    /\ start' = {o \in Orders : db[o].stored /\ db[o].matches}
    /\ UNCHANGED <<db, clock, loads, touched, regressed, returned, repeated>>

\* One call of find_many.  The row beyond the page says whether there is a
\* next one; its cursor is the last row of this page.
NextPage ==
    LET rows == Candidates(sweep.cursor) IN
    /\ sweep.at = "page"
    /\ \E page \in SUBSET rows :
         /\ IsPage(page, rows)
         /\ returned' = returned \cup page
         /\ repeated' = repeated \cup (returned \cap page)
         /\ \/ /\ page = rows
               /\ sweep' = [at |-> "end", cursor |-> NoCursor]
            \/ /\ page # rows
               /\ \E o \in page :
                    /\ IsLast(o, page)
                    /\ sweep' = [at |-> "page", cursor |-> KeyOf(o)]
    /\ UNCHANGED <<db, clock, loads, start, touched, regressed>>

Next ==
    \/ Tick
    \/ \E s \in Sessions :
         \/ \E o \in Orders : Parse(s, o)
         \/ Select(s) \/ Write(s) \/ Commit(s) \/ Abort(s)
    \/ StartSweep
    \/ NextPage

Spec == Init /\ [][Next]_vars

\* The caller of a sweep asks for the next page as long as there is one.
FairSpec == Spec /\ WF_vars(NextPage)

(***************************************************************************)
(* Properties                                                              *)
(***************************************************************************)
\* Every variable has its type.
TypeOK ==
    /\ db \in [Orders -> Row]
    /\ clock \in Nat
    /\ load \in [Sessions -> Load]
    /\ writer \in [Orders -> Sessions \cup {None}]
    /\ sweep \in [at: {"none", "page", "end"}, cursor: Cursor]
    /\ start \subseteq Orders
    /\ touched \subseteq Orders
    /\ regressed \subseteq Orders
    /\ returned \subseteq Orders
    /\ repeated \subseteq Orders

\* A finished sweep has returned every order that matched when it began and
\* was not stored again meanwhile, however many orders came in: what is
\* inserted while the sweep runs never pushes a row across a page boundary.
SweepCoversUntouched ==
    sweep.at = "end" => start \ touched \subseteq returned

\* An order is listed twice only if its loaded_at went back in between, which
\* takes two overlapping upserts that commit in the other order than they
\* took their time.  A later loaded_at never makes a sweep meet it again.
RepeatsAreRegressions ==
    repeated \subseteq regressed

\* A sweep comes to its last page although ingestions keep storing orders.
SweepEnds ==
    sweep.at = "page" ~> sweep.at = "end"

\* README.md: with a cursor "nenhum registro e perdido ou repetido", whatever
\* is ingested meanwhile: an order that was there when the sweep began has
\* been returned when it ends.
NoOrderLost ==
    sweep.at = "end" => start \subseteq returned

(***************************************************************************)
(* The inductive invariant behind the properties                           *)
(***************************************************************************)
\* A load knows its order.
LoadsFormed ==
    \A s \in Sessions : load[s].at # "none" => load[s].order \in Orders

\* While a sweep runs, an untouched order is unchanged, and it was returned or
\* lies ahead.
UntouchedAhead ==
    sweep.at = "page" =>
        \A o \in start \ touched :
            /\ db[o].stored /\ db[o].matches
            /\ o \in returned \/ o \in Candidates(sweep.cursor)

\* An order that was returned and did not go back lies behind the cursor,
\* which only a running sweep has.
ReturnedBehind ==
    /\ sweep.cursor.given => sweep.at = "page"
    /\ \A o \in returned : db[o].stored
    /\ sweep.at # "end" /\ ~sweep.cursor.given => returned = {}
    /\ sweep.cursor.given =>
         \A o \in returned \ regressed : ~Before(KeyOf(o), sweep.cursor)

LInv ==
    /\ TypeOK
    /\ LoadsFormed
    /\ UntouchedAhead
    /\ ReturnedBehind
    /\ SweepCoversUntouched
    /\ RepeatsAreRegressions
=============================================================================
