-------------------------- MODULE ConferenceListing --------------------------
(***************************************************************************)
(* PostgresConferenceRepository.find_many: the platform sweeps the         *)
(* conferences page by page, newest first, while further invoices are      *)
(* checked.  The pages are cut as those of OrderListing, which this module *)
(* implements, but a conference never changes once it is stored, and each  *)
(* comes with its divergences, which another statement reads.              *)
(***************************************************************************)
EXTENDS FiniteSets, Naturals

CONSTANTS
    Conferences,  \* the ids, one per conference that is made
    Sessions,     \* the requests that check invoices
    PageSize,     \* page_size
    MaxTime,      \* bound of the clock
    Matches,      \* whether a conference may pass, or may fail, the filters
    None

\* What the proofs assume of the constants.
ConstantsOK ==
    /\ Conferences \subseteq Nat /\ IsFiniteSet(Conferences)
    /\ PageSize \in Nat \ {0}
    /\ MaxTime \in Nat
    /\ Matches \subseteq BOOLEAN
    /\ None \notin Sessions \cup Conferences

\* The columns find_many reads; matches stands for the two filters, whole for
\* its rows in conference_divergences.
Row == [stored: BOOLEAN, checked_at: Nat, matches: BOOLEAN, whole: BOOLEAN]

NoRow == [stored |-> FALSE, checked_at |-> 0, matches |-> FALSE, whole |-> FALSE]

VARIABLES
    rows,     \* rows[c]: the committed rows of conference c
    clock,    \* datetime.now
    save,     \* save[s]: the conference session s saves
    sweep,    \* the caller's sweep: its cursor, and the page being read
    start,    \* history: the conferences that matched when the sweep began
    added,    \* history: conferences stored since then
    listed,   \* history: the conferences the sweep has listed
    again,    \* history: those it has listed again
    partial   \* history: those it has listed without their divergences

history == <<start, added, listed, again, partial>>
vars == <<rows, clock, save, sweep, history>>

Saving == {"checked", "inserted", "written"}

Save == [at: {"none"} \cup Saving, id: Conferences \cup {None}, checked_at: Nat]

NoSave == [at |-> "none", id |-> None, checked_at |-> 0]

\* A cursor is the (checked_at, id) of a row; the first page has none.
Cursor == [given: BOOLEAN, checked_at: Nat, id: Nat]

NoCursor == [given |-> FALSE, checked_at |-> 0, id |-> 0]

\* At "load" the page is selected and next_cursor known.
Sweep == [at: {"none", "page", "load", "end"}, cursor: Cursor,
          page: SUBSET Conferences, next: Cursor]

NoSweep == [at |-> "none", cursor |-> NoCursor, page |-> {}, next |-> NoCursor]

Init ==
    /\ rows = [c \in Conferences |-> NoRow]
    /\ clock = 0
    /\ save = [s \in Sessions |-> NoSave]
    /\ sweep = NoSweep
    /\ start = {}
    /\ added = {}
    /\ listed = {}
    /\ again = {}
    /\ partial = {}

Tick ==
    /\ clock < MaxTime
    /\ clock' = clock + 1
    /\ UNCHANGED <<rows, save, sweep, history>>

(***************************************************************************)
(* Saving a conference                                                     *)
(***************************************************************************)
\* check_invoice makes the conference: a new id, and the time before any
\* statement of save.
Check(s, c) ==
    /\ save[s] = NoSave
    /\ ~rows[c].stored
    /\ \A r \in Sessions : save[r].id # c
    /\ save' = [save EXCEPT ![s] = [at |-> "checked", id |-> c, checked_at |-> clock]]
    /\ UNCHANGED <<rows, clock, sweep, history>>

\* More pages are to come: what is stored now is stored during the sweep.
Sweeping == sweep.at = "page" \/ (sweep.at = "load" /\ sweep.next.given)

Stored(s, isWhole) ==
    /\ \E m \in Matches :
         rows' = [rows EXCEPT ![save[s].id] = [stored |-> TRUE, matches |-> m, whole |-> isWhole,
                                               checked_at |-> save[s].checked_at]]
    /\ added' = added \cup {c \in {save[s].id} : Sweeping}

\* Mutation of Insert: save commits where it flushes.
InsertCommits(s) ==
    /\ save[s].at = "checked"
    /\ save' = [save EXCEPT ![s].at = "inserted"]
    /\ Stored(s, FALSE)
    /\ UNCHANGED <<clock, sweep, start, listed, again, partial>>

\* flush sends the INSERT of the conference, which nobody else sees yet.
Insert(s) ==
    /\ save[s].at = "checked"
    /\ save' = [save EXCEPT ![s].at = "inserted"]
    /\ UNCHANGED <<rows, clock, sweep, history>>

InsertDivergences(s) ==
    /\ save[s].at = "inserted"
    /\ save' = [save EXCEPT ![s].at = "written"]
    /\ UNCHANGED <<rows, clock, sweep, history>>

Commit(s) ==
    /\ save[s].at = "written"
    /\ Stored(s, TRUE)
    /\ save' = [save EXCEPT ![s] = NoSave]
    /\ UNCHANGED <<clock, sweep, start, listed, again, partial>>

\* The client is not registered, a statement fails, or the server dies.
Abort(s) ==
    /\ save[s] # NoSave
    /\ save' = [save EXCEPT ![s] = NoSave]
    /\ UNCHANGED <<rows, clock, sweep, history>>

(***************************************************************************)
(* The sweep                                                               *)
(***************************************************************************)
KeyOf(c) == [given |-> TRUE, checked_at |-> rows[c].checked_at, id |-> c]

\* The order of the pages, from the last row to the first.
Before(k, c) ==
    \/ k.checked_at < c.checked_at
    \/ k.checked_at = c.checked_at /\ k.id < c.id

\* Mutation of Candidates: the query does not break ties by id.
CandidatesByTime(c) ==
    {d \in Conferences : /\ rows[d].stored /\ rows[d].matches
                         /\ c.given => rows[d].checked_at < c.checked_at}

\* The rows the query selects, before its LIMIT.
Candidates(c) ==
    {d \in Conferences : /\ rows[d].stored /\ rows[d].matches
                         /\ c.given => Before(KeyOf(d), c)}

\* The first PageSize of them in the order of the query.
IsPage(page, found) ==
    /\ Cardinality(page) =
         IF Cardinality(found) > PageSize THEN PageSize ELSE Cardinality(found)
    /\ \A c \in page, d \in found \ page : Before(KeyOf(d), KeyOf(c))

\* Mutation of IsNext: the query has LIMIT page_size, a full page a next one.
IsNextOfFull(next, page, found) ==
    IF Cardinality(page) < PageSize THEN next = NoCursor
    ELSE \E c \in page : next = KeyOf(c) /\ \A d \in page \ {c} : Before(KeyOf(c), KeyOf(d))

\* The row beyond the page says whether there is a next one.
IsNext(next, page, found) ==
    IF page = found THEN next = NoCursor
    ELSE \E c \in page : next = KeyOf(c) /\ \A d \in page \ {c} : Before(KeyOf(c), KeyOf(d))

\* Of the sweeps, which change nothing, one is followed.
StartSweep ==
    /\ sweep = NoSweep
    /\ sweep' = [sweep EXCEPT !.at = "page"]
    /\ start' = Candidates(NoCursor)
    /\ UNCHANGED <<rows, clock, save, added, listed, again, partial>>

SelectPage ==
    LET found == Candidates(sweep.cursor) IN
    /\ sweep.at = "page"
    /\ \E page \in SUBSET found :
         /\ IsPage(page, found)
         /\ \E next \in {NoCursor} \cup {KeyOf(c) : c \in page} :
              /\ IsNext(next, page, found)
              /\ sweep' = [sweep EXCEPT !.at = "load", !.page = page, !.next = next]
    /\ UNCHANGED <<rows, clock, save, history>>

\* selectinload: the divergences of the page, in a later snapshot; then the
\* answer.
LoadDivergences ==
    /\ sweep.at = "load"
    /\ listed' = listed \cup sweep.page
    /\ again' = again \cup (listed \cap sweep.page)
    /\ partial' = partial \cup {c \in sweep.page : ~rows[c].whole}
    /\ sweep' = [at |-> IF sweep.next.given THEN "page" ELSE "end",
                 cursor |-> sweep.next, page |-> {}, next |-> NoCursor]
    /\ UNCHANGED <<rows, clock, save, start, added>>

Next ==
    \/ Tick
    \/ \E s \in Sessions :
         \/ \E c \in Conferences : Check(s, c)
         \/ Insert(s) \/ InsertDivergences(s) \/ Commit(s) \/ Abort(s)
    \/ StartSweep
    \/ SelectPage
    \/ LoadDivergences

Spec == Init /\ [][Next]_vars

\* The caller of a sweep asks for the next page as long as there is one.
FairSpec == Spec /\ WF_vars(SelectPage \/ LoadDivergences)

(***************************************************************************)
(* Properties                                                              *)
(***************************************************************************)
\* Every variable has its type.
TypeOK ==
    /\ rows \in [Conferences -> Row]
    /\ clock \in Nat
    /\ save \in [Sessions -> Save]
    /\ sweep \in Sweep
    /\ {start, added, listed, again, partial} \subseteq SUBSET Conferences

\* A sweep lists every conference that matched when it began, and none twice,
\* although conferences go on being stored, some with a checked_at older than
\* its cursor.
EachListedOnce ==
    /\ sweep.at = "end" => start \subseteq listed
    /\ again = {}

\* No conference is ever listed without its divergences, although the three
\* statements of save and the two of a page interleave: a rejected conference
\* never looks as if nothing was wrong with it.
ListedWhole ==
    partial = {}

(***************************************************************************)
(* The inductive invariant behind the properties                           *)
(***************************************************************************)
\* A conference that is being saved has an id of its own, which nobody stored.
SavesFresh ==
    /\ \A s \in Sessions : save[s] # NoSave =>
          /\ save[s].at \in Saving /\ save[s].id \in Conferences
          /\ ~rows[save[s].id].stored
    /\ \A r, s \in Sessions : r # s /\ save[r] # NoSave => save[r].id # save[s].id

\* What is stored is whole, and what is not stored was never touched.
RowsWhole ==
    \A c \in Conferences : IF rows[c].stored THEN rows[c].whole ELSE rows[c] = NoRow

\* Between two pages there is none, and only a running sweep has a cursor.
SweepFormed ==
    /\ sweep.at # "load" => sweep.page = {} /\ sweep.next = NoCursor
    /\ sweep.at \in {"none", "end"} => sweep.cursor = NoCursor
    /\ ~sweep.next.given => sweep.next = NoCursor

\* The cursor of the page after the one being read, and what it leaves to list.
NextCursor == IF sweep.at = "load" THEN sweep.next ELSE sweep.cursor

\* Whatever matched when the sweep began was listed or lies ahead, and matches
\* still.
StartAhead ==
    /\ \A c \in start : rows[c].stored /\ rows[c].matches
    /\ start \subseteq listed \cup sweep.page \cup
                       (IF Sweeping THEN Candidates(NextCursor) ELSE {})

\* What was listed lies behind the cursor.
ListedBehind ==
    /\ \A c \in listed \cup sweep.page : rows[c].stored
    /\ sweep.at # "end" /\ ~sweep.cursor.given => listed = {}
    /\ sweep.cursor.given => \A c \in listed : ~Before(KeyOf(c), sweep.cursor)
    /\ sweep.next.given => \A c \in listed \cup sweep.page : ~Before(KeyOf(c), sweep.next)
    /\ listed \cap sweep.page = {}

CInv ==
    /\ TypeOK
    /\ SavesFresh
    /\ RowsWhole
    /\ SweepFormed
    /\ StartAhead
    /\ ListedBehind
    /\ EachListedOnce
    /\ ListedWhole

(***************************************************************************)
(* It implements OrderListing                                              *)
(***************************************************************************)
\* The rows as OrderListing sees them.
ListingRows ==
    [c \in Conferences |-> [stored |-> rows[c].stored, loaded_at |-> rows[c].checked_at,
                            matches |-> rows[c].matches]]

\* Insert and InsertDivergences are its Select and Write, of a row that is new.
Step == [none |-> "none", checked |-> "parsed", inserted |-> "selected", written |-> "written"]

ListingLoads ==
    [s \in Sessions |-> [at |-> Step[save[s].at], order |-> save[s].id,
                         stamp |-> save[s].checked_at,
                         seen |-> [stored |-> FALSE, loaded_at |-> 0]]]

\* Of the saves in progress, the one that wrote conference c.
WriterIn(saves, c) ==
    IF \E s \in Sessions : saves[s].at = "written" /\ saves[s].id = c
      THEN CHOOSE s \in Sessions : saves[s].at = "written" /\ saves[s].id = c
      ELSE None

\* SelectPage is its NextPage, after which the page counts as returned.
ListingSweep ==
    [at |-> IF sweep.at # "load" THEN sweep.at
            ELSE IF sweep.next.given THEN "page" ELSE "end",
     cursor |-> [given |-> NextCursor.given, loaded_at |-> NextCursor.checked_at,
                 id |-> NextCursor.id]]

Listing == INSTANCE OrderListing WITH
    Orders <- Conferences,
    db <- ListingRows,
    load <- ListingLoads,
    writer <- [c \in Conferences |-> WriterIn(save, c)],
    sweep <- ListingSweep,
    touched <- added,
    regressed <- {},
    returned <- listed \cup sweep.page,
    repeated <- again \cup (listed \cap sweep.page)

\* The listing of the conferences keeps the promises of OrderListing, its end
\* among them, and keeps them without any regression of a key.
ImplementsListing == Listing!FairSpec
=============================================================================
