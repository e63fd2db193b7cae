----------------------- MODULE ConferenceListingProofs -----------------------
(***************************************************************************)
(* Machine-checked proofs about ConferenceListing, for any number of       *)
(* conferences and sessions, any page size and any clock.                  *)
(***************************************************************************)
EXTENDS ConferenceListing, TLAPS

(***************************************************************************)
(* The order of the pages                                                  *)
(***************************************************************************)
LEMMA KeyIsCursor ==
    ASSUME ConstantsOK, TypeOK, NEW c \in Conferences
    PROVE  KeyOf(c) \in Cursor /\ KeyOf(c).given
BY DEF ConstantsOK, TypeOK, Row, Cursor, KeyOf

LEMMA BeforeAsymmetric ==
    ASSUME NEW k \in Cursor, NEW c \in Cursor, Before(k, c)
    PROVE  ~Before(c, k)
BY DEF Before, Cursor

LEMMA BeforeTransitive ==
    ASSUME NEW j \in Cursor, NEW k \in Cursor, NEW c \in Cursor,
           Before(j, k), Before(k, c)
    PROVE  Before(j, c)
BY DEF Before, Cursor

LEMMA NoCursorIsCursor == NoCursor \in Cursor /\ ~NoCursor.given
BY DEF NoCursor, Cursor

(***************************************************************************)
(* Every action preserves CInv                                             *)
(***************************************************************************)
LEMMA InitEstablishesCInv == ConstantsOK /\ Init => CInv
<1> SUFFICES ASSUME ConstantsOK, Init PROVE CInv
  OBVIOUS
<1> USE DEF Init, NoSweep
<1>1. TypeOK
  BY NoCursorIsCursor DEF TypeOK, Row, NoRow, Save, NoSave, Sweep
<1>2. SavesFresh /\ RowsWhole /\ SweepFormed
  BY DEF SavesFresh, RowsWhole, SweepFormed, NoRow
<1>3. StartAhead /\ ListedBehind
  BY NoCursorIsCursor DEF StartAhead, ListedBehind
<1>4. EachListedOnce /\ ListedWhole
  BY DEF EachListedOnce, ListedWhole
<1> QED BY <1>1, <1>2, <1>3, <1>4 DEF CInv

\* What leaves the rows and the sweep alone keeps what CInv says of them.
LEMMA SweepUntouched ==
    ASSUME CInv, UNCHANGED <<rows, sweep, start, listed, again, partial>>
    PROVE  /\ RowsWhole' /\ SweepFormed' /\ StartAhead' /\ ListedBehind'
           /\ EachListedOnce' /\ ListedWhole'
BY DEF CInv, RowsWhole, SweepFormed, StartAhead, ListedBehind, EachListedOnce, ListedWhole,
       Sweeping, NextCursor, Candidates, KeyOf, Before

LEMMA TickKeepsCInv ==
    ASSUME ConstantsOK, CInv, Tick
    PROVE  CInv'
<1>1. TypeOK' /\ SavesFresh'
  BY DEF ConstantsOK, CInv, TypeOK, SavesFresh, Tick, history
<1> QED BY <1>1, SweepUntouched DEF CInv, Tick, history

\* Nobody else saves the conference that is made.
LEMMA CheckKeepsCInv ==
    ASSUME CInv, NEW s \in Sessions, NEW c \in Conferences, Check(s, c)
    PROVE  CInv'
<1>1. TypeOK' /\ SavesFresh'
  BY DEF CInv, TypeOK, SavesFresh, Check, history, Save, Saving, NoSave
<1> QED BY <1>1, SweepUntouched DEF CInv, Check, history

\* Nothing is stored before the commit.
LEMMA SavingKeepsCInv ==
    ASSUME CInv, NEW s \in Sessions, Insert(s) \/ InsertDivergences(s)
    PROVE  CInv'
<1>1. TypeOK'
  BY DEF CInv, TypeOK, Insert, InsertDivergences, history, Save, Saving
<1>2. SavesFresh'
  BY DEF CInv, TypeOK, SavesFresh, Insert, InsertDivergences, Save, Saving, NoSave
<1> QED BY <1>1, <1>2, SweepUntouched DEF CInv, Insert, InsertDivergences, history

LEMMA AbortKeepsCInv ==
    ASSUME ConstantsOK, CInv, NEW s \in Sessions, Abort(s)
    PROVE  CInv'
<1>1. TypeOK' /\ SavesFresh'
  BY DEF ConstantsOK, CInv, TypeOK, SavesFresh, Abort, history, Save, NoSave
<1> QED BY <1>1, SweepUntouched DEF CInv, Abort, history

\* A commit adds a row and changes none, so it moves nothing across a cursor.
LEMMA CommitKeepsCInv ==
    ASSUME ConstantsOK, CInv, NEW s \in Sessions, Commit(s)
    PROVE  CInv'
<1> DEFINE c == save[s].id
<1>1. c \in Conferences /\ ~rows[c].stored /\ save[s].checked_at \in Nat
  BY DEF CInv, TypeOK, SavesFresh, Save, Saving, Commit, NoSave
<1>2. PICK m \in BOOLEAN :
        rows' = [rows EXCEPT ![c] = [stored |-> TRUE, matches |-> m, whole |-> TRUE,
                                     checked_at |-> save[s].checked_at]]
  BY DEF ConstantsOK, Commit, Stored
<1>3. /\ \A d \in Conferences \ {c} : rows'[d] = rows[d]
      /\ rows'[c].stored /\ rows'[c].whole
  BY <1>1, <1>2 DEF CInv, TypeOK
<1>4. UNCHANGED <<clock, sweep, start, listed, again, partial>>
  BY DEF Commit
<1>5. \A d \in Conferences : rows[d].stored => d # c /\ rows'[d] = rows[d] /\ KeyOf(d)' = KeyOf(d)
  BY <1>1, <1>3 DEF KeyOf
<1>6. TypeOK'
  <2>1. rows' \in [Conferences -> Row]
    BY <1>1, <1>2 DEF CInv, TypeOK, Row
  <2>2. save' \in [Sessions -> Save]
    BY DEF CInv, TypeOK, Commit, Save, NoSave
  <2>3. added' \subseteq Conferences
    BY <1>1 DEF CInv, TypeOK, Commit, Stored
  <2> QED BY <1>4, <2>1, <2>2, <2>3 DEF CInv, TypeOK
<1>7. SavesFresh'
  BY <1>1, <1>3 DEF ConstantsOK, CInv, TypeOK, SavesFresh, Commit, NoSave
<1>8. RowsWhole'
  BY <1>1, <1>3 DEF CInv, RowsWhole
<1>9. SweepFormed' /\ EachListedOnce' /\ ListedWhole'
  BY <1>4 DEF CInv, SweepFormed, EachListedOnce, ListedWhole
<1>10. start \subseteq Conferences /\ listed \cup sweep.page \subseteq Conferences
  BY DEF CInv, TypeOK, Sweep
<1>11. StartAhead'
  <2>1. \A d \in start : rows'[d].stored /\ rows'[d].matches
    BY <1>5, <1>10 DEF CInv, StartAhead
  <2>2. \A d \in start, k \in Cursor : d \in Candidates(k) => d \in Candidates(k)'
    BY <1>5, <1>10 DEF CInv, StartAhead, Candidates, Before, KeyOf
  <2>3. NextCursor \in Cursor
    BY DEF CInv, TypeOK, Sweep, NextCursor
  <2>4. NextCursor' = NextCursor /\ Sweeping' = Sweeping
    BY <1>4 DEF NextCursor, Sweeping
  <2>5. \A d \in start : d \in Candidates(NextCursor) => d \in Candidates(NextCursor)'
    BY <1>4, <1>5, <1>10 DEF CInv, StartAhead, Candidates, Before, KeyOf, NextCursor
  <2> QED BY <1>4, <2>1, <2>4, <2>5 DEF CInv, StartAhead
<1>12. ListedBehind'
  BY <1>4, <1>5, <1>10 DEF CInv, ListedBehind, Before, KeyOf
<1> QED BY <1>6, <1>7, <1>8, <1>9, <1>11, <1>12 DEF CInv

LEMMA StartSweepKeepsCInv ==
    ASSUME CInv, StartSweep
    PROVE  CInv'
<1> USE NoCursorIsCursor
<1>1. /\ sweep.at = "none" /\ sweep.cursor = NoCursor /\ sweep.page = {}
      /\ sweep.next = NoCursor /\ listed = {}
  BY DEF CInv, ListedBehind, StartSweep, NoSweep
<1>2. /\ sweep'.at = "page" /\ sweep'.cursor = NoCursor /\ sweep'.page = {}
      /\ sweep'.next = NoCursor
  BY <1>1 DEF StartSweep, CInv, TypeOK, Sweep
<1>3. TypeOK' /\ SavesFresh' /\ RowsWhole'
  BY DEF CInv, TypeOK, SavesFresh, RowsWhole, StartSweep, Sweep, Candidates
<1>4. SweepFormed' /\ EachListedOnce' /\ ListedWhole'
  BY <1>2 DEF CInv, SweepFormed, EachListedOnce, ListedWhole, StartSweep
<1>5. StartAhead'
  BY <1>2 DEF StartAhead, StartSweep, Candidates, Sweeping, NextCursor
<1>6. ListedBehind'
  BY <1>1, <1>2 DEF ListedBehind, StartSweep
<1> QED BY <1>3, <1>4, <1>5, <1>6 DEF CInv

\* A page takes the rows next to the cursor: what it leaves lies beyond its
\* last row, what it takes was not listed before.
LEMMA SelectPageKeepsCInv ==
    ASSUME ConstantsOK, CInv, SelectPage
    PROVE  CInv'
<1> DEFINE found == Candidates(sweep.cursor)
<1> DEFINE Nexts(page) == {NoCursor} \cup {KeyOf(c) : c \in page}
<1>p. PICK page \in SUBSET found :
        /\ IsPage(page, found)
        /\ \E next \in Nexts(page) :
             /\ IsNext(next, page, found)
             /\ sweep' = [sweep EXCEPT !.at = "load", !.page = page, !.next = next]
  BY DEF SelectPage
<1>1. PICK next \in Nexts(page) :
        /\ IsPage(page, found)
        /\ IsNext(next, page, found)
        /\ sweep' = [sweep EXCEPT !.at = "load", !.page = page, !.next = next]
  BY <1>p
<1>2. /\ sweep.at = "page"
      /\ UNCHANGED <<rows, clock, save, history>>
  BY DEF SelectPage
<1>3. /\ found \subseteq Conferences
      /\ \A c \in found : rows[c].stored /\ rows[c].matches
      /\ sweep.cursor.given => \A c \in found : Before(KeyOf(c), sweep.cursor)
  BY DEF Candidates
<1>4. \A c \in Conferences : KeyOf(c) \in Cursor /\ KeyOf(c).given
  BY KeyIsCursor DEF CInv
<1>5. next \in Cursor /\ (~next.given => next = NoCursor)
  BY <1>1, <1>3, <1>4, NoCursorIsCursor
<1>6. /\ sweep'.at = "load" /\ sweep'.page = page /\ sweep'.next = next
      /\ sweep'.cursor = sweep.cursor /\ sweep' \in Sweep
  BY <1>1, <1>3, <1>5 DEF CInv, TypeOK, Sweep
<1>7. TypeOK' /\ SavesFresh' /\ RowsWhole' /\ SweepFormed' /\ EachListedOnce' /\ ListedWhole'
  BY <1>2, <1>5, <1>6 DEF CInv, TypeOK, SavesFresh, RowsWhole, SweepFormed, EachListedOnce,
     ListedWhole, history
<1>8. listed \cap page = {}
  <2> SUFFICES ASSUME NEW c \in listed \cap page
               PROVE  FALSE
    OBVIOUS
  <2>1. CASE sweep.cursor.given
    BY <1>1, <1>3, <2>1 DEF CInv, ListedBehind
  <2>2. CASE ~sweep.cursor.given
    BY <1>2, <2>2 DEF CInv, ListedBehind
  <2> QED BY <2>1, <2>2
<1>9. CASE page = found
  <2>1. next = NoCursor /\ ~next.given
    BY <1>1, <1>9, NoCursorIsCursor DEF IsNext
  <2>2. StartAhead'
    BY <1>2, <1>6, <1>9, <2>1 DEF CInv, SweepFormed, StartAhead, Sweeping, NextCursor, history
  <2>3. ListedBehind'
    BY <1>2, <1>3, <1>6, <1>8, <2>1 DEF CInv, SweepFormed, ListedBehind, KeyOf, Before, history
  <2> QED BY <1>7, <2>2, <2>3 DEF CInv
<1>10. CASE page # found
  <2>1. PICK last \in page :
          next = KeyOf(last) /\ \A d \in page \ {last} : Before(KeyOf(last), KeyOf(d))
    BY <1>1, <1>10 DEF IsNext
  <2>2. last \in Conferences /\ next.given
    BY <1>3, <1>4, <2>1
  <2>3. StartAhead'
    <3>1. \A c \in found \ page : c \in Candidates(next)
      BY <1>1, <1>3, <2>1 DEF IsPage, Candidates
    <3>2. start \subseteq listed \cup page \cup Candidates(next)
      BY <1>2, <3>1 DEF CInv, SweepFormed, StartAhead, Sweeping, NextCursor
    <3>3. Candidates(NextCursor)' = Candidates(next) /\ Sweeping'
      BY <1>2, <1>6, <2>2 DEF Candidates, NextCursor, Sweeping, KeyOf, Before
    <3> QED BY <1>2, <1>6, <3>2, <3>3 DEF CInv, StartAhead, history
  <2>4. ListedBehind'
    <3>1. ASSUME NEW c \in listed \cup page
          PROVE  ~Before(KeyOf(c), next)
      <4>1. c \in Conferences
        BY <1>3 DEF CInv, TypeOK
      <4>2. CASE c = last
        BY <1>5, <2>1, <4>2, BeforeAsymmetric
      <4>3. CASE c \in page \ {last}
        BY <1>4, <1>5, <2>1, <4>1, <4>3, BeforeAsymmetric
      <4>4. CASE c \in listed
        <5>1. sweep.cursor.given
          BY <1>2, <4>4 DEF CInv, ListedBehind
        <5>2. ~Before(KeyOf(c), sweep.cursor)
          BY <4>4, <5>1 DEF CInv, ListedBehind
        <5>3. Before(KeyOf(last), sweep.cursor)
          BY <1>3, <5>1
        <5>4. sweep.cursor \in Cursor
          BY DEF CInv, TypeOK, Sweep
        <5> QED BY <1>4, <2>1, <2>2, <4>1, <5>2, <5>3, <5>4, BeforeTransitive
      <4> QED BY <3>1, <4>2, <4>3, <4>4
    <3> QED BY <1>2, <1>3, <1>6, <1>8, <3>1
            DEF CInv, ListedBehind, KeyOf, Before, history
  <2> QED BY <1>7, <2>3, <2>4 DEF CInv
<1> QED BY <1>9, <1>10

\* The page is listed, whole because its rows are.
LEMMA LoadDivergencesKeepsCInv ==
    ASSUME CInv, LoadDivergences
    PROVE  CInv'
<1>1. /\ sweep.at = "load" /\ sweep.page \subseteq Conferences /\ sweep.next \in Cursor
      /\ sweep.next.given \in BOOLEAN
  BY DEF CInv, TypeOK, Sweep, Cursor, LoadDivergences
<1>2. /\ sweep' = [at |-> IF sweep.next.given THEN "page" ELSE "end",
                   cursor |-> sweep.next, page |-> {}, next |-> NoCursor]
      /\ listed' = listed \cup sweep.page
      /\ UNCHANGED <<rows, clock, save, start, added>>
  BY DEF LoadDivergences
<1>3. again' = {} /\ partial' = {}
  BY DEF CInv, TypeOK, Sweep, RowsWhole, ListedBehind, EachListedOnce, ListedWhole, LoadDivergences
<1>4. TypeOK'
  BY <1>1, <1>2, <1>3, NoCursorIsCursor DEF CInv, TypeOK, Sweep
<1>5. SavesFresh' /\ RowsWhole'
  BY <1>2 DEF CInv, SavesFresh, RowsWhole
<1>6. SweepFormed'
  BY <1>1, <1>2 DEF CInv, SweepFormed
<1>7. StartAhead'
  BY <1>1, <1>2
     DEF CInv, StartAhead, Sweeping, NextCursor, Candidates, KeyOf, Before
<1>8. ListedBehind'
  BY <1>1, <1>2, NoCursorIsCursor DEF CInv, ListedBehind, KeyOf, Before
<1>9. EachListedOnce' /\ ListedWhole'
  BY <1>1, <1>2, <1>3 DEF CInv, StartAhead, Sweeping, EachListedOnce, ListedWhole
<1> QED BY <1>4, <1>5, <1>6, <1>7, <1>8, <1>9 DEF CInv

LEMMA NextKeepsCInv == ConstantsOK /\ CInv /\ [Next]_vars => CInv'
<1> SUFFICES ASSUME ConstantsOK, CInv, [Next]_vars
             PROVE  CInv'
  OBVIOUS
<1>1. CASE Tick
  BY <1>1, TickKeepsCInv
<1>2. ASSUME NEW s \in Sessions,
             \/ \E c \in Conferences : Check(s, c)
             \/ Insert(s) \/ InsertDivergences(s) \/ Commit(s) \/ Abort(s)
      PROVE  CInv'
  BY <1>2, CheckKeepsCInv, SavingKeepsCInv, CommitKeepsCInv, AbortKeepsCInv
<1>3. CASE StartSweep
  BY <1>3, StartSweepKeepsCInv
<1>4. CASE SelectPage
  BY <1>4, SelectPageKeepsCInv
<1>5. CASE LoadDivergences
  BY <1>5, LoadDivergencesKeepsCInv
<1>6. CASE UNCHANGED vars
  <2>1. TypeOK' /\ SavesFresh'
    BY <1>6 DEF CInv, TypeOK, SavesFresh, vars, history
  <2> QED BY <1>6, <2>1, SweepUntouched DEF CInv, vars, history
<1> QED BY <1>1, <1>2, <1>3, <1>4, <1>5, <1>6 DEF Next

(***************************************************************************)
(* The theorems                                                            *)
(***************************************************************************)
\* The inductive invariant holds in every reachable state.
THEOREM CInvAlways ==
    ASSUME ConstantsOK
    PROVE  Spec => []CInv
<1>1. Init => CInv
  BY InitEstablishesCInv
<1>2. CInv /\ [Next]_vars => CInv'
  BY NextKeepsCInv
<1> QED BY <1>1, <1>2, PTL DEF Spec

\* A sweep lists every conference that matched when it began, and none twice,
\* whatever is stored meanwhile.
THEOREM ConferencesListedOnce ==
    ASSUME ConstantsOK
    PROVE  Spec => []EachListedOnce
<1>1. CInv => EachListedOnce
  BY DEF CInv
<1> QED BY <1>1, CInvAlways, PTL

\* No conference is ever listed without its divergences.
THEOREM ConferencesListedWhole ==
    ASSUME ConstantsOK
    PROVE  Spec => []ListedWhole
<1>1. CInv => ListedWhole
  BY DEF CInv
<1> QED BY <1>1, CInvAlways, PTL

(***************************************************************************)
(* Every step is one of OrderListing, or none                              *)
(***************************************************************************)
\* The writer of a conference is the session that wrote it.
LEMMA WriterIs ==
    ASSUME NEW saves, NEW c, NEW s \in Sessions,
           saves[s].at = "written", saves[s].id = c,
           \A r \in Sessions \ {s} : saves[r].id # c
    PROVE  WriterIn(saves, c) = s
<1>1. \A r \in Sessions : saves[r].at = "written" /\ saves[r].id = c <=> r = s
  OBVIOUS
<1> QED BY <1>1 DEF WriterIn

LEMMA WriterIsNone ==
    ASSUME NEW saves, NEW c,
           \A r \in Sessions : ~(saves[r].at = "written" /\ saves[r].id = c)
    PROVE  WriterIn(saves, c) = None
BY DEF WriterIn

\* Saves that wrote the same have the same writers.
LEMMA SameWriter ==
    ASSUME NEW saves, NEW others, NEW c,
           \A s \in Sessions : saves[s].at = "written" /\ saves[s].id = c
                                 <=> others[s].at = "written" /\ others[s].id = c
    PROVE  WriterIn(saves, c) = WriterIn(others, c)
<1> DEFINE P(s) == saves[s].at = "written" /\ saves[s].id = c
           Q(s) == others[s].at = "written" /\ others[s].id = c
<1>1. \A s \in Sessions : P(s) <=> Q(s)
  OBVIOUS
<1> HIDE DEF P, Q
<1>2. (CHOOSE s \in Sessions : P(s)) = (CHOOSE s \in Sessions : Q(s))
  BY <1>1
<1>3. (\E s \in Sessions : P(s)) <=> (\E s \in Sessions : Q(s))
  BY <1>1
<1> QED BY <1>2, <1>3 DEF WriterIn, P, Q

\* A load that is not in progress is a save that is not.
LEMMA LoadOf ==
    ASSUME CInv, NEW s \in Sessions
    PROVE  /\ ListingLoads[s] = [at |-> Step[save[s].at], order |-> save[s].id,
                                 stamp |-> save[s].checked_at, seen |-> Listing!Unseen]
           /\ save[s] = NoSave <=> ListingLoads[s] = Listing!NoLoad
<1>1. save[s] \in Save
  BY DEF CInv, TypeOK
<1>2. Step[save[s].at] = "none" <=> save[s].at = "none"
  BY <1>1 DEF Save, Saving, Step
<1>3. save[s].at = "none" => save[s] = NoSave
  BY DEF CInv, SavesFresh, Saving
<1>4. ListingLoads[s] = [at |-> Step[save[s].at], order |-> save[s].id,
                         stamp |-> save[s].checked_at, seen |-> Listing!Unseen]
  BY DEF ListingLoads, Listing!Unseen
<1>5. ASSUME save[s] = NoSave
      PROVE  ListingLoads[s] = Listing!NoLoad
  BY <1>4, <1>5 DEF NoSave, Step, Listing!NoLoad
<1>6. ASSUME ListingLoads[s] = Listing!NoLoad
      PROVE  save[s] = NoSave
  <2>1. ListingLoads[s].at = "none"
    BY <1>6 DEF Listing!NoLoad
  <2>2. ListingLoads[s].at = Step[save[s].at]
    BY <1>4
  <2> QED BY <1>2, <1>3, <2>1, <2>2
<1> QED BY <1>4, <1>5, <1>6

\* OrderListing's type of its loads.
LEMMA LoadsTyped ==
    ASSUME CInv
    PROVE  ListingLoads \in [Sessions -> Listing!Load]
<1> SUFFICES ASSUME NEW s \in Sessions
             PROVE  [at |-> Step[save[s].at], order |-> save[s].id, stamp |-> save[s].checked_at,
                     seen |-> [stored |-> FALSE, loaded_at |-> 0]] \in Listing!Load
  BY DEF ListingLoads
<1>1. save[s] \in Save
  BY DEF CInv, TypeOK
<1>2. Step[save[s].at] \in Listing!Steps
  BY <1>1 DEF Save, Saving, Step, Listing!Steps
<1> QED BY <1>1, <1>2 DEF Save, Listing!Load, Listing!Seen

\* A save that goes on is a load that does.
LEMMA LoadGoesOn ==
    ASSUME CInv, NEW s \in Sessions, NEW at \in Saving, save' = [save EXCEPT ![s].at = at]
    PROVE  ListingLoads' = [ListingLoads EXCEPT ![s].at = Step[at]]
<1>1. /\ save'[s].at = at /\ save'[s].id = save[s].id
      /\ save'[s].checked_at = save[s].checked_at
      /\ \A r \in Sessions \ {s} : save'[r] = save[r]
  BY DEF CInv, TypeOK, Save
<1>2. ListingLoads'[s] = [ListingLoads[s] EXCEPT !.at = Step[at]]
  <2> DEFINE seen == [stored |-> FALSE, loaded_at |-> 0]
  <2>1. /\ ListingLoads[s] = [at |-> Step[save[s].at], order |-> save[s].id,
                              stamp |-> save[s].checked_at, seen |-> seen]
        /\ ListingLoads'[s] = [at |-> Step[save'[s].at], order |-> save'[s].id,
                               stamp |-> save'[s].checked_at, seen |-> seen]
    BY DEF ListingLoads
  <2> HIDE DEF seen
  <2>2. ListingLoads[s] \in [at: {Step[save[s].at]}, order: {save[s].id},
                             stamp: {save[s].checked_at}, seen: {seen}]
    BY <2>1
  <2>3. [ListingLoads[s] EXCEPT !.at = Step[at]]
          = [at |-> Step[at], order |-> save[s].id, stamp |-> save[s].checked_at, seen |-> seen]
    BY <2>2
  <2>4. ListingLoads'[s]
          = [at |-> Step[at], order |-> save[s].id, stamp |-> save[s].checked_at, seen |-> seen]
    BY <1>1, <2>1, Zenon
  <2> QED BY <2>3, <2>4, Zenon
<1>3. \A r \in Sessions \ {s} : ListingLoads'[r] = ListingLoads[r]
  BY <1>1 DEF ListingLoads
<1>4. /\ ListingLoads' = [r \in Sessions |-> ListingLoads'[r]]
      /\ ListingLoads = [r \in Sessions |-> ListingLoads[r]]
  BY DEF ListingLoads
<1> HIDE DEF ListingLoads
<1> QED BY <1>2, <1>3, <1>4

LEMMA InitImplements == Init => Listing!Init
<1> SUFFICES ASSUME Init PROVE Listing!Init
  OBVIOUS
<1> USE DEF Init, Listing!Init
<1>1. ListingRows = [c \in Conferences |-> Listing!NoRow]
  BY DEF ListingRows, NoRow, Listing!NoRow
<1>2. ListingLoads = [s \in Sessions |-> Listing!NoLoad]
  BY DEF ListingLoads, NoSave, Step, Listing!NoLoad, Listing!Unseen
<1>3. [c \in Conferences |-> WriterIn(save, c)] = [c \in Conferences |-> None]
  <2>1. ASSUME NEW c \in Conferences
        PROVE  WriterIn(save, c) = None
    BY WriterIsNone DEF NoSave
  <2> QED BY <2>1
<1>4. ListingSweep = Listing!NoSweep
  BY DEF ListingSweep, NextCursor, NoSweep, NoCursor, Listing!NoSweep, Listing!NoCursor
<1> QED BY <1>1, <1>2, <1>3, <1>4 DEF NoSweep

\* What OrderListing sees of the sweep, and of the rows, does not change unless
\* they do.
LEMMA SweepStays ==
    ASSUME UNCHANGED <<rows, sweep, history>>
    PROVE  UNCHANGED <<ListingRows, ListingSweep, Listing!history>>
BY DEF ListingRows, ListingSweep, NextCursor, history, Listing!history

LEMMA TickImplements ==
    ASSUME Tick
    PROVE  Listing!Tick
<1>1. UNCHANGED <<ListingRows, ListingSweep, Listing!history>>
  BY SweepStays DEF Tick
<1>2. UNCHANGED Listing!loads
  BY DEF Tick, Listing!loads, ListingLoads, WriterIn
<1> QED BY <1>1, <1>2 DEF Tick, Listing!Tick

LEMMA CheckImplements ==
    ASSUME CInv, NEW s \in Sessions, NEW c \in Conferences, Check(s, c)
    PROVE  Listing!Parse(s, c)
<1>1. UNCHANGED <<ListingRows, ListingSweep, Listing!history>>
  BY SweepStays DEF Check
<1>2. ListingLoads[s] = Listing!NoLoad
  BY LoadOf DEF Check
<1>3. ListingLoads' = [ListingLoads EXCEPT ![s] =
        [at |-> "parsed", order |-> c, stamp |-> clock, seen |-> Listing!Unseen]]
  BY DEF CInv, TypeOK, Check, ListingLoads, Step, Listing!Unseen
<1>4. [d \in Conferences |-> WriterIn(save, d)]' = [d \in Conferences |-> WriterIn(save, d)]
  <2>1. ASSUME NEW d \in Conferences
        PROVE  WriterIn(save', d) = WriterIn(save, d)
    <3>1. \A r \in Sessions : save'[r].at = "written" /\ save'[r].id = d
                                <=> save[r].at = "written" /\ save[r].id = d
      BY DEF CInv, TypeOK, Check, NoSave
    <3> QED BY <3>1, SameWriter
  <2> QED BY <2>1
<1> QED BY <1>1, <1>2, <1>3, <1>4 DEF Check, Listing!Parse

\* The row that Select finds is not there.
LEMMA InsertImplements ==
    ASSUME CInv, NEW s \in Sessions, Insert(s)
    PROVE  Listing!Select(s)
<1>1. UNCHANGED <<ListingRows, ListingSweep, Listing!history>>
  BY SweepStays DEF Insert
<1>2. /\ ListingLoads[s].at = "parsed" /\ ListingLoads[s].order \in Conferences
      /\ ListingRows[ListingLoads[s].order] = Listing!NoRow
  <2>1. save[s].at = "checked" /\ save[s] # NoSave
    BY DEF Insert, NoSave
  <2>2. save[s].id \in Conferences /\ rows[save[s].id] = NoRow
    BY <2>1 DEF CInv, SavesFresh, RowsWhole
  <2>3. ListingLoads[s].at = "parsed" /\ ListingLoads[s].order = save[s].id
    BY <2>1 DEF ListingLoads, Step
  <2>4. ListingRows[save[s].id] = Listing!NoRow
    <3>1. ListingRows[save[s].id] = [stored |-> NoRow.stored, loaded_at |-> NoRow.checked_at,
                                     matches |-> NoRow.matches]
      BY <2>2 DEF ListingRows
    <3> QED BY <3>1 DEF NoRow, Listing!NoRow
  <2> QED BY <2>2, <2>3, <2>4
<1>3. ListingLoads' = [ListingLoads EXCEPT ![s].at = "selected",
        ![s].seen = [stored |-> FALSE, loaded_at |-> 0],
        ![s].stamp = IF FALSE THEN clock ELSE @]
  <2>1. ListingLoads' = [ListingLoads EXCEPT ![s].at = "selected"]
    BY LoadGoesOn DEF Insert, Saving, Step
  <2>2. ListingLoads[s] \in Listing!Load /\ s \in DOMAIN ListingLoads
    BY LoadsTyped
  <2>3. ListingLoads[s].seen = [stored |-> FALSE, loaded_at |-> 0]
    BY DEF ListingLoads
  <2>4. [ListingLoads[s] EXCEPT !.at = "selected"]
          = [ListingLoads[s] EXCEPT !.at = "selected",
               !.seen = [stored |-> FALSE, loaded_at |-> 0],
               !.stamp = IF FALSE THEN clock ELSE @]
    BY <2>2, <2>3 DEF Listing!Load
  <2> QED BY <2>1, <2>2, <2>4
<1>4. [d \in Conferences |-> WriterIn(save, d)]' = [d \in Conferences |-> WriterIn(save, d)]
  <2>1. ASSUME NEW d \in Conferences
        PROVE  WriterIn(save', d) = WriterIn(save, d)
    <3>1. \A r \in Sessions : save'[r].at = "written" /\ save'[r].id = d
                                <=> save[r].at = "written" /\ save[r].id = d
      BY DEF CInv, TypeOK, Insert
    <3> QED BY <3>1, SameWriter
  <2> QED BY <2>1
<1> DEFINE row == ListingRows[ListingLoads[s].order]
<1>5. row.stored = FALSE /\ row.loaded_at = 0
  BY <1>2 DEF Listing!NoRow
<1> HIDE DEF row
<1>6. ListingLoads' = [ListingLoads EXCEPT ![s].at = "selected",
        ![s].seen = [stored |-> row.stored, loaded_at |-> row.loaded_at],
        ![s].stamp = IF row.stored THEN clock ELSE @]
  BY <1>3, <1>5
<1> QED BY <1>1, <1>2, <1>4, <1>6 DEF Insert, Listing!Select, row

\* No other save has the id, so nobody holds its key.
LEMMA InsertDivergencesImplements ==
    ASSUME ConstantsOK, CInv, NEW s \in Sessions, InsertDivergences(s)
    PROVE  Listing!Write(s)
<1> DEFINE c == save[s].id
<1>1. UNCHANGED <<ListingRows, ListingSweep, Listing!history>>
  BY SweepStays DEF InsertDivergences
<1>2. /\ ListingLoads[s].at = "selected" /\ ListingLoads[s].order = c
      /\ c \in Conferences /\ ~ListingRows[c].stored
  <2>1. save[s].at = "inserted" /\ save[s] # NoSave
    BY DEF InsertDivergences, NoSave
  <2>2. c \in Conferences /\ ~rows[c].stored
    BY <2>1 DEF CInv, SavesFresh
  <2> QED BY <2>1, <2>2 DEF ListingLoads, ListingRows, Step
<1>3. \A r \in Sessions \ {s} : save[r].id # c /\ save'[r] = save[r]
  BY DEF CInv, TypeOK, SavesFresh, InsertDivergences, NoSave
<1>4. save'[s].at = "written" /\ save'[s].id = c /\ save[s].at = "inserted"
  BY DEF CInv, TypeOK, InsertDivergences, Save
<1>5. WriterIn(save, c) = None
  BY <1>3, <1>4, WriterIsNone
<1>6. ListingLoads' = [ListingLoads EXCEPT ![s].at = "written"]
  BY LoadGoesOn DEF InsertDivergences, Saving, Step
<1>7. [d \in Conferences |-> WriterIn(save, d)]'
        = [[d \in Conferences |-> WriterIn(save, d)] EXCEPT ![c] = s]
  <2>1. WriterIn(save', c) = s
    BY <1>3, <1>4, WriterIs
  <2>2. ASSUME NEW d \in Conferences \ {c}
        PROVE  WriterIn(save', d) = WriterIn(save, d)
    <3>1. \A r \in Sessions : save'[r].at = "written" /\ save'[r].id = d
                                <=> save[r].at = "written" /\ save[r].id = d
      BY <1>3, <1>4
    <3> QED BY <3>1, SameWriter
  <2> QED BY <1>2, <2>1, <2>2
<1> QED BY <1>1, <1>2, <1>5, <1>6, <1>7 DEF InsertDivergences, Listing!Write

\* A save that ends writes nothing any more, and nobody else had its id.
LEMMA SaveEnds ==
    ASSUME ConstantsOK, CInv, NEW s \in Sessions, save[s] # NoSave,
           save' = [save EXCEPT ![s] = NoSave]
    PROVE  /\ ListingLoads' = [ListingLoads EXCEPT ![s] = Listing!NoLoad]
           /\ \A d \in Conferences :
                 WriterIn(save', d) = IF WriterIn(save, d) = s THEN None ELSE WriterIn(save, d)
           /\ save[s].at = "written" => WriterIn(save, save[s].id) = s
<1> DEFINE c == save[s].id
<1>1. c \in Conferences /\ \A r \in Sessions \ {s} : save[r].id # c /\ save'[r] = save[r]
  BY DEF CInv, TypeOK, SavesFresh
<1>2. save'[s] = NoSave
  BY DEF CInv, TypeOK
<1>3. ListingLoads' = [ListingLoads EXCEPT ![s] = Listing!NoLoad]
  BY DEF CInv, TypeOK, ListingLoads, NoSave, Step, Listing!NoLoad, Listing!Unseen
<1>4. save[s].at = "written" => WriterIn(save, c) = s
  BY <1>1, WriterIs
<1>5. ASSUME NEW d \in Conferences
      PROVE  WriterIn(save', d) = IF WriterIn(save, d) = s THEN None ELSE WriterIn(save, d)
  <2>1. CASE d = c /\ save[s].at = "written"
    <3>1. \A r \in Sessions : ~(save'[r].at = "written" /\ save'[r].id = d)
      BY <1>1, <1>2, <2>1 DEF NoSave
    <3> QED BY <1>4, <2>1, <3>1, WriterIsNone
  <2>2. CASE ~(d = c /\ save[s].at = "written")
    <3>1. \A r \in Sessions : save'[r].at = "written" /\ save'[r].id = d
                                <=> save[r].at = "written" /\ save[r].id = d
      BY <1>1, <1>2, <2>2 DEF NoSave
    <3>2. WriterIn(save', d) = WriterIn(save, d)
      BY ONLY <3>1, SameWriter
    <3>3. WriterIn(save, d) # s
      <4>1. CASE \E r \in Sessions : save[r].at = "written" /\ save[r].id = d
        <5>1. PICK w \in Sessions : save[w].at = "written" /\ save[w].id = d
          BY <4>1
        <5>2. \A r \in Sessions \ {w} : save[r].id # d
          BY <5>1 DEF CInv, SavesFresh, NoSave
        <5> QED BY <2>2, <5>1, <5>2, WriterIs
      <4>2. CASE ~\E r \in Sessions : save[r].at = "written" /\ save[r].id = d
        BY <4>2, WriterIsNone DEF ConstantsOK
      <4> QED BY <4>1, <4>2
    <3> QED BY <3>2, <3>3
  <2> QED BY <2>1, <2>2
<1> QED BY <1>3, <1>4, <1>5

LEMMA AbortImplements ==
    ASSUME ConstantsOK, CInv, NEW s \in Sessions, Abort(s)
    PROVE  Listing!Abort(s)
<1>1. UNCHANGED <<ListingRows, ListingSweep, Listing!history>>
  BY SweepStays DEF Abort
<1>2. ListingLoads[s] # Listing!NoLoad
  BY LoadOf DEF Abort
<1> QED BY <1>1, <1>2, SaveEnds DEF Abort, Listing!Abort

\* What is committed is new, so its checked_at regresses from nothing.
LEMMA CommitImplements ==
    ASSUME ConstantsOK, CInv, NEW s \in Sessions, Commit(s)
    PROVE  Listing!Commit(s)
<1> DEFINE c == save[s].id
<1>1. /\ save[s].at = "written" /\ save[s] # NoSave
      /\ c \in Conferences /\ rows[c] = NoRow /\ save[s].checked_at \in Nat
  BY DEF Commit, NoSave, CInv, TypeOK, Save, SavesFresh, RowsWhole
<1>2. PICK m \in Matches :
        rows' = [rows EXCEPT ![c] = [stored |-> TRUE, matches |-> m, whole |-> TRUE,
                                     checked_at |-> save[s].checked_at]]
  BY DEF Commit, Stored
<1>3. /\ ListingLoads[s].at = "written" /\ ListingLoads[s].order = c
      /\ ListingLoads[s].stamp = save[s].checked_at /\ ~ListingLoads[s].seen.stored
  BY <1>1 DEF ListingLoads, Step
<1>4. Listing!LoadedAt(s) = save[s].checked_at
  BY <1>3 DEF Listing!LoadedAt
<1>5. ListingRows' = [ListingRows EXCEPT ![c] =
        [stored |-> TRUE, loaded_at |-> save[s].checked_at, matches |-> m]]
  BY <1>1, <1>2 DEF CInv, TypeOK, ListingRows
<1>6. /\ ListingLoads' = [ListingLoads EXCEPT ![s] = Listing!NoLoad]
      /\ [d \in Conferences |-> WriterIn(save, d)]'
           = [[d \in Conferences |-> WriterIn(save, d)] EXCEPT ![c] = None]
  <2>1. save' = [save EXCEPT ![s] = NoSave]
    BY DEF Commit
  <2>2. WriterIn(save, c) = s
    BY <1>1, <2>1, SaveEnds
  <2>3. WriterIn(save', c) = None
    BY <1>1, <2>1, <2>2, SaveEnds
  <2>4. ASSUME NEW d \in Conferences \ {c}
        PROVE  WriterIn(save', d) = WriterIn(save, d)
    <3>1. \A r \in Sessions : save'[r].at = "written" /\ save'[r].id = d
                                <=> save[r].at = "written" /\ save[r].id = d
      BY <2>1 DEF CInv, TypeOK, NoSave, ConstantsOK
    <3> QED BY ONLY <3>1, SameWriter
  <2> QED BY <1>1, <2>1, <2>3, <2>4, SaveEnds
<1>7. ListingRows[c].loaded_at = 0
  BY <1>1 DEF ListingRows, NoRow
<1>8. {p \in {c} : Listing!LoadedAt(s) < ListingRows[c].loaded_at} = {}
  BY <1>1, <1>4, <1>7
<1>9. Sweeping <=> ListingSweep.at = "page"
  BY DEF Sweeping, ListingSweep
<1>10. IF ListingSweep.at = "page" THEN added' = added \cup {c} ELSE UNCHANGED added
  BY <1>9 DEF Commit, Stored
<1>11. UNCHANGED <<clock, ListingSweep, start, listed \cup sweep.page,
                   again \cup (listed \cap sweep.page)>>
  BY DEF Commit, ListingSweep, NextCursor
<1> HIDE DEF c
<1> QED BY <1>2, <1>3, <1>4, <1>5, <1>6, <1>8, <1>10, <1>11 DEF Listing!Commit

LEMMA StartSweepImplements ==
    ASSUME CInv, StartSweep
    PROVE  Listing!StartSweep
<1>1. ListingSweep = Listing!NoSweep
  BY DEF StartSweep, ListingSweep, NextCursor, NoSweep, NoCursor, Listing!NoSweep, Listing!NoCursor
<1>2. sweep' = [sweep EXCEPT !.at = "page"] /\ sweep = NoSweep
  BY DEF StartSweep
<1>3. /\ sweep'.at = "page" /\ sweep'.cursor = NoCursor /\ sweep'.page = sweep.page
  BY <1>2 DEF NoSweep
<1>4. ListingSweep' = [at |-> "page", cursor |-> Listing!NoCursor]
  BY <1>3 DEF ListingSweep, NextCursor, NoCursor, Listing!NoCursor
<1>5. start' = {c \in Conferences : ListingRows[c].stored /\ ListingRows[c].matches}
  BY NoCursorIsCursor DEF StartSweep, Candidates, ListingRows
<1>6. UNCHANGED <<ListingRows, clock, Listing!loads>>
  BY DEF StartSweep, ListingRows, Listing!loads, ListingLoads, WriterIn
<1>7. UNCHANGED <<added, listed \cup sweep.page, again \cup (listed \cap sweep.page)>>
  BY <1>3 DEF StartSweep
<1> QED BY <1>1, <1>4, <1>5, <1>6, <1>7 DEF Listing!StartSweep

\* Its pages are in the order of OrderListing's.
LEMMA SameOrder ==
    ASSUME NEW c \in Conferences, NEW d \in Conferences
    PROVE  Listing!Before(Listing!KeyOf(c), Listing!KeyOf(d)) <=> Before(KeyOf(c), KeyOf(d))
BY DEF Listing!Before, Listing!KeyOf, Before, KeyOf, ListingRows

LEMMA SameSide ==
    ASSUME NEW c \in Conferences, NEW k \in Cursor
    PROVE  Listing!Before(Listing!KeyOf(c), [given |-> k.given, loaded_at |-> k.checked_at,
                                             id |-> k.id])
             <=> Before(KeyOf(c), k)
BY DEF Listing!Before, Listing!KeyOf, Before, KeyOf, ListingRows

LEMMA SameCardinality ==
    ASSUME NEW S
    PROVE  Listing!Cardinality(S) = Cardinality(S)
BY DEF Listing!Cardinality, Cardinality

\* A page that is selected counts as returned, and none was returned before.
LEMMA SelectPageImplements ==
    ASSUME ConstantsOK, CInv, SelectPage
    PROVE  Listing!NextPage
<1> DEFINE found == Candidates(sweep.cursor)
<1> DEFINE Nexts(page) == {NoCursor} \cup {KeyOf(c) : c \in page}
<1>p. PICK page \in SUBSET found :
        /\ IsPage(page, found)
        /\ \E next \in Nexts(page) :
             /\ IsNext(next, page, found)
             /\ sweep' = [sweep EXCEPT !.at = "load", !.page = page, !.next = next]
  BY DEF SelectPage
<1>1. PICK next \in Nexts(page) :
        /\ IsPage(page, found)
        /\ IsNext(next, page, found)
        /\ sweep' = [sweep EXCEPT !.at = "load", !.page = page, !.next = next]
  BY <1>p
<1>2. /\ sweep.at = "page" /\ sweep.page = {}
      /\ UNCHANGED <<rows, clock, save, history>>
  BY DEF SelectPage, CInv, SweepFormed
<1>3. found \subseteq Conferences /\ page \subseteq Conferences
  BY DEF Candidates
<1>4. sweep'.at = "load" /\ sweep'.page = page /\ sweep'.next = next
  BY <1>1 DEF CInv, TypeOK, Sweep
<1>5. ListingSweep.at = "page" /\ sweep.cursor \in Cursor
      /\ ListingSweep.cursor = [given |-> sweep.cursor.given,
                                loaded_at |-> sweep.cursor.checked_at, id |-> sweep.cursor.id]
  BY <1>2 DEF ListingSweep, NextCursor, CInv, TypeOK, Sweep
<1>6. Listing!Candidates(ListingSweep.cursor) = found
  BY <1>5, SameSide DEF Listing!Candidates, Candidates, ListingRows, Cursor
<1>7. Listing!IsPage(page, found)
  <2>1. \A c \in page, d \in found \ page : Listing!Before(Listing!KeyOf(d), Listing!KeyOf(c))
    BY <1>1, <1>3, SameOrder DEF IsPage
  <2> HIDE DEF found
  <2> QED BY <1>1, <2>1, SameCardinality DEF IsPage, Listing!IsPage
<1>8. /\ (listed \cup sweep.page)' = (listed \cup sweep.page) \cup page
      /\ (again \cup (listed \cap sweep.page))'
           = (again \cup (listed \cap sweep.page)) \cup ((listed \cup sweep.page) \cap page)
  BY <1>2, <1>4 DEF history
<1>9. ListingSweep' = [at |-> IF next.given THEN "page" ELSE "end",
                       cursor |-> [given |-> next.given, loaded_at |-> next.checked_at,
                                   id |-> next.id]]
  BY <1>4 DEF ListingSweep, NextCursor
<1>10. UNCHANGED <<ListingRows, clock, Listing!loads, start, added>>
  BY <1>2 DEF ListingRows, Listing!loads, ListingLoads, WriterIn, history
<1>11. \/ page = found /\ ListingSweep' = [at |-> "end", cursor |-> Listing!NoCursor]
       \/ /\ page # found
          /\ \E c \in page : /\ Listing!IsLast(c, page)
                             /\ ListingSweep' = [at |-> "page", cursor |-> Listing!KeyOf(c)]
  <2>1. CASE page = found
    <3>1. next = NoCursor
      BY <1>1, <2>1 DEF IsNext
    <3> QED BY <1>9, <2>1, <3>1 DEF NoCursor, Listing!NoCursor
  <2>2. CASE page # found
    <3>1. PICK c \in page : next = KeyOf(c) /\ \A d \in page \ {c} : Before(KeyOf(c), KeyOf(d))
      BY <1>1, <2>2 DEF IsNext
    <3>2. Listing!IsLast(c, page)
      BY <1>3, <3>1, SameOrder DEF Listing!IsLast
    <3>3. ListingSweep' = [at |-> "page", cursor |-> Listing!KeyOf(c)]
      BY <1>3, <1>9, <3>1 DEF KeyOf, Listing!KeyOf, ListingRows
    <3> QED BY <2>2, <3>2, <3>3
  <2> QED BY <2>1, <2>2
<1> HIDE DEF found, Nexts
<1> QED BY <1>5, <1>6, <1>7, <1>8, <1>10, <1>11 DEF Listing!NextPage

\* OrderListing has moved on already.
LEMMA LoadDivergencesImplements ==
    ASSUME CInv, LoadDivergences
    PROVE  UNCHANGED Listing!vars
<1>1. /\ sweep.at = "load" /\ sweep.next.given \in BOOLEAN
      /\ sweep' = [at |-> IF sweep.next.given THEN "page" ELSE "end",
                   cursor |-> sweep.next, page |-> {}, next |-> NoCursor]
      /\ listed' = listed \cup sweep.page
      /\ again' = again \cup (listed \cap sweep.page)
      /\ UNCHANGED <<rows, clock, save, start, added>>
  BY DEF LoadDivergences, CInv, TypeOK, Sweep, Cursor
<1>2. sweep'.at = (IF sweep.next.given THEN "page" ELSE "end")
      /\ sweep'.cursor = sweep.next /\ sweep'.page = {}
  BY <1>1
<1>3. ListingSweep' = ListingSweep
  BY <1>1, <1>2 DEF ListingSweep, NextCursor
<1>4. UNCHANGED <<ListingRows, clock, Listing!loads>>
  BY <1>1 DEF ListingRows, Listing!loads, ListingLoads, WriterIn
<1>5. UNCHANGED <<start, added, listed \cup sweep.page, again \cup (listed \cap sweep.page)>>
  BY <1>1, <1>2
<1> QED BY <1>3, <1>4, <1>5 DEF Listing!vars, Listing!history

LEMMA NextImplements == ConstantsOK /\ CInv /\ [Next]_vars => [Listing!Next]_Listing!vars
<1> SUFFICES ASSUME ConstantsOK, CInv, [Next]_vars
             PROVE  Listing!Next \/ UNCHANGED Listing!vars
  OBVIOUS
<1>1. CASE Tick
  BY <1>1, TickImplements DEF Listing!Next
<1>2. ASSUME NEW s \in Sessions,
             \/ \E c \in Conferences : Check(s, c)
             \/ Insert(s) \/ InsertDivergences(s) \/ Commit(s) \/ Abort(s)
      PROVE  Listing!Next
  BY <1>2, CheckImplements, InsertImplements, InsertDivergencesImplements, CommitImplements,
     AbortImplements DEF Listing!Next
<1>3. CASE StartSweep
  BY <1>3, StartSweepImplements DEF Listing!Next
<1>4. CASE SelectPage
  BY <1>4, SelectPageImplements DEF Listing!Next
<1>5. CASE LoadDivergences
  BY <1>5, LoadDivergencesImplements
<1>6. CASE UNCHANGED vars
  BY <1>6 DEF vars, history, Listing!vars, Listing!history, Listing!loads, ListingRows,
     ListingLoads, WriterIn, ListingSweep, NextCursor
<1> QED BY <1>1, <1>2, <1>3, <1>4, <1>5, <1>6 DEF Next

\* Every behaviour of the conference listing is one of OrderListing in which no
\* key ever goes back, a page counting as returned once it is selected.
THEOREM ImplementsOrderListing ==
    ASSUME ConstantsOK
    PROVE  Spec => Listing!Spec
<1>1. Init => Listing!Init
  BY InitImplements
<1>2. CInv /\ [Next]_vars => [Listing!Next]_Listing!vars
  BY NextImplements
<1> QED BY <1>1, <1>2, CInvAlways, PTL DEF Spec, Listing!Spec
=============================================================================
