--------------------------- MODULE ListingsProofs ---------------------------
(***************************************************************************)
(* Machine-checked proofs about OrderListing, for any number of orders and *)
(* ingestions, any page size and any clock; and about Listings, to which   *)
(* the proofs of its three modules are carried over.                       *)
(***************************************************************************)
EXTENDS Listings, TLAPS

(***************************************************************************)
(* The order of the pages                                                  *)
(***************************************************************************)
\* The key of an order is a cursor.
LEMMA KeyIsCursor ==
    ASSUME TypeOK, NEW o \in Orders
    PROVE  KeyOf(o) \in Cursor /\ KeyOf(o).given
BY OrdersAssumption DEF TypeOK, Row, Cursor, KeyOf

LEMMA BeforeAsymmetric ==
    ASSUME NEW k \in Cursor, NEW c \in Cursor, Before(k, c)
    PROVE  ~Before(c, k)
BY DEF Before, Cursor

LEMMA BeforeTransitive ==
    ASSUME NEW j \in Cursor, NEW k \in Cursor, NEW c \in Cursor,
           Before(j, k), Before(k, c)
    PROVE  Before(j, c)
BY DEF Before, Cursor

(***************************************************************************)
(* Every action preserves LInv                                             *)
(***************************************************************************)
LEMMA InitEstablishesLInv == Init => LInv
BY MatchesAssumption, NoneAssumption
   DEF Init, LInv, TypeOK, Row, NoRow, Load, NoLoad, Seen, Unseen, Steps, Cursor,
       NoCursor, NoSweep, LoadsFormed, UntouchedAhead, ReturnedBehind,
       SweepCoversUntouched, RepeatsAreRegressions

\* A step that leaves the rows, the sweep and its history alone keeps what
\* LInv says of them.
LEMMA SweepUntouched ==
    ASSUME LInv, UNCHANGED <<db, sweep, history>>
    PROVE  /\ UntouchedAhead' /\ ReturnedBehind'
           /\ SweepCoversUntouched' /\ RepeatsAreRegressions'
BY DEF LInv, UntouchedAhead, ReturnedBehind, SweepCoversUntouched,
       RepeatsAreRegressions, Candidates, KeyOf, Before, history

\* Select keeps a load a load of the same order.
LEMMA LoadSelected ==
    ASSUME NEW l \in Load, NEW seen \in Seen, NEW stamp \in Nat
    PROVE  LET next == [l EXCEPT !.at = "selected", !.seen = seen, !.stamp = stamp]
           IN  next \in Load /\ next.order = l.order
BY DEF Load, Steps

LEMMA TickKeepsLInv ==
    ASSUME LInv, Tick
    PROVE  LInv'
<1>1. TypeOK' /\ LoadsFormed'
  BY MaxTimeAssumption DEF LInv, TypeOK, LoadsFormed, Tick, loads, history
<1> QED BY <1>1, SweepUntouched DEF LInv, Tick

\* Parse, Select, Write and Abort change nothing but the load in progress.
LEMMA LoadingKeepsLInv ==
    ASSUME LInv, NEW s \in Sessions,
           \/ \E o \in Orders : Parse(s, o)
           \/ Select(s) \/ Write(s) \/ Abort(s)
    PROVE  LInv'
<1>1. UNCHANGED <<db, sweep, history>>
  BY DEF Parse, Select, Write, Abort
<1>2. TypeOK' /\ LoadsFormed'
  <2>1. CASE \E o \in Orders : Parse(s, o)
    BY <2>1 DEF LInv, TypeOK, LoadsFormed, Parse, history, Load, Steps, Seen, Unseen
  <2>2. CASE Select(s)
    <3>1. load[s].order \in Orders
      BY <2>2 DEF LInv, LoadsFormed, Select
    <3>2. [stored |-> db[load[s].order].stored,
           loaded_at |-> db[load[s].order].loaded_at] \in Seen
      BY <3>1 DEF LInv, TypeOK, Row, Seen
    <3> DEFINE seen == [stored |-> db[load[s].order].stored,
                        loaded_at |-> db[load[s].order].loaded_at]
               stamp == IF db[load[s].order].stored THEN clock ELSE load[s].stamp
               next == [load[s] EXCEPT !.at = "selected", !.seen = seen, !.stamp = stamp]
    <3>3. stamp \in Nat
      BY DEF LInv, TypeOK, Load
    <3>4. load' = [load EXCEPT ![s] = next]
      BY <2>2 DEF Select
    <3>5. load[s] \in Load
      BY DEF LInv, TypeOK
    <3> HIDE DEF seen, stamp
    <3>6. next \in Load /\ next.order \in Orders
      BY <3>1, <3>2, <3>3, <3>5, LoadSelected DEF seen
    <3> HIDE DEF next
    <3> QED
      BY <2>2, <3>4, <3>6 DEF LInv, TypeOK, LoadsFormed, Select, history
  <2>3. CASE Write(s)
    BY <2>3 DEF LInv, TypeOK, LoadsFormed, Write, history, Load, Steps
  <2>4. CASE Abort(s)
    BY <2>4 DEF LInv, TypeOK, LoadsFormed, Abort, history, Load, NoLoad, Steps, Seen, Unseen
  <2> QED BY <2>1, <2>2, <2>3, <2>4
<1> QED BY <1>1, <1>2, SweepUntouched DEF LInv

\* While a sweep runs, the order that is stored is touched, and regressed
\* unless it stays where it was or moves towards the newest.
LEMMA CommitKeepsLInv ==
    ASSUME LInv, NEW s \in Sessions, Commit(s)
    PROVE  LInv'
<1> DEFINE o == load[s].order
<1>1. o \in Orders
  BY DEF LInv, LoadsFormed, Commit
<1>2. LoadedAt(s) \in Nat
  BY <1>1 DEF LInv, TypeOK, LoadedAt, Load, Row
<1>3. PICK m \in BOOLEAN :
        db' = [db EXCEPT ![o] = [stored |-> TRUE, loaded_at |-> LoadedAt(s), matches |-> m]]
  BY MatchesAssumption DEF Commit
<1>4. TypeOK' /\ LoadsFormed'
  <2>1. db' \in [Orders -> Row]
    BY <1>1, <1>2, <1>3 DEF LInv, TypeOK, Row
  <2>2. touched' \subseteq Orders /\ regressed' \subseteq Orders
    BY <1>1 DEF LInv, TypeOK, Commit
  <2> QED
    BY <2>1, <2>2 DEF LInv, TypeOK, LoadsFormed, Commit, Load, NoLoad, Steps, Seen, Unseen
<1>5. \A p \in Orders \ {o} : db'[p] = db[p]
  BY <1>3 DEF LInv, TypeOK
<1>6. UNCHANGED <<sweep, start, returned, repeated>>
  BY DEF Commit
<1>7. UntouchedAhead'
  <2> SUFFICES ASSUME sweep.at = "page", NEW p \in start \ touched'
               PROVE  /\ db'[p].stored /\ db'[p].matches
                      /\ p \in returned \/ p \in Candidates(sweep.cursor)'
    BY <1>6 DEF UntouchedAhead
  <2>1. p # o /\ p \in start \ touched /\ p \in Orders
    BY DEF Commit, LInv, TypeOK
  <2> QED BY <1>5, <1>6, <2>1 DEF LInv, UntouchedAhead, Candidates, KeyOf, Before
<1>8. ReturnedBehind'
  <2>1. \A p \in returned : db'[p].stored
    BY <1>1, <1>3, <1>5 DEF LInv, TypeOK, ReturnedBehind
  <2>2. ASSUME sweep.cursor.given, NEW p \in returned \ regressed'
        PROVE  ~Before(KeyOf(p)', sweep.cursor)
    <3>1. p \in returned \ regressed /\ p \in Orders /\ sweep.at = "page"
      BY <2>2 DEF Commit, LInv, TypeOK, ReturnedBehind
    <3>2. ~Before(KeyOf(p), sweep.cursor)
      BY <2>2, <3>1 DEF LInv, ReturnedBehind
    <3>3. db[p].loaded_at \in Nat /\ db'[p].loaded_at \in Nat
      BY <1>4, <3>1 DEF LInv, TypeOK, Row
    <3>4. db'[p].loaded_at >= db[p].loaded_at
      <4>1. CASE p = o
        <5>1. ~(LoadedAt(s) < db[o].loaded_at)
          BY <2>2, <3>1, <4>1 DEF Commit
        <5>2. db'[o].loaded_at = LoadedAt(s)
          BY <1>1, <1>3 DEF LInv, TypeOK
        <5> QED BY <1>2, <3>3, <4>1, <5>1, <5>2
      <4>2. CASE p # o
        BY <1>5, <3>1, <3>3, <4>2
      <4> QED BY <4>1, <4>2
    <3>5. sweep.cursor \in Cursor /\ p \in Nat
      BY <3>1, OrdersAssumption DEF LInv, TypeOK
    <3> QED BY <3>2, <3>3, <3>4, <3>5 DEF Before, KeyOf, Cursor
  <2> QED BY <1>6, <2>1, <2>2 DEF LInv, ReturnedBehind
<1>9. SweepCoversUntouched'
  BY <1>6 DEF LInv, SweepCoversUntouched, Commit
<1>10. RepeatsAreRegressions'
  BY <1>6 DEF LInv, RepeatsAreRegressions, Commit
<1> QED BY <1>4, <1>7, <1>8, <1>9, <1>10 DEF LInv

LEMMA StartSweepKeepsLInv ==
    ASSUME LInv, StartSweep
    PROVE  LInv'
<1>1. TypeOK' /\ LoadsFormed'
  BY DEF LInv, TypeOK, LoadsFormed, StartSweep, Cursor, NoCursor, loads
<1>2. UntouchedAhead'
  BY DEF StartSweep, UntouchedAhead, Candidates, NoCursor
<1>3. ReturnedBehind'
  BY DEF LInv, StartSweep, ReturnedBehind, NoSweep, NoCursor
<1>4. SweepCoversUntouched' /\ RepeatsAreRegressions'
  BY DEF LInv, StartSweep, SweepCoversUntouched, RepeatsAreRegressions
<1> QED BY <1>1, <1>2, <1>3, <1>4 DEF LInv

\* A page takes the rows next to the cursor: what it leaves lies beyond its
\* last row, what it takes lies before the old cursor.
LEMMA NextPageKeepsLInv ==
    ASSUME LInv, NextPage
    PROVE  LInv'
<1> DEFINE ahead == Candidates(sweep.cursor)
<1>1. PICK page \in SUBSET ahead :
        /\ IsPage(page, ahead)
        /\ returned' = returned \cup page
        /\ repeated' = repeated \cup (returned \cap page)
        /\ \/ /\ page = ahead
              /\ sweep' = [at |-> "end", cursor |-> NoCursor]
           \/ /\ page # ahead
              /\ \E o \in page :
                   /\ IsLast(o, page)
                   /\ sweep' = [at |-> "page", cursor |-> KeyOf(o)]
  BY DEF NextPage
<1>2. /\ sweep.at = "page"
      /\ UNCHANGED <<db, clock, load, writer, start, touched, regressed>>
  BY DEF NextPage, loads
<1>3. /\ ahead \subseteq Orders
      /\ \A o \in ahead : db[o].stored /\ db[o].matches
      /\ sweep.cursor.given => \A o \in ahead : Before(KeyOf(o), sweep.cursor)
  BY DEF Candidates
<1>4. \A o \in Orders : KeyOf(o) \in Cursor /\ KeyOf(o).given /\ KeyOf(o)' = KeyOf(o)
  BY <1>2, KeyIsCursor DEF LInv, KeyOf
<1>5. TypeOK' /\ LoadsFormed'
  <2>1. sweep' \in [at: {"none", "page", "end"}, cursor: Cursor]
    <3>1. CASE page = ahead
      <4>1. sweep' = [at |-> "end", cursor |-> NoCursor]
        BY <1>1, <3>1
      <4>2. NoCursor \in Cursor
        BY DEF NoCursor, Cursor
      <4> QED BY <4>1, <4>2
    <3>2. CASE page # ahead
      <4>1. PICK o \in page : sweep' = [at |-> "page", cursor |-> KeyOf(o)]
        BY <1>1, <3>2
      <4>2. KeyOf(o) \in Cursor
        BY <1>3, <1>4
      <4> QED BY <4>1, <4>2
    <3> QED BY <3>1, <3>2
  <2>2. returned' \subseteq Orders /\ repeated' \subseteq Orders
    BY <1>1, <1>3 DEF LInv, TypeOK
  <2> QED BY <1>2, <2>1, <2>2 DEF LInv, TypeOK, LoadsFormed
<1>6. \A o \in start \ touched : o \in returned \/ o \in ahead
  BY <1>2 DEF LInv, UntouchedAhead
<1>7. RepeatsAreRegressions'
  <2>1. \A o \in returned \cap page : o \in regressed
    <3> SUFFICES ASSUME NEW o \in returned \cap page, o \notin regressed
                 PROVE  FALSE
      OBVIOUS
    <3>1. CASE sweep.cursor.given
      BY <1>1, <1>3, <3>1 DEF LInv, ReturnedBehind
    <3>2. CASE ~sweep.cursor.given
      BY <1>2, <3>2 DEF LInv, ReturnedBehind
    <3> QED BY <3>1, <3>2
  <2> QED BY <1>1, <1>2, <2>1 DEF LInv, RepeatsAreRegressions
<1>8. CASE page = ahead
  <2>1. sweep' = [at |-> "end", cursor |-> NoCursor] /\ returned' = returned \cup ahead
    BY <1>1, <1>8
  <2>2. UntouchedAhead'
    BY <2>1 DEF UntouchedAhead
  <2>3. ReturnedBehind'
    BY <1>2, <1>3, <2>1 DEF LInv, ReturnedBehind, NoCursor
  <2>4. SweepCoversUntouched'
    BY <1>2, <1>6, <2>1 DEF SweepCoversUntouched
  <2> QED BY <1>5, <1>7, <2>2, <2>3, <2>4 DEF LInv
<1>9. CASE page # ahead
  <2>1. PICK last \in page :
          IsLast(last, page) /\ sweep' = [at |-> "page", cursor |-> KeyOf(last)]
    BY <1>1, <1>9
  <2>2. last \in Orders /\ KeyOf(last) \in Cursor /\ KeyOf(last).given
    BY <1>3, <1>4, <2>1
  <2>3. UntouchedAhead'
    <3> SUFFICES ASSUME NEW o \in start \ touched
                 PROVE  /\ db[o].stored /\ db[o].matches
                        /\ o \in returned' \/ o \in Candidates(KeyOf(last))
      <4>1. Candidates(sweep.cursor)' = Candidates(KeyOf(last))
        BY <1>2, <2>1 DEF Candidates, KeyOf, Before
      <4> QED BY <1>2, <4>1 DEF UntouchedAhead
    <3>1. o \in Orders /\ db[o].stored /\ db[o].matches
      BY <1>2 DEF LInv, TypeOK, UntouchedAhead
    <3>2. CASE o \in returned \cup page
      BY <1>1, <3>1, <3>2
    <3>3. CASE o \in ahead \ page
      <4>1. Before(KeyOf(o), KeyOf(last))
        BY <1>1, <2>1, <3>3 DEF IsPage
      <4> QED BY <3>1, <4>1 DEF Candidates
    <3> QED BY <1>6, <3>2, <3>3
  <2>4. ReturnedBehind'
    <3>1. \A o \in returned' : db'[o].stored
      BY <1>1, <1>2, <1>3 DEF LInv, ReturnedBehind
    <3>2. ASSUME NEW o \in returned' \ regressed
          PROVE  ~Before(KeyOf(o), KeyOf(last))
      <4>1. o \in Orders
        BY <1>5 DEF TypeOK
      <4>2. CASE o = last
        BY <2>2, <4>2, BeforeAsymmetric
      <4>3. CASE o \in page \ {last}
        BY <1>4, <2>1, <2>2, <4>1, <4>3, BeforeAsymmetric DEF IsLast
      <4>4. CASE o \in returned
        <5>1. sweep.cursor.given
          BY <1>2, <4>4 DEF LInv, ReturnedBehind
        <5>2. ~Before(KeyOf(o), sweep.cursor)
          BY <3>2, <4>4, <5>1 DEF LInv, ReturnedBehind
        <5>3. Before(KeyOf(last), sweep.cursor)
          BY <1>3, <2>1, <5>1
        <5>4. sweep.cursor \in Cursor
          BY DEF LInv, TypeOK
        <5> QED BY <1>4, <2>2, <4>1, <5>2, <5>3, <5>4, BeforeTransitive
      <4> QED BY <1>1, <3>2, <4>2, <4>3, <4>4
    <3>3. \A o \in returned' \ regressed' : ~Before(KeyOf(o)', sweep'.cursor)
      BY <1>2, <1>4, <1>5, <2>1, <3>2 DEF TypeOK
    <3> QED BY <2>1, <2>2, <3>1, <3>3 DEF ReturnedBehind
  <2>5. SweepCoversUntouched'
    BY <2>1 DEF SweepCoversUntouched
  <2> QED BY <1>5, <1>7, <2>3, <2>4, <2>5 DEF LInv
<1> QED BY <1>8, <1>9

LEMMA StutterKeepsLInv ==
    ASSUME LInv, UNCHANGED vars
    PROVE  LInv'
<1>1. TypeOK' /\ LoadsFormed'
  BY DEF LInv, TypeOK, LoadsFormed, vars, loads, history
<1> QED BY <1>1, SweepUntouched DEF LInv, vars

LEMMA StepKeepsLInv == LInv /\ [Next]_vars => LInv'
<1> SUFFICES ASSUME LInv, [Next]_vars
             PROVE  LInv'
  OBVIOUS
<1>1. CASE Tick
  BY <1>1, TickKeepsLInv
<1>2. CASE \E s \in Sessions : \/ \E o \in Orders : Parse(s, o)
                               \/ Select(s) \/ Write(s) \/ Abort(s)
  BY <1>2, LoadingKeepsLInv
<1>3. CASE \E s \in Sessions : Commit(s)
  BY <1>3, CommitKeepsLInv
<1>4. CASE StartSweep
  BY <1>4, StartSweepKeepsLInv
<1>5. CASE NextPage
  BY <1>5, NextPageKeepsLInv
<1>6. CASE UNCHANGED vars
  BY <1>6, StutterKeepsLInv
<1> QED BY <1>1, <1>2, <1>3, <1>4, <1>5, <1>6 DEF Next

(***************************************************************************)
(* The theorems                                                            *)
(***************************************************************************)
\* The inductive invariant of the sweep holds in every reachable state.
THEOREM LInvAlways == Spec => []LInv
<1>1. Init => LInv
  BY InitEstablishesLInv
<1>2. LInv /\ [Next]_vars => LInv'
  BY StepKeepsLInv
<1> QED BY <1>1, <1>2, PTL DEF Spec

\* find_many never skips an order that is not stored again during the sweep,
\* whatever is inserted or stored again around it.
THEOREM SweepsCoverUntouched == Spec => []SweepCoversUntouched
<1>1. LInv => SweepCoversUntouched
  BY DEF LInv
<1> QED BY <1>1, LInvAlways, PTL

\* find_many never returns an order twice unless its loaded_at went back.
THEOREM OnlyRegressionsRepeat == Spec => []RepeatsAreRegressions
<1>1. LInv => RepeatsAreRegressions
  BY DEF LInv
<1> QED BY <1>1, LInvAlways, PTL
(***************************************************************************)
(* The listings of the API together                                        *)
(***************************************************************************)
ReportProofs == INSTANCE ConferenceListingProofs WITH sweep <- reportSweep, start <- reportStart

UserProofs == INSTANCE UserListingProofs WITH
    PageSize <- UserPageSize, MaxTime <- UserTime, clock <- userClock,
    sweep <- userSweep, start <- userStart, returned <- userReturned, repeated <- userRepeated

\* Only a tick of the clock they share is a step of two listings.
LEMMA OthersStay ==
    /\ Next => clock' = clock \/ Tick
    /\ Report!Next => clock' = clock \/ Report!Tick
<1>1. ASSUME Next PROVE clock' = clock \/ Tick
  BY <1>1 DEF Next, Parse, Select, Write, Commit, Abort, StartSweep, NextPage
<1>2. ASSUME Report!Next PROVE clock' = clock \/ Report!Tick
  BY <1>2 DEF Report!Next, Report!Check, Report!Insert, Report!InsertDivergences, Report!Commit,
     Report!Abort, Report!StartSweep, Report!SelectPage, Report!LoadDivergences
<1> QED BY <1>1, <1>2

\* A step of the listing that is followed is a step of its module, and none of
\* the others.
LEMMA StepOfEach ==
    [ListingsNext]_allvars =>
        /\ [Next]_vars
        /\ [Report!Next]_Report!vars
        /\ [UserPages!Next]_UserPages!vars
<1> SUFFICES ASSUME [ListingsNext]_allvars
             PROVE  /\ Next \/ UNCHANGED vars
                    /\ Report!Next \/ UNCHANGED Report!vars
                    /\ UserPages!Next \/ UNCHANGED UserPages!vars
  OBVIOUS
<1>1. UNCHANGED ordersOnly /\ UNCHANGED clock => UNCHANGED vars
  BY DEF ordersOnly, vars
<1>2. UNCHANGED reportOnly /\ UNCHANGED clock => UNCHANGED Report!vars
  BY DEF reportOnly, Report!vars, Report!history
<1>3. UNCHANGED usersOnly => UNCHANGED UserPages!vars
  BY DEF usersOnly, UserPages!vars, UserPages!table, UserPages!history
<1>4. CASE UNCHANGED allvars
  BY <1>1, <1>2, <1>3, <1>4 DEF allvars
<1>5. CASE Next /\ UNCHANGED <<reportOnly, usersOnly>>
  <2>1. Report!Next \/ UNCHANGED Report!vars
    <3>1. CASE Tick
      <4>1. Report!Tick
        BY <1>5, <3>1 DEF Tick, Report!Tick, reportOnly, Report!history
      <4> QED BY <4>1 DEF Report!Next
    <3>2. CASE clock' = clock
      BY <1>2, <1>5, <3>2
    <3> QED BY <1>5, <3>1, <3>2, OthersStay
  <2> QED BY <1>3, <1>5, <2>1
<1>6. CASE Report!Next /\ UNCHANGED <<ordersOnly, usersOnly>>
  <2>1. Next \/ UNCHANGED vars
    <3>1. CASE Report!Tick
      <4>1. Tick
        BY <1>6, <3>1 DEF Tick, Report!Tick, ordersOnly
      <4> QED BY <4>1 DEF Next
    <3>2. CASE clock' = clock
      BY <1>1, <1>6, <3>2
    <3> QED BY <1>6, <3>1, <3>2, OthersStay
  <2> QED BY <1>3, <1>6, <2>1
<1>7. CASE UserPages!Next /\ UNCHANGED <<clock, ordersOnly, reportOnly>>
  BY <1>1, <1>2, <1>7
<1> QED BY <1>4, <1>5, <1>6, <1>7 DEF ListingsNext

\* So a behaviour of the listings is one of each.
LEMMA BehavesAsEach == ListingsSpec => Spec /\ Report!Spec /\ UserPages!Spec
<1>1. ListingsInit => Init /\ Report!Init /\ UserPages!Init
  BY DEF ListingsInit
<1> QED BY <1>1, StepOfEach, PTL DEF ListingsSpec, Spec, Report!Spec, UserPages!Spec

\* The module the proofs are of is the module that is instantiated.
LEMMA SameReport ==
    /\ Report!ConstantsOK => ReportProofs!ConstantsOK
    /\ Report!Init => ReportProofs!Init
    /\ [Report!Next]_Report!vars => [ReportProofs!Next]_ReportProofs!vars
    /\ ReportProofs!EachListedOnce => Report!EachListedOnce
    /\ ReportProofs!ListedWhole => Report!ListedWhole
BY DEF Report!ConstantsOK, ReportProofs!ConstantsOK, Report!NoRow, ReportProofs!NoRow,
       Report!history, ReportProofs!history, Report!vars, ReportProofs!vars, Report!Saving,
       ReportProofs!Saving, Report!NoSave, ReportProofs!NoSave, Report!NoCursor,
       ReportProofs!NoCursor, Report!NoSweep, ReportProofs!NoSweep, Report!Init, ReportProofs!Init,
       Report!Tick, ReportProofs!Tick, Report!Check, ReportProofs!Check, Report!Sweeping,
       ReportProofs!Sweeping, Report!Stored, ReportProofs!Stored, Report!Insert,
       ReportProofs!Insert, Report!InsertDivergences, ReportProofs!InsertDivergences, Report!Commit,
       ReportProofs!Commit, Report!Abort, ReportProofs!Abort, Report!KeyOf, ReportProofs!KeyOf,
       Report!Before, ReportProofs!Before, Report!Candidates, ReportProofs!Candidates,
       Report!IsPage, ReportProofs!IsPage, Report!IsNext, ReportProofs!IsNext, Report!StartSweep,
       ReportProofs!StartSweep, Report!SelectPage, ReportProofs!SelectPage, Report!LoadDivergences,
       ReportProofs!LoadDivergences, Report!Next, ReportProofs!Next, Report!EachListedOnce,
       ReportProofs!EachListedOnce, Report!ListedWhole, ReportProofs!ListedWhole,
       Report!Cardinality, ReportProofs!Cardinality, Report!IsFiniteSet, ReportProofs!IsFiniteSet

LEMMA SameUserPages ==
    /\ UserPages!ConstantsOK => UserProofs!ConstantsOK
    /\ UserPages!Init => UserProofs!Init
    /\ [UserPages!Next]_UserPages!vars => [UserProofs!Next]_UserProofs!vars
    /\ UserProofs!UserSweepErrs => UserPages!UserSweepErrs
BY DEF UserPages!ConstantsOK, UserProofs!ConstantsOK, UserPages!table, UserProofs!table,
       UserPages!history, UserProofs!history, UserPages!vars, UserProofs!vars, UserPages!NoSweep,
       UserProofs!NoSweep, UserPages!Init, UserProofs!Init, UserPages!Tick, UserProofs!Tick,
       UserPages!Begin, UserProofs!Begin, UserPages!Commit, UserProofs!Commit, UserPages!Abort,
       UserProofs!Abort, UserPages!TotalPages, UserProofs!TotalPages, UserPages!HasNext,
       UserProofs!HasNext, UserPages!Newer, UserProofs!Newer, UserPages!InOrder, UserProofs!InOrder,
       UserPages!IsPage, UserProofs!IsPage, UserPages!StartSweep, UserProofs!StartSweep,
       UserPages!Count, UserProofs!Count, UserPages!SelectPage, UserProofs!SelectPage,
       UserPages!Next, UserProofs!Next, UserPages!TypeOK, UserProofs!TypeOK, UserPages!NoTies,
       UserProofs!NoTies, UserPages!UserSweepErrs, UserProofs!UserSweepErrs, UserPages!Cardinality,
       UserProofs!Cardinality, UserPages!IsFiniteSet, UserProofs!IsFiniteSet

(***************************************************************************)
(* What is proved of each module holds of the three together               *)
(***************************************************************************)
\* No sweep of GET /purchase-orders skips an order that is not stored again.
THEOREM ListingsCoverUntouched == ListingsSpec => []SweepCoversUntouched
BY BehavesAsEach, SweepsCoverUntouched, PTL

\* No sweep of GET /purchase-orders returns an order twice unless its
\* loaded_at went back.
THEOREM ListingsRepeatRegressions == ListingsSpec => []RepeatsAreRegressions
BY BehavesAsEach, OnlyRegressionsRepeat, PTL

\* A sweep of GET /conferences lists every conference that matched when it
\* began, and none twice, whatever is stored meanwhile.
THEOREM ReportListsOnce == ListingsSpec => []EachListedOnce
<1>1. ReportProofs!Spec => []ReportProofs!EachListedOnce
  BY ListingsAssumption, SameReport, ReportProofs!ConferencesListedOnce
     DEF ReportProofs!ConferencesListedOnce
<1>2. /\ Report!Init => ReportProofs!Init
      /\ [Report!Next]_Report!vars => [ReportProofs!Next]_ReportProofs!vars
      /\ ReportProofs!EachListedOnce => EachListedOnce
  BY SameReport DEF EachListedOnce
<1> QED BY <1>1, <1>2, BehavesAsEach, PTL DEF Report!Spec, ReportProofs!Spec

\* No sweep of GET /conferences shows a conference without its divergences.
THEOREM ReportListsWhole == ListingsSpec => []ListedWhole
<1>1. ReportProofs!Spec => []ReportProofs!ListedWhole
  BY ListingsAssumption, SameReport, ReportProofs!ConferencesListedWhole
     DEF ReportProofs!ConferencesListedWhole
<1>2. /\ Report!Init => ReportProofs!Init
      /\ [Report!Next]_Report!vars => [ReportProofs!Next]_ReportProofs!vars
      /\ ReportProofs!ListedWhole => ListedWhole
  BY SameReport DEF ListedWhole
<1> QED BY <1>1, <1>2, BehavesAsEach, PTL DEF Report!Spec, ReportProofs!Spec

\* A sweep of GET /admin/users misses no more users than were created between
\* the count and the rows of its last page, and repeats no more than were
\* created while it ran.
THEOREM UserSweepsErrLittle == ListingsSpec => []UserSweepErrs
<1>1. UserProofs!Spec => []UserProofs!UserSweepErrs
  BY ListingsAssumption, SameUserPages, UserProofs!SweepErrsBounded
     DEF UserProofs!SweepErrsBounded
<1>2. /\ UserPages!Init => UserProofs!Init
      /\ [UserPages!Next]_UserPages!vars => [UserProofs!Next]_UserProofs!vars
      /\ UserProofs!UserSweepErrs => UserSweepErrs
  BY SameUserPages DEF UserSweepErrs
<1> QED BY <1>1, <1>2, BehavesAsEach, PTL DEF UserPages!Spec, UserProofs!Spec
=============================================================================
