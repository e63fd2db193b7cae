------------------------------ MODULE Listings ------------------------------
(***************************************************************************)
(* The three listings of the API: orders, conferences and users.  Their    *)
(* tables have nothing in common that a listing could tell, so each        *)
(* behaviour follows one of them.                                          *)
(***************************************************************************)
EXTENDS OrderListing

CONSTANTS
    Conferences, Users, Admin,
    UserPageSize,  \* page_size of the users
    UserTime       \* bound of their clock

VARIABLES
    listing,  \* the listing that is followed
    rows, save, reportSweep, reportStart, added, listed, again, partial,
    stored, created_at, create, userClock, userSweep, userStart, joined, late, userReturned, userRepeated

Report == INSTANCE ConferenceListing WITH sweep <- reportSweep, start <- reportStart

UserPages == INSTANCE UserListing WITH
    PageSize <- UserPageSize, MaxTime <- UserTime, clock <- userClock,
    sweep <- userSweep, start <- userStart, returned <- userReturned, repeated <- userRepeated

ASSUME ListingsAssumption == Report!ConstantsOK /\ UserPages!ConstantsOK

ordersOnly == <<db, loads, sweep, history>>
reportOnly == <<rows, save, reportSweep, reportStart, added, listed, again, partial>>
usersOnly == <<stored, created_at, create, userClock, userSweep, userStart, joined, late,
               userReturned, userRepeated>>

allvars == <<listing, clock, ordersOnly, reportOnly, usersOnly>>

ListingsInit ==
    /\ listing \in {"orders", "conferences", "users"}
    /\ Init
    /\ Report!Init
    /\ UserPages!Init

ListingsNext ==
    /\ \/ listing = "orders" /\ Next /\ UNCHANGED <<reportOnly, usersOnly>>
       \/ listing = "conferences" /\ Report!Next /\ UNCHANGED <<ordersOnly, usersOnly>>
       \/ listing = "users" /\ UserPages!Next /\ UNCHANGED <<clock, ordersOnly, reportOnly>>
    /\ UNCHANGED listing

\* Whoever began a sweep asks for the next page as long as there is one.
ListingsFairness ==
    /\ WF_allvars(NextPage /\ UNCHANGED <<listing, reportOnly, usersOnly>>)
    /\ WF_allvars(/\ Report!SelectPage \/ Report!LoadDivergences
                  /\ UNCHANGED <<listing, ordersOnly, usersOnly>>)

ListingsSpec == ListingsInit /\ [][ListingsNext]_allvars /\ ListingsFairness

(***************************************************************************)
(* What the modules claim of each                                          *)
(***************************************************************************)
\* EachListedOnce of ConferenceListing: every conference of the report that
\* was there when the sweep began is listed, none twice.
EachListedOnce == Report!EachListedOnce

\* ListedWhole of ConferenceListing: no conference is listed without its
\* divergences.
ListedWhole == Report!ListedWhole

\* ImplementsListing of ConferenceListing: the report is a listing like that of
\* the orders, and ends like it.
ImplementsListing == Report!ImplementsListing

\* UserSweepErrs of UserListing: a sweep over the users misses no more than were
\* created between the count and the rows of its last page, and repeats no more
\* than were created at all.
UserSweepErrs == UserPages!UserSweepErrs
=============================================================================
