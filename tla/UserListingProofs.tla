-------------------------- MODULE UserListingProofs --------------------------
(***************************************************************************)
(* Machine-checked proofs about UserListing, for any number of users and   *)
(* sessions, any page size and any clock.                                  *)
(***************************************************************************)
EXTENDS UserListing, FiniteSetTheorems, WellFoundedInduction, TLAPS

(***************************************************************************)
(* Sets and pages                                                          *)
(***************************************************************************)
LEMMA LeastNatural ==
    ASSUME NEW S \in SUBSET Nat, S # {}
    PROVE  \E n \in S : \A m \in S : n <= m
<1> DEFINE R == {p \in Nat \X Nat : p[1] < p[2]}
<1>1. IsWellFoundedOn(R, Nat)
  BY NatLessThanWellFounded DEF OpToRel
<1> HIDE DEF R
<1>2. S \subseteq Nat
  OBVIOUS
<1>3. \E n \in S : \A m \in S : ~ (<<m, n>> \in R)
  BY <1>1, <1>2, WFMin, Zenon
<1>4. PICK n \in S : \A m \in S : ~ (<<m, n>> \in R)
  BY <1>3
<1>5. ASSUME NEW m \in S PROVE n <= m
  <2>1. m \in Nat /\ n \in Nat /\ ~ (<<m, n>> \in R)
    BY <1>2, <1>4
  <2>2. ~ (m < n)
    BY ONLY <2>1 DEF R
  <2> QED BY <2>1, <2>2
<1> QED BY <1>4, <1>5

\* Sets of users can be counted.
LEMMA UsersCounted ==
    ASSUME ConstantsOK, NEW U \in SUBSET Users
    PROVE  /\ IsFiniteSet(U) /\ Cardinality(U) \in Nat
           /\ Cardinality(U) <= Cardinality(Users)
           /\ \A V \in SUBSET U : IsFiniteSet(V) /\ Cardinality(V) \in Nat
                                    /\ Cardinality(V) <= Cardinality(U)
BY FS_Subset, FS_CardinalityType DEF ConstantsOK

\* Only as many pages are asked for as there were users to count.
LEMMA NextPageIsPossible ==
    ASSUME ConstantsOK, NEW page \in Nat, NEW total \in Nat, HasNext(page, total), page >= 1
    PROVE  page + 1 <= total
BY DEF ConstantsOK, HasNext, TotalPages

\* The last page reaches the end of what was counted.
LEMMA LastPageReachesTotal ==
    ASSUME ConstantsOK, NEW page \in Nat, NEW total \in Nat, ~HasNext(page, total), page >= 1
    PROVE  total <= page * PageSize
<1> DEFINE p == PageSize
           q == (total + p - 1) \div p
<1>1. p \in Nat /\ p >= 1
  BY DEF ConstantsOK
<1>2. CASE total = 0
  BY <1>1, <1>2
<1>3. CASE total # 0
  <2>1. q \in Nat /\ total <= q * p
    BY <1>1, <1>3
  <2>2. q <= page
    BY <1>1, <1>3, <2>1 DEF HasNext, TotalPages
  <2> HIDE DEF q
  <2>3. q * p <= page * p
    BY <1>1, <2>1, <2>2
  <2>4. page * p \in Nat /\ q * p \in Nat
    BY <1>1, <2>1
  <2> QED BY <2>1, <2>3, <2>4
<1> QED BY <1>2, <1>3

\* Without ties the head of the list is one set.
LEMMA HeadsAgree ==
    ASSUME ConstantsOK, TypeOK, NoTies, NEW n \in Nat,
           NEW H \in SUBSET stored, IsHead(H, n), NEW G \in SUBSET stored, IsHead(G, n)
    PROVE  H = G
<1> DEFINE both == H \cap G
<1>1. /\ \A u \in Users : created_at[u] \in Nat
      /\ H \in SUBSET Users /\ G \in SUBSET Users
  BY DEF TypeOK
<1>2. Cardinality(H) = Cardinality(G) /\ IsFiniteSet(H) /\ IsFiniteSet(G)
  BY <1>1, UsersCounted DEF IsHead
<1>3. CASE H \subseteq G
  BY <1>2, <1>3, FS_Subset
<1>4. CASE G \subseteq H
  BY <1>2, <1>4, FS_Subset
<1>5. CASE ~(H \subseteq G) /\ ~(G \subseteq H)
  <2>1. PICK u \in H : u \notin G
    BY <1>5
  <2>2. PICK v \in G : v \notin H
    BY <1>5
  <2>3. created_at[u] >= created_at[v] /\ created_at[v] >= created_at[u]
    BY <2>1, <2>2 DEF IsHead, Newer
  <2>4. created_at[u] = created_at[v]
    BY <1>1, <2>1, <2>2, <2>3
  <2> QED BY <2>1, <2>2, <2>4 DEF NoTies
<1> QED BY <1>3, <1>4, <1>5

\* The rows of a page, put after those it skips, are the head of the next page.
LEMMA PageExtendsHead ==
    ASSUME ConstantsOK, TypeOK, NEW n \in Nat,
           NEW head \in SUBSET stored, NEW page \in SUBSET (stored \ head),
           IsPage(head, page, n)
    PROVE  /\ IsHead(head, n)
           /\ IsHead(head \cup page, n + PageSize)
<1> DEFINE total == Cardinality(stored)
           skipped == Cardinality(head)
           taken == Cardinality(page)
           left == Cardinality(stored \ head)
<1>1. IsFiniteSet(stored) /\ IsFiniteSet(head) /\ IsFiniteSet(page)
  BY UsersCounted DEF TypeOK
<1>2. total \in Nat /\ skipped \in Nat /\ taken \in Nat /\ left \in Nat /\ PageSize \in Nat
  BY <1>1, FS_CardinalityType, FS_Difference DEF ConstantsOK
<1>3. left = total - skipped
  BY <1>1, FS_Difference, stored \cap head = head
<1>4. Cardinality(head \cup page) = skipped + taken
  <2>1. head \cap page = {}
    OBVIOUS
  <2>2. Cardinality(head \cup page) = skipped + taken - Cardinality({})
    BY <1>1, <2>1, FS_Union
  <2> QED BY <1>2, <2>2, FS_EmptySet
<1>5. /\ skipped = IF n < total THEN n ELSE total
      /\ taken = IF PageSize < left THEN PageSize ELSE left
      /\ InOrder(head, page)
  BY DEF IsPage
<1>6. Cardinality(head \cup page) = IF n + PageSize < total THEN n + PageSize ELSE total
  BY <1>2, <1>3, <1>4, <1>5
<1>7. Newer(head, stored \ head) /\ Newer(head \cup page, stored \ (head \cup page))
  BY <1>5 DEF InOrder, Newer
<1> QED BY <1>5, <1>6, <1>7 DEF IsHead

\* Of any users one is the newest.
LEMMA NewestOf ==
    ASSUME TypeOK, CreationsFormed, NEW U \in SUBSET Users, U # {}
    PROVE  \E u \in U : Newer({u}, U)
<1> DEFINE ages == {clock - created_at[u] : u \in U}
<1>1. \A u \in U : created_at[u] \in Nat /\ created_at[u] <= clock /\ clock \in Nat
  BY DEF TypeOK, CreationsFormed
<1>2. ages \in SUBSET Nat /\ ages # {}
  BY <1>1
<1> HIDE DEF ages
<1>3. PICK n \in ages : \A m \in ages : n <= m
  BY <1>2, LeastNatural
<1>4. PICK u \in U : n = clock - created_at[u]
  BY <1>3 DEF ages
<1>5. ASSUME NEW v \in U PROVE created_at[u] >= created_at[v]
  <2>1. clock - created_at[v] \in ages
    BY DEF ages
  <2> QED BY <1>1, <1>3, <1>4, <2>1
<1> QED BY <1>5 DEF Newer

\* Without one more user, of a head of the list at most one other was missing.
LEMMA HeadBefore ==
    ASSUME ConstantsOK, TypeOK, CreationsFormed, NEW n \in Nat,
           NEW u \in Users \ stored, stored' = stored \cup {u}, UNCHANGED created_at,
           NEW H \in SUBSET stored', IsHead(H, n)'
    PROVE  \E G \in SUBSET stored, m \in Users :
              IsHead(G, n) /\ H \ {u} \subseteq G /\ G \ H \subseteq {m}
<1> DEFINE total == Cardinality(stored)
<1>1. /\ stored \in SUBSET Users /\ H \in SUBSET Users
      /\ IsFiniteSet(stored) /\ IsFiniteSet(H)
      /\ total \in Nat /\ Cardinality(H) \in Nat
  BY UsersCounted DEF TypeOK
<1>2. Cardinality(stored') = total + 1
  BY <1>1, FS_AddElement
<1>3. /\ Cardinality(H) = IF n < total + 1 THEN n ELSE total + 1
      /\ \A v \in H, w \in stored' \ H : created_at[v] >= created_at[w]
  BY <1>2 DEF IsHead, Newer
<1>4. CASE u \notin H
  <2>1. H \in SUBSET stored /\ Cardinality(H) <= total
    BY <1>1, <1>4, FS_Subset
  <2>2. IsHead(H, n)
    BY <1>1, <1>3, <2>1 DEF IsHead, Newer
  <2> QED BY <2>1, <2>2
<1>5. CASE u \in H /\ n >= total + 1
  <2>1. Cardinality(H) = Cardinality(stored')
    BY <1>1, <1>2, <1>3, <1>5
  <2>2. H = stored'
    BY <1>1, <2>1, FS_Subset, FS_AddElement
  <2>3. IsHead(stored, n)
    BY <1>1, <1>5 DEF IsHead, Newer
  <2> QED BY <2>2, <2>3
<1>6. CASE u \in H /\ n < total + 1
  <2> DEFINE K == H \ {u}
  <2>1. K \in SUBSET stored /\ IsFiniteSet(K) /\ Cardinality(K) = n - 1 /\ n >= 1
    <3>1. Cardinality(K) = n - 1 /\ IsFiniteSet(K)
      BY <1>1, <1>3, <1>6, FS_RemoveElement
    <3>2. Cardinality(K) \in Nat
      BY <3>1, FS_CardinalityType
    <3> QED BY <3>1, <3>2
  <2>2. stored \ K # {}
    <3>1. Cardinality(K) < Cardinality(stored)
      BY <1>1, <1>6, <2>1
    <3>2. K # stored
      BY ONLY <3>1, <1>1
    <3> QED BY <2>1, <3>2
  <2>3. PICK m \in stored \ K : Newer({m}, stored \ K)
    BY <1>1, <2>2, NewestOf
  <2> DEFINE G == K \cup {m}
  <2>4. G \in SUBSET stored /\ Cardinality(G) = n
    BY <2>1, <2>3, FS_AddElement
  <2>5. Newer(G, stored \ G)
    BY <1>3, <2>1, <2>3 DEF Newer
  <2>6. IsHead(G, n)
    BY <1>1, <1>6, <2>4, <2>5 DEF IsHead
  <2> QED BY <1>1, <2>3, <2>4, <2>6
<1> QED BY <1>1, <1>4, <1>5, <1>6

(***************************************************************************)
(* Every action preserves UInv                                             *)
(***************************************************************************)
LEMMA InitEstablishesUInv == ConstantsOK /\ Init => UInv
<1> SUFFICES ASSUME ConstantsOK, Init PROVE UInv
  OBVIOUS
<1>1. Cardinality(stored) = 1 /\ Cardinality(stored) <= Cardinality(Users) /\ Cardinality(Users) \in Nat
  <2>1. stored \in SUBSET Users
    BY DEF Init, ConstantsOK
  <2> QED BY <2>1, UsersCounted, FS_Singleton, FS_CardinalityType DEF Init, ConstantsOK
<1>2. TypeOK /\ Admin \in stored
  BY <1>1 DEF Init, ConstantsOK, TypeOK, NoSweep
<1>3. CreationsFormed /\ HistoryFormed /\ CountIsOld /\ HeadReturned /\ PushedBack
  BY <1>1 DEF Init, CreationsFormed, HistoryFormed, CountIsOld, HeadReturned, PushedBack, NoSweep
<1>4. UserSweepErrs
  BY <1>2, FS_EmptySet DEF Init, UserSweepErrs, NoSweep
<1> QED BY <1>2, <1>3, <1>4 DEF UInv

\* The list stays the same as long as nobody is added to it.
LEMMA ListStays ==
    ASSUME UNCHANGED stored, \A u \in stored : created_at'[u] = created_at[u]
    PROVE  /\ NoTies' <=> NoTies
           /\ \A H \in SUBSET stored, n \in Nat : IsHead(H, n)' <=> IsHead(H, n)
BY DEF NoTies, IsHead, Newer

\* A step that leaves the list, the sweep and its history alone keeps what
\* UInv says of them.
LEMMA SweepUntouched ==
    ASSUME ConstantsOK, UInv, TypeOK', UNCHANGED <<stored, sweep, history>>,
           \A u \in stored : created_at'[u] = created_at[u]
    PROVE  /\ HistoryFormed' /\ CountIsOld' /\ UserSweepErrs'
           /\ NoTies' => HeadReturned' /\ PushedBack'
<1>1. Offset' = Offset /\ Offset \in Nat
  BY DEF UInv, TypeOK, Offset, ConstantsOK
<1>2. HistoryFormed' /\ CountIsOld'
  BY DEF UInv, HistoryFormed, CountIsOld, history
<1>3. UserSweepErrs'
  BY ListStays DEF UInv, UserSweepErrs, history
<1>4. NoTies' => HeadReturned' /\ PushedBack'
  BY <1>1, ListStays DEF UInv, HeadReturned, PushedBack, history
<1> QED BY <1>2, <1>3, <1>4

LEMMA TickKeepsUInv ==
    ASSUME ConstantsOK, UInv, Tick
    PROVE  UInv'
<1>1. TypeOK' /\ CreationsFormed'
  BY DEF UInv, TypeOK, CreationsFormed, Tick, table, history
<1>2. UNCHANGED <<stored, created_at, sweep, history>>
  BY DEF Tick, table
<1> QED BY <1>1, <1>2, SweepUntouched DEF UInv

LEMMA BeginKeepsUInv ==
    ASSUME ConstantsOK, UInv, NEW s \in Sessions, NEW u \in Users, Begin(s, u)
    PROVE  UInv'
<1>1. TypeOK'
  BY DEF UInv, TypeOK, Begin, history
<1>2. CreationsFormed'
  <2>1. \A v \in Users : created_at'[v] <= clock'
    BY DEF UInv, TypeOK, CreationsFormed, Begin
  <2>2. u # None
    BY DEF ConstantsOK
  <2> QED BY <2>1, <2>2 DEF UInv, TypeOK, CreationsFormed, Begin
<1>3. \A v \in stored : created_at'[v] = created_at[v]
  BY DEF UInv, TypeOK, Begin
<1>4. UNCHANGED <<stored, sweep, history>>
  BY DEF Begin
<1> QED BY <1>1, <1>2, <1>3, <1>4, SweepUntouched DEF UInv

LEMMA AbortKeepsUInv ==
    ASSUME ConstantsOK, UInv, NEW s \in Sessions, Abort(s)
    PROVE  UInv'
<1>1. TypeOK'
  BY DEF UInv, TypeOK, Abort, history
<1>2. CreationsFormed'
  BY DEF UInv, TypeOK, CreationsFormed, Abort
<1>3. \A v \in stored : created_at'[v] = created_at[v]
  BY DEF UInv, TypeOK, CreationsFormed, Abort
<1>4. UNCHANGED <<stored, sweep, history>>
  BY DEF Abort
<1> QED BY <1>1, <1>2, <1>3, <1>4, SweepUntouched DEF UInv

\* The steps of the sweep leave the table alone.
LEMMA TableUntouched ==
    ASSUME UInv, UNCHANGED <<table, clock>>
    PROVE  /\ CreationsFormed' /\ Admin \in stored'
           /\ NoTies' <=> NoTies
           /\ \A H \in SUBSET stored, n \in Nat : IsHead(H, n)' <=> IsHead(H, n)
BY ListStays DEF UInv, CreationsFormed, table

LEMMA StartSweepKeepsUInv ==
    ASSUME ConstantsOK, UInv, StartSweep
    PROVE  UInv'
<1>1. /\ sweep.page = 1 /\ sweep'.page = 1 /\ sweep'.at = "count"
      /\ sweep'.total = sweep.total
      /\ UNCHANGED <<stored, joined, late, returned, repeated>>
      /\ start' = stored /\ joined = {} /\ returned = {} /\ repeated = {}
  BY DEF UInv, TypeOK, HistoryFormed, StartSweep, table
<1>2. TypeOK'
  BY <1>1 DEF UInv, TypeOK, StartSweep, table
<1>3. CreationsFormed' /\ Admin \in stored'
  BY TableUntouched DEF StartSweep
<1>4. Cardinality(stored) >= 1 /\ Cardinality(stored) \in Nat
  <2>1. IsFiniteSet(stored) /\ stored # {}
    BY UsersCounted DEF UInv, TypeOK
  <2> QED BY <2>1, FS_EmptySet, FS_CardinalityType
<1>5. HistoryFormed' /\ CountIsOld'
  BY <1>1, <1>4 DEF UInv, HistoryFormed, CountIsOld
<1>6. Offset' = 0
  BY <1>1 DEF Offset, ConstantsOK
<1>7. ASSUME NEW H \in SUBSET stored, IsHead(H, 0)' PROVE H = {}
  <2>1. Cardinality(H) = 0
    BY <1>1, <1>4, <1>7 DEF IsHead
  <2>2. IsFiniteSet(H)
    BY UsersCounted DEF UInv, TypeOK
  <2> QED BY <2>1, <2>2, FS_EmptySet
<1>8. HeadReturned'
  BY <1>1, <1>6, <1>7 DEF HeadReturned
<1>9. PushedBack'
  <2>1. \A H \in SUBSET stored : repeated' \cup (returned' \ H) = joined'
    BY <1>1
  <2>2. Cardinality(joined') <= Cardinality(joined')
    BY <1>1, FS_EmptySet
  <2> QED BY <1>1, <2>1, <2>2 DEF PushedBack
<1>10. UserSweepErrs'
  BY <1>1, <1>2, FS_EmptySet DEF UserSweepErrs
<1> QED BY <1>2, <1>3, <1>5, <1>8, <1>9, <1>10 DEF UInv

LEMMA CountKeepsUInv ==
    ASSUME ConstantsOK, UInv, Count
    PROVE  UInv'
<1>1. /\ sweep.at = "count" /\ sweep'.page = sweep.page /\ sweep'.at = "select"
      /\ sweep'.total = Cardinality(stored)
      /\ UNCHANGED <<stored, start, joined, returned, repeated>> /\ late' = {}
  BY DEF UInv, TypeOK, Count, table
<1>2. Cardinality(stored) \in Nat /\ Cardinality(stored) <= Cardinality(Users) /\ Cardinality(Users) \in Nat
  BY UsersCounted, FS_CardinalityType DEF UInv, TypeOK, ConstantsOK
<1>3. TypeOK'
  <2>1. Cardinality(stored) \in 0 .. Cardinality(Users)
    BY <1>2
  <2>2. sweep' \in [at: {"none", "count", "select", "end"}, page: 1 .. Cardinality(Users),
                    total: 0 .. Cardinality(Users)]
    BY <2>1 DEF UInv, TypeOK, Count
  <2> QED BY <1>1, <2>2 DEF UInv, TypeOK, Count, table
<1>4. CreationsFormed' /\ Admin \in stored'
  BY TableUntouched DEF Count
<1>5. HistoryFormed' /\ CountIsOld'
  BY <1>1, <1>2, FS_EmptySet DEF UInv, HistoryFormed, CountIsOld
<1>6. NoTies' => HeadReturned' /\ PushedBack'
  <2>1. Offset' = Offset /\ Offset \in Nat
    BY <1>1 DEF UInv, TypeOK, Offset, ConstantsOK
  <2> QED BY <1>1, <2>1, TableUntouched DEF Count, UInv, HeadReturned, PushedBack
<1>7. UserSweepErrs'
  BY <1>1, <1>3, TableUntouched DEF Count, UInv, UserSweepErrs
<1> QED BY <1>3, <1>4, <1>5, <1>6, <1>7 DEF UInv

LEMMA CommitKeepsUInv ==
    ASSUME ConstantsOK, UInv, NEW s \in Sessions, Commit(s)
    PROVE  UInv'
<1> DEFINE u == create[s]
           sweeping == sweep.at \in {"count", "select"}
<1>1. /\ u \in Users \ stored
      /\ stored' = stored \cup {u} /\ create' = [create EXCEPT ![s] = None]
      /\ UNCHANGED <<created_at, clock, sweep, start, returned, repeated>>
  BY DEF Commit, UInv, TypeOK, CreationsFormed
<1>2. /\ joined' = IF sweeping THEN joined \cup {u} ELSE joined
      /\ late' = IF sweep.at = "select" THEN late \cup {u} ELSE late
  BY DEF Commit
<1>3. /\ start \cup joined \cup late \cup returned \cup repeated \subseteq stored
      /\ stored \in SUBSET Users
  BY DEF UInv, TypeOK, HistoryFormed
<1> HIDE DEF u
<1>4. /\ IsFiniteSet(stored) /\ IsFiniteSet(late) /\ IsFiniteSet(joined)
      /\ Cardinality(stored) \in Nat /\ Cardinality(late) \in Nat /\ Cardinality(joined) \in Nat
  BY <1>3, UsersCounted
<1>5. /\ Cardinality(stored') = Cardinality(stored) + 1
      /\ Cardinality(late') = IF sweep.at = "select" THEN Cardinality(late) + 1 ELSE Cardinality(late)
      /\ Cardinality(joined') = IF sweeping THEN Cardinality(joined) + 1 ELSE Cardinality(joined)
  BY <1>1, <1>2, <1>3, <1>4, FS_AddElement
<1>6. TypeOK'
  BY <1>1, <1>2, <1>3 DEF UInv, TypeOK
<1>7. Admin \in stored'
  BY <1>1 DEF UInv
<1>8. CreationsFormed'
  BY <1>1 DEF UInv, TypeOK, CreationsFormed, u
<1>9. HistoryFormed'
  BY <1>1, <1>2, <1>3, <1>4, <1>5 DEF UInv, TypeOK, HistoryFormed
<1>10. CountIsOld'
  BY <1>1, <1>4, <1>5 DEF UInv, TypeOK, CountIsOld
<1>11. NoTies' => NoTies
  BY <1>1 DEF NoTies
<1>12. UserSweepErrs'
  <2>1. Cardinality(joined) <= Cardinality(joined')
    BY <1>4, <1>5
  <2>2. /\ Cardinality(repeated) \in Nat /\ Cardinality(start \ returned) \in Nat
    BY <1>3, UsersCounted
  <2> QED BY <1>1, <1>2, <1>4, <1>5, <1>6, <1>11, <2>1, <2>2 DEF UInv, UserSweepErrs
<1>13. ASSUME NoTies', sweeping, NEW H \in SUBSET stored', IsHead(H, Offset)'
       PROVE  /\ H \cap start \subseteq returned
              /\ Cardinality(repeated \cup (returned \ H)) <= Cardinality(joined')
  <2>1. Offset' = Offset /\ Offset \in Nat
    BY <1>1 DEF UInv, TypeOK, Offset, ConstantsOK
  <2>2. PICK n \in Nat : n = Offset /\ n = Offset'
    BY <2>1
  <2>3. IsHead(H, n)'
    BY <1>13, <2>2 DEF IsHead
  <2>4. PICK G \in SUBSET stored, m \in Users :
           IsHead(G, n) /\ H \ {u} \subseteq G /\ G \ H \subseteq {m}
    <3>1. TypeOK /\ CreationsFormed /\ UNCHANGED created_at /\ H \in SUBSET stored'
      BY <1>1, <1>13 DEF UInv
    <3> QED BY <1>1, <2>3, <3>1, HeadBefore
  <2>5. G \cap start \subseteq returned /\ Cardinality(repeated \cup (returned \ G)) <= Cardinality(joined)
    BY <1>11, <1>13, <2>2, <2>4 DEF UInv, HeadReturned, PushedBack
  <2>6. H \cap start \subseteq returned
    BY <1>1, <1>3, <2>4, <2>5
  <2> DEFINE was == repeated \cup (returned \ G)
             is == repeated \cup (returned \ H)
  <2>7. IsFiniteSet(was) /\ Cardinality(was) \in Nat /\ is \subseteq was \cup {m}
    <3>1. was \in SUBSET Users
      BY <1>3
    <3> QED BY <2>4, <3>1, UsersCounted
  <2> HIDE DEF was, is
  <2>8. Cardinality(is) <= Cardinality(was \cup {m}) /\ IsFiniteSet(was \cup {m})
    BY <2>7, FS_AddElement, FS_Subset
  <2>9. Cardinality(was \cup {m}) <= Cardinality(was) + 1
    BY ONLY <2>7, FS_AddElement
  <2>10. Cardinality(is) \in Nat /\ Cardinality(was \cup {m}) \in Nat
    BY <2>7, <2>8, FS_Subset, FS_CardinalityType
  <2>11. Cardinality(is) <= Cardinality(joined')
    BY <1>4, <1>5, <1>13, <2>5, <2>7, <2>8, <2>9, <2>10 DEF was
  <2> QED BY <2>6, <2>11 DEF is
<1>14. NoTies' => HeadReturned' /\ PushedBack'
  BY <1>1, <1>13 DEF HeadReturned, PushedBack
<1> QED BY <1>6, <1>7, <1>8, <1>9, <1>10, <1>12, <1>14 DEF UInv

LEMMA SelectPageKeepsUInv ==
    ASSUME ConstantsOK, UInv, SelectPage
    PROVE  UInv'
<1>1. PICK head \in SUBSET stored : \E page \in SUBSET (stored \ head) :
         /\ IsPage(head, page, Offset)
         /\ returned' = returned \cup page
         /\ repeated' = repeated \cup (returned \cap page)
  BY DEF SelectPage, Offset
<1>2. PICK page \in SUBSET (stored \ head) :
         /\ IsPage(head, page, Offset)
         /\ returned' = returned \cup page
         /\ repeated' = repeated \cup (returned \cap page)
  BY <1>1
<1>3. sweep.at = "select" /\ UNCHANGED <<stored, created_at, create, clock, start, joined, late>>
  BY DEF SelectPage, table
<1>4. /\ start \cup joined \cup late \cup returned \cup repeated \subseteq stored
      /\ stored \in SUBSET Users
  BY DEF UInv, TypeOK, HistoryFormed
<1>5. /\ sweep.page \in Nat /\ sweep.page >= 1 /\ sweep.total \in Nat
      /\ Offset \in Nat /\ PageSize \in Nat /\ PageSize >= 1
      /\ Offset + PageSize = sweep.page * PageSize
  BY DEF UInv, TypeOK, Offset, ConstantsOK
<1>6. /\ sweep.total <= Cardinality(stored) /\ sweep.page <= Cardinality(stored)
      /\ Cardinality(stored) = sweep.total + Cardinality(late)
      /\ Cardinality(stored) \in Nat /\ Cardinality(late) \in Nat
      /\ Cardinality(stored) <= Cardinality(Users) /\ Cardinality(Users) \in Nat
  BY <1>3, <1>4, UsersCounted, FS_CardinalityType DEF UInv, CountIsOld, ConstantsOK
<1>7. /\ sweep'.total = sweep.total
      /\ \/ /\ HasNext(sweep.page, sweep.total)
            /\ sweep'.at = "count" /\ sweep'.page = sweep.page + 1
         \/ /\ ~HasNext(sweep.page, sweep.total)
            /\ sweep'.at = "end" /\ sweep'.page = sweep.page
      /\ sweep' = [at |-> sweep'.at, page |-> sweep'.page, total |-> sweep'.total]
  BY DEF SelectPage, UInv, TypeOK
<1>8. sweep'.page <= Cardinality(stored) /\ sweep'.page \in Nat /\ sweep'.page >= 1
  BY <1>5, <1>6, <1>7, NextPageIsPossible
<1>9. TypeOK'
  <2>1. sweep'.page \in 1 .. Cardinality(Users) /\ sweep'.total \in 0 .. Cardinality(Users)
    BY <1>5, <1>6, <1>7, <1>8
  <2>2. sweep' \in [at: {"none", "count", "select", "end"}, page: 1 .. Cardinality(Users),
                    total: 0 .. Cardinality(Users)]
    BY <1>7, <2>1
  <2> QED BY <1>2, <1>3, <1>4, <2>2 DEF UInv, TypeOK
<1>10. CreationsFormed' /\ Admin \in stored'
  BY <1>3, TableUntouched DEF table
<1>11. HistoryFormed' /\ CountIsOld'
  BY <1>2, <1>3, <1>4, <1>6, <1>7, <1>8 DEF UInv, HistoryFormed, CountIsOld
<1>12. /\ IsHead(head, Offset)
       /\ IsHead(head \cup page, Offset + PageSize)
  BY <1>2, <1>5, PageExtendsHead DEF UInv
<1>13. ASSUME NoTies
       PROVE  /\ (head \cup page) \cap start \subseteq returned'
              /\ repeated' \cup (returned' \ (head \cup page)) \subseteq repeated \cup (returned \ head)
              /\ Cardinality(repeated \cup (returned \ head)) <= Cardinality(joined)
  BY <1>2, <1>3, <1>12, <1>13 DEF UInv, HeadReturned, PushedBack
<1>14. ASSUME NoTies
       PROVE  \A H \in SUBSET Users : H \subseteq repeated' \cup (returned' \ (head \cup page))
                                        => Cardinality(H) <= Cardinality(joined')
  <2> DEFINE old == repeated \cup (returned \ head)
  <2>1. old \in SUBSET Users /\ joined \in SUBSET Users
    BY <1>4
  <2>2. Cardinality(old) \in Nat /\ Cardinality(joined) \in Nat
    BY <2>1, UsersCounted
  <2>3. \A H \in SUBSET old : Cardinality(H) \in Nat /\ Cardinality(H) <= Cardinality(old)
    BY <2>1, UsersCounted
  <2> QED BY <1>3, <1>13, <1>14, <2>2, <2>3
<1>15. ASSUME NoTies', sweep'.at = "count" PROVE HeadReturned' /\ PushedBack'
  <2>1. PICK n \in Nat : n = Offset + PageSize /\ n = Offset'
    <3>1. sweep'.page - 1 = sweep.page
      BY <1>5, <1>7, <1>15
    <3>2. Offset' = sweep.page * PageSize
      BY <3>1 DEF Offset
    <3> QED BY <1>5, <3>2
  <2>2. NoTies /\ \A H \in SUBSET stored : IsHead(H, n)' <=> IsHead(H, n)
    BY <1>3, <1>15, TableUntouched DEF table
  <2>3. \A H \in SUBSET stored : IsHead(H, n) => H = head \cup page
    <3>1. IsHead(head \cup page, n) /\ head \cup page \in SUBSET stored
      BY <1>12, <2>1
    <3> QED BY <2>2, <3>1, HeadsAgree DEF UInv
  <2>4. \A H \in SUBSET stored' : IsHead(H, Offset)' => H = head \cup page
    <3> SUFFICES ASSUME NEW H \in SUBSET stored', IsHead(H, Offset)'
                 PROVE  H = head \cup page
      OBVIOUS
    <3>1. IsHead(H, n)'
      BY <2>1 DEF IsHead
    <3> QED BY <1>3, <2>2, <2>3, <3>1
  <2>5. (head \cup page) \cap start \subseteq returned'
    BY <1>13, <2>2
  <2>6. Cardinality(repeated' \cup (returned' \ (head \cup page))) <= Cardinality(joined')
    BY <1>4, <1>2, <1>14, <2>2
  <2> QED BY <1>3, <2>4, <2>5, <2>6 DEF HeadReturned, PushedBack
<1>16. ASSUME NoTies', sweep'.at = "end" PROVE Cardinality(start' \ returned') <= Cardinality(late')
  <2> DEFINE next == head \cup page
  <2>1. NoTies
    BY <1>3, <1>16, TableUntouched DEF table
  <2>2. start \ returned' \subseteq stored \ next
    BY <1>4, <1>13, <2>1
  <2>3. IsFiniteSet(stored) /\ IsFiniteSet(stored \ next) /\ stored \cap next = next
    BY <1>4, UsersCounted
  <2> HIDE DEF next
  <2>4. Cardinality(stored \ next) = Cardinality(stored) - Cardinality(next)
    BY <2>3, FS_Difference
  <2>5. Cardinality(next) = IF Offset + PageSize < Cardinality(stored) THEN Offset + PageSize
                                                                       ELSE Cardinality(stored)
    BY <1>12 DEF IsHead, next
  <2>6. sweep.total <= Offset + PageSize
    BY <1>5, <1>7, <1>16, LastPageReachesTotal
  <2>7. Cardinality(stored \ next) <= Cardinality(late)
    BY <1>5, <1>6, <2>4, <2>5, <2>6
  <2>8. Cardinality(start \ returned') <= Cardinality(stored \ next)
    BY <2>2, <2>3, FS_Subset
  <2>9. Cardinality(start \ returned') \in Nat /\ Cardinality(stored \ next) \in Nat
    BY <2>2, <2>3, FS_Subset, FS_CardinalityType
  <2> QED BY <1>3, <1>6, <2>7, <2>8, <2>9
<1>17. ASSUME NoTies' PROVE Cardinality(repeated') <= Cardinality(joined')
  <2>1. NoTies
    BY <1>3, <1>17, TableUntouched DEF table
  <2> QED BY <1>2, <1>4, <1>14, <2>1
<1>18. UserSweepErrs'
  BY <1>9, <1>16, <1>17 DEF UserSweepErrs
<1>19. NoTies' => HeadReturned' /\ PushedBack'
  <2>1. CASE sweep'.at = "count"
    BY <1>15, <2>1
  <2>2. CASE sweep'.at = "end"
    BY <2>2 DEF HeadReturned, PushedBack
  <2> QED BY <1>7, <2>1, <2>2
<1> QED BY <1>9, <1>10, <1>11, <1>18, <1>19 DEF UInv

LEMMA StutterKeepsUInv ==
    ASSUME ConstantsOK, UInv, UNCHANGED vars
    PROVE  UInv'
<1>1. TypeOK' /\ CreationsFormed' /\ Admin \in stored'
  BY DEF UInv, TypeOK, CreationsFormed, vars, table, history
<1>2. UNCHANGED <<stored, created_at, sweep, history>>
  BY DEF vars, table
<1> QED BY <1>1, <1>2, SweepUntouched DEF UInv

LEMMA StepKeepsUInv == ConstantsOK /\ UInv /\ [Next]_vars => UInv'
<1> SUFFICES ASSUME ConstantsOK, UInv, [Next]_vars PROVE UInv'
  OBVIOUS
<1>1. CASE Tick
  BY <1>1, TickKeepsUInv
<1>2. ASSUME NEW s \in Sessions, NEW u \in Users, Begin(s, u) PROVE UInv'
  BY <1>2, BeginKeepsUInv
<1>3. ASSUME NEW s \in Sessions, Commit(s) PROVE UInv'
  BY <1>3, CommitKeepsUInv
<1>4. ASSUME NEW s \in Sessions, Abort(s) PROVE UInv'
  BY <1>4, AbortKeepsUInv
<1>5. CASE StartSweep
  BY <1>5, StartSweepKeepsUInv
<1>6. CASE Count
  BY <1>6, CountKeepsUInv
<1>7. CASE SelectPage
  BY <1>7, SelectPageKeepsUInv
<1>8. CASE UNCHANGED vars
  BY <1>8, StutterKeepsUInv
<1> QED BY <1>1, <1>2, <1>3, <1>4, <1>5, <1>6, <1>7, <1>8 DEF Next

(***************************************************************************)
(* What a sweep may miss and repeat                                        *)
(***************************************************************************)
\* UInv, the reason why UserSweepErrs holds, holds of every state.
THEOREM UInvAlways == ConstantsOK => (Spec => []UInv)
<1> SUFFICES ASSUME ConstantsOK PROVE Spec => []UInv
  OBVIOUS
<1>1. Init => UInv
  BY InitEstablishesUInv
<1>2. UInv /\ [Next]_vars => UInv'
  BY StepKeepsUInv
<1> QED BY <1>1, <1>2, PTL DEF Spec

\* However many users are created while a caller sweeps GET /admin/users, it
\* misses no more of those it should find than were created between the last
\* count and the rows of the last page, and gets no more of them twice than
\* were created since it began.
THEOREM SweepErrsBounded == ConstantsOK => (Spec => []UserSweepErrs)
<1> SUFFICES ASSUME ConstantsOK PROVE Spec => []UserSweepErrs
  OBVIOUS
<1>1. UInv => UserSweepErrs
  BY DEF UInv
<1> QED BY <1>1, UInvAlways, PTL
=============================================================================
