------------------------ MODULE OrderRepositoryProofs ------------------------
(***************************************************************************)
(* Machine-checked proofs about OrderRepository, for any number of orders, *)
(* sessions, columns, values, lines and payloads and any set of faults.    *)
(* One lemma per action shows that it preserves IInv; the theorems at the  *)
(* end read the properties off IInv.                                       *)
(***************************************************************************)
EXTENDS OrderRepository, TLAPS

(***************************************************************************)
(* Lemmas about the operators                                              *)
(***************************************************************************)
\* The header of a row is a row without items; no row has no header.
LEMMA HeaderOnlyFacts ==
    ASSUME NEW row \in Row \cup {None}
    PROVE  /\ HeaderOnly(row) \in Row \cup {None}
           /\ HeaderOnly(row) = None <=> row = None
           /\ row # None => HeaderOnly(row).header = row.header
BY NoneAssumption DEF HeaderOnly, Row

\* Moving a call to another step with another row read keeps it a call.
LEMMA CallUpdate ==
    ASSUME NEW f \in [Sessions -> Call], NEW s \in Sessions,
           NEW step \in Steps, NEW row \in Row \cup {None}
    PROVE  [f EXCEPT ![s].at = step, ![s].seen = row] \in [Sessions -> Call]
BY DEF Call

LEMMA CallUpdateItems ==
    ASSUME NEW f \in [Sessions -> Call], NEW s \in Sessions,
           NEW step \in Steps, NEW row \in Row, f[s].seen \in Row
    PROVE  [f EXCEPT ![s].at = step, ![s].seen.items = row.items]
             \in [Sessions -> Call]
<1>1. [f[s].seen EXCEPT !.items = row.items] \in Row
  BY DEF Row
<1> QED BY <1>1 DEF Call

\* The transaction of an upsert leaves a well-formed row.
LEMMA WrittenIsRow ==
    ASSUME IInv, NEW s \in Sessions, At(s, "commit")
    PROVE  Written(s) \in Row
<1> DEFINE c == call[s]
<1>1. c.order \in Orders /\ c.want \in Row
  BY DEF IInv, CallsFormed, At, WriteSteps
<1>2. CASE c.seen = None
  BY <1>1, <1>2 DEF Written
<1>3. CASE c.seen # None
  <2>1. db[c.order] \in Row /\ c.seen \in Row
    BY <1>1, <1>3 DEF IInv, TypeOK, RowsKnown, At, Call
  <2> QED
    BY <1>1, <1>3, <2>1 DEF Written, Row
<1> QED BY <1>2, <1>3

\* Under the lock the DELETE saw every item there is, so the row ends up
\* with exactly the items of the upsert.
LEMMA WrittenItems ==
    ASSUME IInv, NEW s \in Sessions, At(s, "commit")
    PROVE  Written(s).items = call[s].want.items
<1>1. CASE call[s].seen = None
  BY <1>1 DEF Written
<1>2. CASE call[s].seen # None
  <2>1. call[s].seen.items = db[call[s].order].items
    BY <1>2 DEF IInv, RowsKnown, At
  <2> QED BY <1>2, <2>1 DEF Written
<1> QED BY <1>1, <1>2

\* With nothing committed in between, the columns the UPDATE leaves out
\* already hold what the upsert wants.
LEMMA WrittenUndisturbed ==
    ASSUME IInv, NEW s \in Sessions \ overtaken, At(s, "commit")
    PROVE  Written(s) = call[s].want
<1> DEFINE c == call[s]
           stored == db[c.order]
<1>1. CASE c.seen = None
  BY <1>1 DEF Written
<1>2. CASE c.seen # None
  <2>1. c.want \in Row
    BY DEF IInv, CallsFormed, At, WriteSteps
  <2>2. c.seen.header = stored.header
    BY <1>2 DEF IInv, ReadsCurrent, At
  <2>3. Written(s).items = c.want.items
    BY WrittenItems
  <2>4. Written(s).header = c.want.header
    BY <1>2, <2>1, <2>2 DEF Written, Row
  <2>5. Written(s) = [header |-> Written(s).header, items |-> Written(s).items]
    BY <1>2 DEF Written
  <2> QED BY <2>1, <2>3, <2>4, <2>5 DEF Row
<1> QED BY <1>1, <1>2

(***************************************************************************)
(* Every action preserves IInv                                             *)
(***************************************************************************)
\* A caller enters find_by_client_and_number.
LEMMA StartFindKeepsIInv ==
    ASSUME IInv, NEW s \in Sessions, NEW o \in Orders, StartFind(s, o)
    PROVE  IInv'
<1> USE NoneAssumption DEF IInv, TypeOK, Call, StartFind, At
<1>1. TypeOK'
  BY DEF Steps, Resting, ReadSteps, WriteSteps, CallsFormed
<1>2. CallsFormed'
  BY DEF CallsFormed, WriteSteps
<1>3. LocksHeld'
  BY DEF LocksHeld, Resting
<1>4. RowsKnown'
  BY DEF RowsKnown, CallsFormed, LocksHeld
<1>5. ReadsCurrent'
  BY DEF ReadsCurrent, RowsKnown, CallsFormed, LocksHeld
<1>6. BrokenSessionsIdle'
  BY DEF BrokenSessionsIdle, Resting
<1>7. StaleEntryHasCause'
  BY DEF StaleEntryHasCause, Resting
<1> QED BY <1>1, <1>2, <1>3, <1>4, <1>5, <1>6, <1>7

\* A caller enters upsert.
LEMMA StartUpsertKeepsIInv ==
    ASSUME IInv, NEW s \in Sessions, NEW o \in Orders, NEW order \in Row,
           StartUpsert(s, o, order)
    PROVE  IInv'
<1> USE NoneAssumption DEF IInv, TypeOK, Call, StartUpsert, At
<1>1. TypeOK'
  BY DEF Steps, Resting, ReadSteps, WriteSteps, CallsFormed
<1>2. CallsFormed'
  BY DEF CallsFormed, WriteSteps
<1>3. LocksHeld'
  BY DEF LocksHeld, Resting
<1>4. RowsKnown'
  BY DEF RowsKnown, CallsFormed, LocksHeld
<1>5. ReadsCurrent'
  BY DEF ReadsCurrent, RowsKnown, CallsFormed, LocksHeld
<1>6. BrokenSessionsIdle'
  BY DEF BrokenSessionsIdle, Resting
<1>7. StaleEntryHasCause'
  BY DEF StaleEntryHasCause, Resting
<1> QED BY <1>1, <1>2, <1>3, <1>4, <1>5, <1>6, <1>7

\* A request ends and closes its session.
LEMMA EndRequestKeepsIInv ==
    ASSUME IInv, NEW s \in Sessions, EndRequest(s)
    PROVE  IInv'
<1> USE NoneAssumption DEF IInv, TypeOK, Call, EndRequest, At, NoCall
<1>1. TypeOK'
  BY DEF Steps, Resting, ReadSteps, WriteSteps, CallsFormed
<1>2. CallsFormed'
  BY DEF CallsFormed, WriteSteps
<1>3. LocksHeld'
  BY DEF LocksHeld, Resting
<1>4. RowsKnown'
  BY DEF RowsKnown, CallsFormed, LocksHeld
<1>5. ReadsCurrent'
  BY DEF ReadsCurrent, RowsKnown, CallsFormed, LocksHeld
<1>6. BrokenSessionsIdle'
  BY DEF BrokenSessionsIdle, Resting
<1>7. StaleEntryHasCause'
  BY DEF StaleEntryHasCause, Resting
<1> QED BY <1>1, <1>2, <1>3, <1>4, <1>5, <1>6, <1>7

\* A cache hit only reads.
LEMMA CacheHitKeepsIInv ==
    ASSUME IInv, NEW s \in Sessions, CacheHit(s)
    PROVE  IInv'
<1>c. call' \in [Sessions -> Call]
  <2>1. cache[call[s].order] \in Row \cup {None}
    BY DEF IInv, TypeOK, CallsFormed, CacheHit, At
  <2>2. "found" \in Steps
    BY DEF Steps, Resting
  <2> QED BY <2>1, <2>2, CallUpdate DEF IInv, TypeOK, CacheHit
<1> USE NoneAssumption DEF IInv, TypeOK, Call, CacheHit, At
<1>1. TypeOK'
  BY <1>c
<1>2. CallsFormed'
  BY DEF CallsFormed, WriteSteps
<1>3. LocksHeld'
  BY DEF LocksHeld, CallsFormed, WriteSteps
<1>4. RowsKnown'
  BY DEF RowsKnown, CallsFormed, LocksHeld
<1>5. ReadsCurrent'
  BY DEF ReadsCurrent, RowsKnown, CallsFormed, LocksHeld
<1>6. BrokenSessionsIdle'
  BY DEF BrokenSessionsIdle, Resting
<1>7. StaleEntryHasCause'
  BY DEF StaleEntryHasCause, ReadsCurrent, CallsFormed, WriteSteps
<1> QED BY <1>1, <1>2, <1>3, <1>4, <1>5, <1>6, <1>7

\* A cache miss only moves on.
LEMMA CacheMissKeepsIInv ==
    ASSUME IInv, NEW s \in Sessions, CacheMiss(s)
    PROVE  IInv'
<1> USE NoneAssumption DEF IInv, TypeOK, Call, CacheMiss, At, Go
<1>1. TypeOK'
  BY DEF Steps, Resting, ReadSteps, WriteSteps, CallsFormed
<1>2. CallsFormed'
  BY DEF CallsFormed, WriteSteps
<1>3. LocksHeld'
  BY DEF LocksHeld, CallsFormed, WriteSteps
<1>4. RowsKnown'
  BY DEF RowsKnown, CallsFormed, LocksHeld
<1>5. ReadsCurrent'
  BY DEF ReadsCurrent, RowsKnown, CallsFormed, LocksHeld
<1>6. BrokenSessionsIdle'
  BY DEF BrokenSessionsIdle, Resting
<1>7. StaleEntryHasCause'
  BY DEF StaleEntryHasCause, ReadsCurrent, CallsFormed, WriteSteps
<1> QED BY <1>1, <1>2, <1>3, <1>4, <1>5, <1>6, <1>7

\* The header read starts a window in which the read may be overtaken.
LEMMA ReadHeaderKeepsIInv ==
    ASSUME IInv, NEW s \in Sessions, ReadHeader(s)
    PROVE  IInv'
<1>a. call[s].order \in Orders /\ db[call[s].order] \in Row \cup {None}
  BY DEF IInv, TypeOK, CallsFormed, WriteSteps, ReadHeader, At
<1>b. HeaderOnly(db[call[s].order]) \in Row \cup {None}
  BY <1>a, HeaderOnlyFacts
<1>c. call' \in [Sessions -> Call]
  <2>1. (IF db[call[s].order] = None THEN "missing" ELSE "items") \in Steps
    BY DEF Steps, Resting, ReadSteps, WriteSteps
  <2> QED BY <1>b, <2>1, CallUpdate DEF IInv, TypeOK, ReadHeader
<1> USE NoneAssumption DEF IInv, TypeOK, Call, ReadHeader, At
<1>1. TypeOK'
  BY <1>c
<1>2. CallsFormed'
  BY <1>a, HeaderOnlyFacts DEF CallsFormed, WriteSteps
<1>3. LocksHeld'
  BY DEF LocksHeld, CallsFormed, WriteSteps
<1>4. RowsKnown'
  BY <1>a, HeaderOnlyFacts DEF RowsKnown, CallsFormed, LocksHeld
<1>5. ReadsCurrent'
  BY <1>a, HeaderOnlyFacts DEF ReadsCurrent, RowsKnown, CallsFormed, LocksHeld
<1>6. BrokenSessionsIdle'
  BY DEF BrokenSessionsIdle, Resting
<1>7. StaleEntryHasCause'
  BY DEF StaleEntryHasCause, ReadsCurrent, CallsFormed, WriteSteps
<1> QED BY <1>1, <1>2, <1>3, <1>4, <1>5, <1>6, <1>7

\* The items read completes a row; undisturbed, it is the stored one.
LEMMA ReadItemsKeepsIInv ==
    ASSUME IInv, NEW s \in Sessions, ReadItems(s)
    PROVE  IInv'
<1>a. /\ call[s].order \in Orders
      /\ call[s].seen \in Row
      /\ db[call[s].order] \in Row
  BY NoneAssumption DEF IInv, TypeOK, CallsFormed, RowsKnown, ReadItems, At
<1>c. call' \in [Sessions -> Call]
  <2>1. "fill" \in Steps
    BY DEF Steps, ReadSteps, WriteSteps
  <2> QED BY <1>a, <2>1, CallUpdateItems DEF IInv, TypeOK, ReadItems
<1> USE NoneAssumption DEF IInv, TypeOK, Call, ReadItems, At
<1>1. TypeOK'
  BY <1>c
<1>2. CallsFormed'
  BY <1>a DEF CallsFormed, WriteSteps, Row
<1>3. LocksHeld'
  BY DEF LocksHeld, CallsFormed, WriteSteps
<1>4. RowsKnown'
  BY DEF RowsKnown, CallsFormed, LocksHeld
<1>5. ReadsCurrent'
  BY <1>a DEF ReadsCurrent, RowsKnown, CallsFormed, LocksHeld, Row
<1>6. BrokenSessionsIdle'
  BY DEF BrokenSessionsIdle, Resting
<1>7. StaleEntryHasCause'
  BY DEF StaleEntryHasCause, ReadsCurrent, CallsFormed, WriteSteps
<1> QED BY <1>1, <1>2, <1>3, <1>4, <1>5, <1>6, <1>7

\* The fill makes an entry stale only when the read was overtaken.
LEMMA FillKeepsIInv ==
    ASSUME IInv, NEW s \in Sessions, Fill(s)
    PROVE  IInv'
<1> USE NoneAssumption DEF IInv, TypeOK, Call, Fill, At, Answer, Go
<1>1. TypeOK'
  BY DEF Steps, Resting, ReadSteps, WriteSteps, CallsFormed
<1>2. CallsFormed'
  BY DEF CallsFormed, WriteSteps
<1>3. LocksHeld'
  BY DEF LocksHeld, CallsFormed, WriteSteps
<1>4. RowsKnown'
  BY DEF RowsKnown, CallsFormed, LocksHeld
<1>5. ReadsCurrent'
  BY DEF ReadsCurrent, RowsKnown, CallsFormed, LocksHeld
<1>6. BrokenSessionsIdle'
  BY DEF BrokenSessionsIdle, Resting
<1>7. StaleEntryHasCause'
  <2>1. call[s].order \in Orders /\ call[s].seen \in Row
    BY DEF CallsFormed
  <2>2. \A t \in Sessions : call'[t].at = "evict" =>
          call[t].at = "evict" /\ call'[t].order = call[t].order
    OBVIOUS
  <2>3. \A t \in Sessions : call[t].at = "evict" =>
          call'[t].at = "evict" /\ call'[t].order = call[t].order
    OBVIOUS
  <2>4. ASSUME NEW o \in Orders, cache'[o] \notin {None, db'[o]}
        PROVE  \/ o \in tainted'
               \/ \E t \in Sessions : call'[t].at = "evict" /\ call'[t].order = o
    <3>1. CASE o = call[s].order
      <4>1. cache'[o] = call[s].seen
        BY <2>1, <3>1
      <4>2. s \in overtaken
        BY <2>4, <3>1, <4>1 DEF ReadsCurrent
      <4> QED BY <3>1, <4>2
    <3>2. CASE o # call[s].order
      <4>1. cache'[o] = cache[o] /\ db'[o] = db[o]
        BY <2>1, <3>2
      <4>2. o \in tainted => o \in tainted'
        BY <3>2
      <4>3. \/ o \in tainted
            \/ \E t \in Sessions : call[t].at = "evict" /\ call[t].order = o
        BY <2>4, <4>1 DEF StaleEntryHasCause
      <4> QED BY <2>3, <4>2, <4>3
    <3> QED BY <3>1, <3>2
  <2> QED BY <2>4 DEF StaleEntryHasCause
<1> QED BY <1>1, <1>2, <1>3, <1>4, <1>5, <1>6, <1>7

\* upsert's own SELECT.
LEMMA SelectRowKeepsIInv ==
    ASSUME IInv, NEW s \in Sessions, SelectRow(s)
    PROVE  IInv'
<1>a. call[s].order \in Orders /\ db[call[s].order] \in Row \cup {None}
  BY DEF IInv, TypeOK, CallsFormed, WriteSteps, SelectRow, At
<1>b. HeaderOnly(db[call[s].order]) \in Row \cup {None}
  BY <1>a, HeaderOnlyFacts
<1>c. call' \in [Sessions -> Call]
  <2>1. ("flush") \in Steps
    BY DEF Steps, Resting, ReadSteps, WriteSteps
  <2> QED BY <1>b, <2>1, CallUpdate DEF IInv, TypeOK, SelectRow
<1> USE NoneAssumption DEF IInv, TypeOK, Call, SelectRow, At
<1>1. TypeOK'
  BY <1>c
<1>2. CallsFormed'
  BY <1>a, HeaderOnlyFacts DEF CallsFormed, WriteSteps
<1>3. LocksHeld'
  BY DEF LocksHeld, CallsFormed, WriteSteps
<1>4. RowsKnown'
  BY <1>a, HeaderOnlyFacts DEF RowsKnown, CallsFormed, LocksHeld
<1>5. ReadsCurrent'
  BY <1>a, HeaderOnlyFacts DEF ReadsCurrent, RowsKnown, CallsFormed, LocksHeld
<1>6. BrokenSessionsIdle'
  BY DEF BrokenSessionsIdle, Resting
<1>7. StaleEntryHasCause'
  BY DEF StaleEntryHasCause, ReadsCurrent, CallsFormed, WriteSteps
<1> QED BY <1>1, <1>2, <1>3, <1>4, <1>5, <1>6, <1>7

\* The UPDATE takes the row lock.
LEMMA UpdateHeaderKeepsIInv ==
    ASSUME IInv, NEW s \in Sessions, UpdateHeader(s)
    PROVE  IInv'
<1> USE NoneAssumption DEF IInv, TypeOK, Call, UpdateHeader, At, Acquire, Go
<1>1. TypeOK'
  BY DEF Steps, Resting, ReadSteps, WriteSteps, CallsFormed
<1>2. CallsFormed'
  BY DEF CallsFormed, WriteSteps
<1>3. LocksHeld'
  BY DEF LocksHeld, CallsFormed, WriteSteps
<1>4. RowsKnown'
  BY DEF RowsKnown, CallsFormed, LocksHeld
<1>5. ReadsCurrent'
  BY DEF ReadsCurrent, RowsKnown, CallsFormed, LocksHeld
<1>6. BrokenSessionsIdle'
  BY DEF BrokenSessionsIdle, Resting
<1>7. StaleEntryHasCause'
  BY DEF StaleEntryHasCause, ReadsCurrent, CallsFormed, WriteSteps
<1> QED BY <1>1, <1>2, <1>3, <1>4, <1>5, <1>6, <1>7

\* The INSERT takes the unique index entry of a missing order.
LEMMA InsertHeaderKeepsIInv ==
    ASSUME IInv, NEW s \in Sessions, InsertHeader(s)
    PROVE  IInv'
<1> USE NoneAssumption DEF IInv, TypeOK, Call, InsertHeader, At, Acquire, Go
<1>1. TypeOK'
  BY DEF Steps, Resting, ReadSteps, WriteSteps, CallsFormed
<1>2. CallsFormed'
  BY DEF CallsFormed, WriteSteps
<1>3. LocksHeld'
  BY DEF LocksHeld, CallsFormed, WriteSteps
<1>4. RowsKnown'
  BY DEF RowsKnown, CallsFormed, LocksHeld
<1>5. ReadsCurrent'
  BY DEF ReadsCurrent, RowsKnown, CallsFormed, LocksHeld
<1>6. BrokenSessionsIdle'
  BY DEF BrokenSessionsIdle, Resting
<1>7. StaleEntryHasCause'
  BY DEF StaleEntryHasCause, ReadsCurrent, CallsFormed, WriteSteps
<1> QED BY <1>1, <1>2, <1>3, <1>4, <1>5, <1>6, <1>7

\* The INSERT meets a committed row and breaks the session.
LEMMA DuplicateOrderKeepsIInv ==
    ASSUME IInv, NEW s \in Sessions, DuplicateOrder(s)
    PROVE  IInv'
<1> USE NoneAssumption DEF IInv, TypeOK, Call, DuplicateOrder, At, Go
<1>1. TypeOK'
  BY DEF Steps, Resting, ReadSteps, WriteSteps, CallsFormed
<1>2. CallsFormed'
  BY DEF CallsFormed, WriteSteps
<1>3. LocksHeld'
  BY DEF LocksHeld, CallsFormed, WriteSteps
<1>4. RowsKnown'
  BY DEF RowsKnown, CallsFormed, LocksHeld
<1>5. ReadsCurrent'
  BY DEF ReadsCurrent, RowsKnown, CallsFormed, LocksHeld
<1>6. BrokenSessionsIdle'
  BY DEF BrokenSessionsIdle, Resting
<1>7. StaleEntryHasCause'
  BY DEF StaleEntryHasCause, ReadsCurrent, CallsFormed, WriteSteps
<1> QED BY <1>1, <1>2, <1>3, <1>4, <1>5, <1>6, <1>7

\* The DELETE sees the items stored under its own lock.
LEMMA DeleteItemsKeepsIInv ==
    ASSUME IInv, NEW s \in Sessions, DeleteItems(s)
    PROVE  IInv'
<1>a. /\ call[s].order \in Orders
      /\ call[s].seen \in Row
      /\ db[call[s].order] \in Row
  BY NoneAssumption DEF IInv, TypeOK, CallsFormed, RowsKnown, DeleteItems, At
<1>c. call' \in [Sessions -> Call]
  <2>1. "commit" \in Steps
    BY DEF Steps, ReadSteps, WriteSteps
  <2> QED BY <1>a, <2>1, CallUpdateItems DEF IInv, TypeOK, DeleteItems
<1> USE NoneAssumption DEF IInv, TypeOK, Call, DeleteItems, At
<1>1. TypeOK'
  BY <1>c
<1>2. CallsFormed'
  BY <1>a DEF CallsFormed, WriteSteps, Row
<1>3. LocksHeld'
  BY DEF LocksHeld, CallsFormed, WriteSteps
<1>4. RowsKnown'
  BY DEF RowsKnown, CallsFormed, LocksHeld
<1>5. ReadsCurrent'
  BY <1>a DEF ReadsCurrent, RowsKnown, CallsFormed, LocksHeld, Row
<1>6. BrokenSessionsIdle'
  BY DEF BrokenSessionsIdle, Resting
<1>7. StaleEntryHasCause'
  BY DEF StaleEntryHasCause, ReadsCurrent, CallsFormed, WriteSteps
<1> QED BY <1>1, <1>2, <1>3, <1>4, <1>5, <1>6, <1>7

\* The commit rewrites the row and overtakes the readers; it owes an eviction.
LEMMA CommitKeepsIInv ==
    ASSUME IInv, NEW s \in Sessions, Commit(s)
    PROVE  IInv'
<1> USE NoneAssumption DEF IInv, TypeOK, Call, Commit, At, Go, Release
<1>a. call[s].order \in Orders BY DEF CallsFormed
<1>b. Written(s) \in Row BY WrittenIsRow DEF IInv
<1>1. TypeOK'
  BY <1>a, <1>b DEF Steps, Resting, ReadSteps, WriteSteps, CallsFormed, Readers
<1>2. CallsFormed'
  BY DEF CallsFormed, WriteSteps
<1>3. LocksHeld'
  BY DEF LocksHeld, CallsFormed, WriteSteps
<1>4. RowsKnown'
  BY <1>a, <1>b DEF RowsKnown, CallsFormed, LocksHeld
<1>5. ReadsCurrent'
  BY <1>a DEF ReadsCurrent, RowsKnown, CallsFormed, LocksHeld, Readers
<1>6. BrokenSessionsIdle'
  BY DEF BrokenSessionsIdle, Resting
<1>7. StaleEntryHasCause'
  BY DEF StaleEntryHasCause, ReadsCurrent, CallsFormed, WriteSteps
<1> QED BY <1>1, <1>2, <1>3, <1>4, <1>5, <1>6, <1>7

\* A repeated line aborts the transaction.
LEMMA DuplicateLineKeepsIInv ==
    ASSUME IInv, NEW s \in Sessions, DuplicateLine(s)
    PROVE  IInv'
<1> USE NoneAssumption DEF IInv, TypeOK, Call, DuplicateLine, At, Go, Release
<1>1. TypeOK'
  BY DEF Steps, Resting, ReadSteps, WriteSteps, CallsFormed
<1>2. CallsFormed'
  BY DEF CallsFormed, WriteSteps
<1>3. LocksHeld'
  BY DEF LocksHeld, CallsFormed, WriteSteps
<1>4. RowsKnown'
  BY DEF RowsKnown, CallsFormed, LocksHeld
<1>5. ReadsCurrent'
  BY DEF ReadsCurrent, RowsKnown, CallsFormed, LocksHeld
<1>6. BrokenSessionsIdle'
  BY DEF BrokenSessionsIdle, Resting
<1>7. StaleEntryHasCause'
  BY DEF StaleEntryHasCause, ReadsCurrent, CallsFormed, WriteSteps
<1> QED BY <1>1, <1>2, <1>3, <1>4, <1>5, <1>6, <1>7

\* The eviction settles what the commit owed.
LEMMA EvictKeepsIInv ==
    ASSUME IInv, NEW s \in Sessions, Evict(s)
    PROVE  IInv'
<1> USE NoneAssumption DEF IInv, TypeOK, Call, Evict, At, Answer, Go
<1>1. TypeOK'
  BY DEF Steps, Resting, ReadSteps, WriteSteps, CallsFormed
<1>2. CallsFormed'
  BY DEF CallsFormed, WriteSteps
<1>3. LocksHeld'
  BY DEF LocksHeld, CallsFormed, WriteSteps
<1>4. RowsKnown'
  BY DEF RowsKnown, CallsFormed, LocksHeld
<1>5. ReadsCurrent'
  BY DEF ReadsCurrent, RowsKnown, CallsFormed, LocksHeld
<1>6. BrokenSessionsIdle'
  BY DEF BrokenSessionsIdle, Resting
<1>7. StaleEntryHasCause'
  BY DEF StaleEntryHasCause, ReadsCurrent, CallsFormed, WriteSteps
<1> QED BY <1>1, <1>2, <1>3, <1>4, <1>5, <1>6, <1>7

\* A broken session fails its next statement.
LEMMA SessionRefusesKeepsIInv ==
    ASSUME IInv, NEW s \in Sessions, SessionRefuses(s)
    PROVE  IInv'
<1> USE NoneAssumption DEF IInv, TypeOK, Call, SessionRefuses, At, Go
<1>1. TypeOK'
  BY DEF Steps, Resting, ReadSteps, WriteSteps, CallsFormed
<1>2. CallsFormed'
  BY DEF CallsFormed, WriteSteps
<1>3. LocksHeld'
  BY DEF LocksHeld, CallsFormed, WriteSteps
<1>4. RowsKnown'
  BY DEF RowsKnown, CallsFormed, LocksHeld
<1>5. ReadsCurrent'
  BY DEF ReadsCurrent, RowsKnown, CallsFormed, LocksHeld
<1>6. BrokenSessionsIdle'
  BY DEF BrokenSessionsIdle, Resting
<1>7. StaleEntryHasCause'
  BY DEF StaleEntryHasCause, ReadsCurrent, CallsFormed, WriteSteps
<1> QED BY <1>1, <1>2, <1>3, <1>4, <1>5, <1>6, <1>7

\* A failing statement rolls back and releases the lock.
LEMMA DatabaseFailsKeepsIInv ==
    ASSUME IInv, NEW s \in Sessions, DatabaseFails(s)
    PROVE  IInv'
<1> USE NoneAssumption DEF IInv, TypeOK, Call, DatabaseFails, At, Go, Release
<1>1. TypeOK'
  BY DEF Steps, Resting, ReadSteps, WriteSteps, CallsFormed
<1>2. CallsFormed'
  BY DEF CallsFormed, WriteSteps
<1>3. LocksHeld'
  BY DEF LocksHeld, CallsFormed, WriteSteps
<1>4. RowsKnown'
  BY DEF RowsKnown, CallsFormed, LocksHeld
<1>5. ReadsCurrent'
  BY DEF ReadsCurrent, RowsKnown, CallsFormed, LocksHeld
<1>6. BrokenSessionsIdle'
  BY DEF BrokenSessionsIdle, Resting
<1>7. StaleEntryHasCause'
  BY DEF StaleEntryHasCause, ReadsCurrent, CallsFormed, WriteSteps
<1> QED BY <1>1, <1>2, <1>3, <1>4, <1>5, <1>6, <1>7

\* A lost eviction is recorded in tainted.
LEMMA RedisFailsKeepsIInv ==
    ASSUME IInv, NEW s \in Sessions, RedisFails(s)
    PROVE  IInv'
<1> USE NoneAssumption DEF IInv, TypeOK, Call, RedisFails, At, Go
<1>1. TypeOK'
  BY DEF Steps, Resting, ReadSteps, WriteSteps, CallsFormed
<1>2. CallsFormed'
  BY DEF CallsFormed, WriteSteps
<1>3. LocksHeld'
  BY DEF LocksHeld, CallsFormed, WriteSteps
<1>4. RowsKnown'
  BY DEF RowsKnown, CallsFormed, LocksHeld
<1>5. ReadsCurrent'
  BY DEF ReadsCurrent, RowsKnown, CallsFormed, LocksHeld
<1>6. BrokenSessionsIdle'
  BY DEF BrokenSessionsIdle, Resting
<1>7. StaleEntryHasCause'
  BY DEF StaleEntryHasCause, ReadsCurrent, CallsFormed, WriteSteps
<1> QED BY <1>1, <1>2, <1>3, <1>4, <1>5, <1>6, <1>7

\* A crash frees the locks of the dead and taints what they owed.
LEMMA CrashKeepsIInv ==
    ASSUME IInv, NEW S \in SUBSET Sessions, Crash(S)
    PROVE  IInv'
<1> USE NoneAssumption DEF IInv, TypeOK, Call, Crash, At, NoCall
<1>1. TypeOK'
  BY DEF Steps, Resting, ReadSteps, WriteSteps, CallsFormed
<1>2. CallsFormed'
  BY DEF CallsFormed, WriteSteps
<1>3. LocksHeld'
  BY DEF LocksHeld, CallsFormed, WriteSteps
<1>4. RowsKnown'
  BY DEF RowsKnown, CallsFormed, LocksHeld
<1>5. ReadsCurrent'
  BY DEF ReadsCurrent, RowsKnown, CallsFormed, LocksHeld
<1>6. BrokenSessionsIdle'
  BY DEF BrokenSessionsIdle, Resting
<1>7. StaleEntryHasCause'
  BY DEF StaleEntryHasCause, ReadsCurrent, CallsFormed, WriteSteps
<1> QED BY <1>1, <1>2, <1>3, <1>4, <1>5, <1>6, <1>7

\* An entry that is gone is not stale.
LEMMA DropKeepsIInv ==
    ASSUME IInv, NEW O \in SUBSET Orders, Drop(O)
    PROVE  IInv'
<1> USE NoneAssumption DEF IInv, TypeOK, Call, Drop, At
<1>1. TypeOK'
  BY DEF Steps, Resting, ReadSteps, WriteSteps, CallsFormed
<1>2. CallsFormed'
  BY DEF CallsFormed, WriteSteps
<1>3. LocksHeld'
  BY DEF LocksHeld, CallsFormed, WriteSteps
<1>4. RowsKnown'
  BY DEF RowsKnown, CallsFormed, LocksHeld
<1>5. ReadsCurrent'
  BY DEF ReadsCurrent, RowsKnown, CallsFormed, LocksHeld
<1>6. BrokenSessionsIdle'
  BY DEF BrokenSessionsIdle, Resting
<1>7. StaleEntryHasCause'
  BY DEF StaleEntryHasCause, ReadsCurrent, CallsFormed, WriteSteps
<1> QED BY <1>1, <1>2, <1>3, <1>4, <1>5, <1>6, <1>7

(***************************************************************************)
(* The inductive invariant                                                 *)
(***************************************************************************)
LEMMA InitEstablishesIInv == Init => IInv
<1> SUFFICES ASSUME Init PROVE IInv OBVIOUS
<1> USE NoneAssumption DEF Init, NoCall, At
<1>1. TypeOK
  BY DEF TypeOK, Call, Steps, Resting
<1>2. CallsFormed /\ LocksHeld /\ RowsKnown
  BY DEF CallsFormed, LocksHeld, RowsKnown, WriteSteps
<1>3. ReadsCurrent /\ BrokenSessionsIdle /\ StaleEntryHasCause
  BY DEF ReadsCurrent, BrokenSessionsIdle, StaleEntryHasCause
<1> QED BY <1>1, <1>2, <1>3 DEF IInv

LEMMA StutterKeepsIInv == IInv /\ UNCHANGED vars => IInv'
BY DEF IInv, TypeOK, CallsFormed, LocksHeld, RowsKnown, ReadsCurrent,
       BrokenSessionsIdle, StaleEntryHasCause, vars, At

LEMMA NextKeepsIInv == IInv /\ [Next]_vars => IInv'
<1> SUFFICES ASSUME IInv, [Next]_vars PROVE IInv' OBVIOUS
<1>1. ASSUME NEW s \in Sessions, RepositoryStep(s) PROVE IInv'
  <2>1. CASE FindStep(s)
    BY <2>1, CacheHitKeepsIInv, CacheMissKeepsIInv, ReadHeaderKeepsIInv,
       ReadItemsKeepsIInv, FillKeepsIInv DEF FindStep
  <2>2. CASE LockStep(s)
    BY <2>2, UpdateHeaderKeepsIInv, InsertHeaderKeepsIInv,
       DuplicateOrderKeepsIInv DEF LockStep
  <2>3. CASE UpsertStep(s)
    BY <2>3, SelectRowKeepsIInv, DeleteItemsKeepsIInv, CommitKeepsIInv,
       DuplicateLineKeepsIInv, EvictKeepsIInv DEF UpsertStep
  <2>4. CASE SessionRefuses(s) \/ FailStep(s)
    BY <2>4, SessionRefusesKeepsIInv, DatabaseFailsKeepsIInv,
       RedisFailsKeepsIInv DEF FailStep
  <2> QED BY <1>1, <2>1, <2>2, <2>3, <2>4 DEF RepositoryStep
<1>2. ASSUME NEW s \in Sessions, CallerStep(s) PROVE IInv'
  BY <1>2, PayloadsAssumption, StartFindKeepsIInv, StartUpsertKeepsIInv,
     EndRequestKeepsIInv
  DEF CallerStep
<1>3. ASSUME NEW S \in SUBSET Sessions, Crash(S) PROVE IInv'
  BY <1>3, CrashKeepsIInv
<1>4. ASSUME NEW O \in SUBSET Orders, Drop(O) PROVE IInv'
  BY <1>4, DropKeepsIInv
<1>5. CASE UNCHANGED vars
  BY <1>5, StutterKeepsIInv
<1> QED BY <1>1, <1>2, <1>3, <1>4, <1>5 DEF Next

\* IInv holds in every reachable state.
THEOREM IInvAlways == Spec => []IInv
<1> QED BY InitEstablishesIInv, NextKeepsIInv, PTL DEF Spec

(***************************************************************************)
(* The properties                                                          *)
(***************************************************************************)
\* The variables keep their types.
THEOREM TypeCorrect == Spec => []TypeOK
<1>1. IInv => TypeOK BY DEF IInv
<1> QED BY <1>1, IInvAlways, PTL

\* A stale cache entry comes from an overtaken read, or from an eviction
\* that was lost or is still to come, and from nothing else.
THEOREM StaleEntriesExplained == Spec => []StaleEntryHasCause
<1>1. IInv => StaleEntryHasCause BY DEF IInv
<1> QED BY <1>1, IInvAlways, PTL

\* A read of header and items that no commit overtook is the stored order.
THEOREM ReadsAreCurrent == Spec => []UndisturbedReadIsCurrent
<1>1. IInv => UndisturbedReadIsCurrent
  BY DEF IInv, ReadsCurrent, UndisturbedReadIsCurrent, At
<1> QED BY <1>1, IInvAlways, PTL

\* Only the COMMIT of an upsert changes what is stored.
LEMMA OnlyCommitWrites ==
    ASSUME [Next]_vars, db' # db
    PROVE  \E s \in Sessions : Commit(s)
<1>1. ASSUME NEW s \in Sessions, RepositoryStep(s) PROVE Commit(s)
  BY <1>1 DEF RepositoryStep, FindStep, LockStep, UpsertStep, FailStep, CacheHit,
     CacheMiss, ReadHeader, ReadItems, Fill, SelectRow, UpdateHeader, InsertHeader,
     DuplicateOrder, DeleteItems, DuplicateLine, Evict, SessionRefuses,
     DatabaseFails, RedisFails
<1>2. ASSUME NEW s \in Sessions, CallerStep(s) PROVE FALSE
  BY <1>2 DEF CallerStep, StartFind, StartUpsert, EndRequest
<1>3. ASSUME NEW S \in SUBSET Sessions, Crash(S) PROVE FALSE
  BY <1>3 DEF Crash
<1>4. ASSUME NEW O \in SUBSET Orders, Drop(O) PROVE FALSE
  BY <1>4 DEF Drop
<1> QED BY <1>1, <1>2, <1>3, <1>4 DEF Next, vars

\* Whatever the interleaving, a commit leaves the order with exactly the
\* items of the upsert that committed, which held its lock.
THEOREM ItemsAreReplacedWhole == Spec => ItemsReplacedWhole
<1> DEFINE P == \A o \in Orders : db'[o] # db[o] =>
                  \E s \in Sessions :
                     /\ writer[o] = s
                     /\ call[s].order = o
                     /\ db'[o].items = call[s].want.items
<1>1. IInv /\ [Next]_vars => [P]_vars
  <2> SUFFICES ASSUME IInv, [Next]_vars, NEW o \in Orders, db'[o] # db[o]
               PROVE  \E s \in Sessions :
                         /\ writer[o] = s
                         /\ call[s].order = o
                         /\ db'[o].items = call[s].want.items
    OBVIOUS
  <2>1. PICK s \in Sessions : Commit(s)
    BY OnlyCommitWrites
  <2>2. call[s].order = o
    BY <2>1 DEF Commit, IInv, TypeOK
  <2>3. writer[o] = s
    BY <2>1, <2>2 DEF Commit, IInv, LocksHeld
  <2>4. db'[o] = Written(s)
    BY <2>1, <2>2 DEF Commit, IInv, TypeOK
  <2>5. Written(s).items = call[s].want.items
    BY <2>1, WrittenItems DEF Commit
  <2> QED BY <2>2, <2>3, <2>4, <2>5
<1> QED BY <1>1, IInvAlways, PTL DEF Spec, ItemsReplacedWhole

\* An upsert that no commit overtook stores exactly the order it was given.
THEOREM UndisturbedCommitsAreExact == Spec => UndisturbedCommitStoresOrder
<1> DEFINE P == \A s \in Sessions :
                  Commit(s) /\ s \notin overtaken =>
                     db'[call[s].order] = call[s].want
<1>1. IInv /\ [Next]_vars => [P]_vars
  <2> SUFFICES ASSUME IInv, NEW s \in Sessions, Commit(s), s \notin overtaken
               PROVE  db'[call[s].order] = call[s].want
    OBVIOUS
  <2>1. call[s].order \in Orders
    BY DEF IInv, CallsFormed, Commit, At
  <2>2. db'[call[s].order] = Written(s)
    BY <2>1 DEF Commit, IInv, TypeOK
  <2> QED BY <2>2, WrittenUndisturbed DEF Commit
<1> QED BY <1>1, IInvAlways, PTL DEF Spec, UndisturbedCommitStoresOrder

\* A first ingestion never overwrites an order that another one created.
THEOREM InsertsNeverOverwrite == Spec => InsertNeverOverwrites
<1> DEFINE P == \A s \in Sessions :
                  /\ At(s, "commit") /\ call[s].seen = None
                  /\ db'[call[s].order] # db[call[s].order]
                  => db[call[s].order] = None
<1>1. IInv /\ [Next]_vars => [P]_vars
  BY DEF IInv, RowsKnown, At
<1> QED BY <1>1, IInvAlways, PTL DEF Spec, InsertNeverOverwrites
=============================================================================
