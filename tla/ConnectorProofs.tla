--------------------------- MODULE ConnectorProofs ---------------------------
(***************************************************************************)
(* Machine-checked proofs about Connector, for any orders, sessions,       *)
(* payloads, invoices and faults: the services drive the repository only   *)
(* through its operations, what they report as stored is stored, and       *)
(* orphans neither create an order nor lose the lines of one.              *)
(***************************************************************************)
EXTENDS Connector, OrderRepositoryProofs, WellFoundedInduction

\* The steps of a repository whose callers may upsert any row.
RepositoryNext ==
    \/ \E s \in Sessions :
          \/ RepositoryStep(s)
          \/ \E o \in Orders : StartFind(s, o)
          \/ \E o \in Orders, row \in Row : StartUpsert(s, o, row)
          \/ EndRequest(s)
    \/ \E S \in SUBSET Sessions : Crash(S)
    \/ \E O \in SUBSET Orders : Drop(O)

(***************************************************************************)
(* The repository inside the system is OrderRepository                     *)
(***************************************************************************)
LEMMA FindStepIsRepo ==
    ASSUME NEW s \in Sessions, FindStep(s)
    PROVE  Repo!FindStep(s)
BY DEF FindStep, CacheHit, CacheMiss, ReadHeader, ReadItems, Fill, Answer, Go, At, HeaderOnly,
       Repo!FindStep, Repo!CacheHit, Repo!CacheMiss, Repo!ReadHeader, Repo!ReadItems,
       Repo!Fill, Repo!Answer, Repo!Go, Repo!At, Repo!HeaderOnly

LEMMA LockStepIsRepo ==
    ASSUME NEW s \in Sessions, LockStep(s)
    PROVE  Repo!LockStep(s)
BY DEF LockStep, UpdateHeader, InsertHeader, DuplicateOrder, Acquire, Go, At,
       Repo!LockStep, Repo!UpdateHeader, Repo!InsertHeader, Repo!DuplicateOrder,
       Repo!Acquire, Repo!Go, Repo!At

LEMMA WrittenIsRepo ==
    ASSUME NEW s \in Sessions
    PROVE  /\ Repo!Written(s) = Written(s)
           /\ Repo!LinesDistinct(Written(s).items) = LinesDistinct(Written(s).items)
           /\ Repo!Readers(call[s].order) = Readers(call[s].order)
BY DEF Written, LinesDistinct, Readers, Repo!Written, Repo!LinesDistinct, Repo!Readers

LEMMA UpsertStepIsRepo ==
    ASSUME NEW s \in Sessions, UpsertStep(s)
    PROVE  Repo!UpsertStep(s)
<1>1. CASE SelectRow(s)
  BY <1>1 DEF SelectRow, Go, At, HeaderOnly,
     Repo!UpsertStep, Repo!SelectRow, Repo!Go, Repo!At, Repo!HeaderOnly
<1>2. CASE DeleteItems(s)
  BY <1>2 DEF DeleteItems, Go, At, Repo!UpsertStep, Repo!DeleteItems, Repo!Go, Repo!At
<1>3. CASE Commit(s)
  BY <1>3, WrittenIsRepo DEF Commit, Go, At, Release,
     Repo!UpsertStep, Repo!Commit, Repo!Go, Repo!At, Repo!Release
<1>4. CASE DuplicateLine(s)
  BY <1>4, WrittenIsRepo DEF DuplicateLine, Go, At, Release,
     Repo!UpsertStep, Repo!DuplicateLine, Repo!Go, Repo!At, Repo!Release
<1>5. CASE Evict(s)
  BY <1>5 DEF Evict, Go, At, Answer,
     Repo!UpsertStep, Repo!Evict, Repo!Go, Repo!At, Repo!Answer
<1> QED BY <1>1, <1>2, <1>3, <1>4, <1>5 DEF UpsertStep

LEMMA FailureIsRepo ==
    ASSUME NEW s \in Sessions, SessionRefuses(s) \/ FailStep(s)
    PROVE  Repo!SessionRefuses(s) \/ Repo!FailStep(s)
BY DEF SessionRefuses, FailStep, DatabaseFails, RedisFails, Release, Go, At,
       Repo!SessionRefuses, Repo!FailStep, Repo!DatabaseFails, Repo!RedisFails,
       Repo!Release, Repo!Go, Repo!At

LEMMA RepositoryNextIsRepo == RepositoryNext => Repo!Next
<1> SUFFICES ASSUME RepositoryNext PROVE Repo!Next OBVIOUS
<1>1. ASSUME NEW s \in Sessions, RepositoryStep(s) PROVE Repo!Next
  BY <1>1, FindStepIsRepo, LockStepIsRepo, UpsertStepIsRepo, FailureIsRepo
  DEF RepositoryStep, Repo!Next, Repo!RepositoryStep
<1>2. ASSUME NEW s \in Sessions, NEW o \in Orders, StartFind(s, o) PROVE Repo!Next
  <2>1. Repo!StartFind(s, o)
    BY <1>2 DEF StartFind, Repo!StartFind, Resting, Repo!Resting
  <2> QED BY <2>1 DEF Repo!Next, Repo!CallerStep
<1>3. ASSUME NEW s \in Sessions, NEW o \in Orders, NEW row \in Row, StartUpsert(s, o, row)
      PROVE  Repo!Next
  <2>1. Repo!StartUpsert(s, o, row)
    BY <1>3 DEF StartUpsert, Repo!StartUpsert, Resting, Repo!Resting
  <2> QED BY <2>1 DEF Repo!Next, Repo!CallerStep
<1>4. ASSUME NEW s \in Sessions, EndRequest(s) PROVE Repo!Next
  <2>1. Repo!EndRequest(s)
    BY <1>4 DEF EndRequest, Repo!EndRequest, Resting, Repo!Resting, NoCall, Repo!NoCall
  <2> QED BY <2>1 DEF Repo!Next, Repo!CallerStep
<1>5. ASSUME NEW S \in SUBSET Sessions, Crash(S) PROVE Repo!Next
  <2>1. Repo!Crash(S)
    BY <1>5 DEF Crash, Repo!Crash, At, Repo!At, NoCall, Repo!NoCall
  <2> QED BY <2>1 DEF Repo!Next
<1>6. ASSUME NEW O \in SUBSET Orders, Drop(O) PROVE Repo!Next
  <2>1. Repo!Drop(O)
    BY <1>6 DEF Drop, Repo!Drop
  <2> QED BY <2>1 DEF Repo!Next
<1> QED BY <1>1, <1>2, <1>3, <1>4, <1>5, <1>6 DEF RepositoryNext

(***************************************************************************)
(* Lemmas about the operators                                              *)
(***************************************************************************)
\* While tasks remain, the next one is an order key with a row or orphans.
LEMMA TaskTyped ==
    ASSUME ServicesTypeOK, NEW s \in Sessions, JobFormed(s),
           job[s].stage # "none", Done(s) < Len(job[s].batch)
    PROVE  /\ TaskOf(s) \in Task
           /\ Done(s) \in Nat
           /\ Done(s) + 1 \in DOMAIN job[s].batch
<1>1. job[s].report \in Seq(Outcomes)
  BY DEF ServicesTypeOK, Job
<1>2. job[s].batch \in Seq(Task)
  BY BatchesAssumption DEF JobFormed
<1>3. Done(s) \in Nat /\ Done(s) + 1 \in 1 .. Len(job[s].batch)
  BY <1>1, <1>2 DEF Done
<1> QED BY <1>2, <1>3 DEF TaskOf

\* Merging orphans into a row gives a row with its header.
LEMMA MergedIsRow ==
    ASSUME NEW row \in Row, NEW orphans \in Seq(Item)
    PROVE  /\ Merged(row, orphans) \in Row
           /\ Merged(row, orphans).header = row.header
<1> DEFINE last == {orphans[i] : i \in {j \in DOMAIN orphans :
                    \A k \in DOMAIN orphans : k > j => orphans[k].line # orphans[j].line}}
           items == {item \in row.items : \A l \in last : l.line # item.line} \cup last
<1>1. last \subseteq Item
  OBVIOUS
<1>2. items \in SUBSET Item
  BY <1>1 DEF Row
<1>3. Merged(row, orphans) = [row EXCEPT !.items = items]
  BY DEF Merged
<1> HIDE DEF items
<1> QED BY <1>2, <1>3 DEF Row

(***************************************************************************)
(* What a step of the repository does to the rows and the finds            *)
(***************************************************************************)
\* An order that is stored stays stored.
LEMMA RowsStay ==
    ASSUME IInv, RepositoryNext \/ UNCHANGED vars,
           NEW o \in Orders, db[o] # None
    PROVE  db'[o] # None
<1>1. CASE \E s \in Sessions : Commit(s)
  <2>1. PICK s \in Sessions : Commit(s)
    BY <1>1
  <2>2. Written(s) # None
    BY <2>1, WrittenIsRow, NoneAssumption DEF Commit
  <2>3. db' = [db EXCEPT ![call[s].order] = Written(s)]
    BY <2>1 DEF Commit
  <2> QED BY <2>2, <2>3 DEF IInv, TypeOK
<1>2. CASE ~ \E s \in Sessions : Commit(s)
  <2>1. db' = db
    BY <1>2 DEF RepositoryNext, RepositoryStep, FindStep, LockStep, UpsertStep, FailStep,
       CacheHit, CacheMiss, ReadHeader, ReadItems, Fill, SelectRow, UpdateHeader,
       InsertHeader, DuplicateOrder, DeleteItems, DuplicateLine, Evict, SessionRefuses,
       DatabaseFails, RedisFails, StartFind, StartUpsert, EndRequest, Crash, Drop, vars
  <2> QED BY <2>1
<1> QED BY <1>1, <1>2

\* A running call keeps its order and what it wants to write.
LEMMA RepositoryStepKeepsCalls ==
    ASSUME TypeOK, NEW s \in Sessions, RepositoryStep(s), NEW t \in Sessions
    PROVE  /\ call'[t].order = call[t].order
           /\ call'[t].want = call[t].want
<1> USE DEF TypeOK, Call, Go, Answer, At
<1>1. CASE FindStep(s)
  <2>1. CASE CacheHit(s) \/ ReadHeader(s)
    BY <2>1 DEF CacheHit, ReadHeader
  <2>2. CASE CacheMiss(s) \/ Fill(s)
    BY <2>2 DEF CacheMiss, Fill
  <2>3. CASE ReadItems(s)
    BY <2>3 DEF ReadItems
  <2> QED BY <1>1, <2>1, <2>2, <2>3 DEF FindStep
<1>2. CASE LockStep(s)
  BY <1>2 DEF LockStep, UpdateHeader, InsertHeader, DuplicateOrder
<1>3. CASE UpsertStep(s)
  BY <1>3 DEF UpsertStep, SelectRow, DeleteItems, Commit, DuplicateLine, Evict
<1>4. CASE SessionRefuses(s) \/ FailStep(s)
  BY <1>4 DEF SessionRefuses, FailStep, DatabaseFails, RedisFails
<1> QED BY <1>1, <1>2, <1>3, <1>4 DEF RepositoryStep

\* A call gets to the eviction by a commit, and past it only from there.
LEMMA EvictionFollowsCommit ==
    ASSUME TypeOK, NEW s \in Sessions, RepositoryStep(s), NEW t \in Sessions,
           call'[t].at \in {"evict", "stored"}
    PROVE  \/ call[t].at \in {"evict", "stored"}
           \/ t = s /\ At(s, "commit") /\ call'[s].at = "evict"
<1> USE DEF TypeOK, Call, Go, Answer, At
<1>1. CASE FindStep(s)
  <2>1. CASE CacheHit(s) \/ ReadHeader(s)
    BY <2>1 DEF CacheHit, ReadHeader
  <2>2. CASE CacheMiss(s) \/ Fill(s)
    BY <2>2 DEF CacheMiss, Fill
  <2>3. CASE ReadItems(s)
    BY <2>3 DEF ReadItems
  <2> QED BY <1>1, <2>1, <2>2, <2>3 DEF FindStep
<1>2. CASE LockStep(s)
  BY <1>2 DEF LockStep, UpdateHeader, InsertHeader, DuplicateOrder
<1>3. CASE UpsertStep(s)
  BY <1>3 DEF UpsertStep, SelectRow, DeleteItems, Commit, DuplicateLine, Evict
<1>4. CASE SessionRefuses(s) \/ FailStep(s)
  BY <1>4 DEF SessionRefuses, FailStep, DatabaseFails, RedisFails
<1> QED BY <1>1, <1>2, <1>3, <1>4 DEF RepositoryStep

\* Whatever is cached or was found is stored.
LEMMA FindsStoredKept ==
    ASSUME IInv, FindsStored, RepositoryNext \/ UNCHANGED vars
    PROVE  FindsStored'
<1> USE NoneAssumption
<1>0. \A o \in Orders : db[o] # None => db'[o] # None
  BY RowsStay
<1>1. ASSUME NEW s \in Sessions, RepositoryStep(s) PROVE FindsStored'
  <2> USE DEF IInv, TypeOK, CallsFormed, Call, Go, Answer, At, FindsStored
  <2>1. CASE CacheHit(s)
    BY <1>0, <2>1 DEF CacheHit
  <2>2. CASE CacheMiss(s)
    BY <1>0, <2>2 DEF CacheMiss
  <2>3. CASE ReadHeader(s)
    BY <1>0, <2>3 DEF ReadHeader, HeaderOnly
  <2>4. CASE ReadItems(s)
    BY <1>0, <2>4 DEF ReadItems
  <2>5. CASE Fill(s)
    BY <1>0, <2>5 DEF Fill, RowsKnown
  <2>6. CASE LockStep(s)
    BY <1>0, <2>6 DEF LockStep, UpdateHeader, InsertHeader, DuplicateOrder
  <2>7. CASE SelectRow(s) \/ DeleteItems(s) \/ DuplicateLine(s) \/ Evict(s)
    BY <1>0, <2>7 DEF SelectRow, DeleteItems, DuplicateLine, Evict
  <2>8. CASE Commit(s)
    <3>1. Written(s) # None
      BY <2>8, WrittenIsRow DEF Commit
    <3> QED BY <1>0, <2>8, <3>1 DEF Commit, WriteSteps
  <2>9. CASE SessionRefuses(s) \/ FailStep(s)
    BY <1>0, <2>9 DEF SessionRefuses, FailStep, DatabaseFails, RedisFails
  <2> QED BY <1>1, <2>1, <2>2, <2>3, <2>4, <2>5, <2>6, <2>7, <2>8, <2>9
          DEF RepositoryStep, FindStep, UpsertStep
<1>2. ASSUME NEW s \in Sessions, NEW o \in Orders,
             StartFind(s, o) \/ \E row \in Row : StartUpsert(s, o, row)
      PROVE  FindsStored'
  BY <1>2 DEF StartFind, StartUpsert, FindsStored, IInv, TypeOK
<1>3. ASSUME NEW s \in Sessions, EndRequest(s) PROVE FindsStored'
  BY <1>3 DEF EndRequest, NoCall, FindsStored, IInv, TypeOK
<1>4. ASSUME NEW S \in SUBSET Sessions, Crash(S) PROVE FindsStored'
  BY <1>4 DEF Crash, NoCall, FindsStored, IInv, TypeOK
<1>5. ASSUME NEW O \in SUBSET Orders, Drop(O) PROVE FindsStored'
  BY <1>5 DEF Drop, FindsStored, IInv, TypeOK
<1>6. CASE UNCHANGED vars
  BY <1>6 DEF vars, FindsStored
<1> QED BY <1>1, <1>2, <1>3, <1>4, <1>5, <1>6 DEF RepositoryNext

\* OrderRepository's own invariant is preserved.
LEMMA IInvKept ==
    ASSUME IInv, RepositoryNext \/ UNCHANGED vars
    PROVE  IInv'
<1>1. ASSUME NEW s \in Sessions, RepositoryStep(s) PROVE IInv'
  BY <1>1, NextKeepsIInv DEF Next
<1>2. ASSUME NEW s \in Sessions, NEW o \in Orders,
             StartFind(s, o) \/ \E row \in Row : StartUpsert(s, o, row)
      PROVE  IInv'
  BY <1>2, StartFindKeepsIInv, StartUpsertKeepsIInv
<1>3. ASSUME NEW s \in Sessions, EndRequest(s) PROVE IInv'
  BY <1>3, EndRequestKeepsIInv
<1>4. ASSUME NEW S \in SUBSET Sessions, Crash(S) PROVE IInv'
  BY <1>4, CrashKeepsIInv
<1>5. ASSUME NEW O \in SUBSET Orders, Drop(O) PROVE IInv'
  BY <1>5, DropKeepsIInv
<1> QED BY <1>1, <1>2, <1>3, <1>4, <1>5, StutterKeepsIInv DEF RepositoryNext

(***************************************************************************)
(* The services call the repository only through its operations            *)
(***************************************************************************)
LEMMA IngestStepIsRepositoryStep ==
    ASSUME SInv, NEW s \in Sessions, IngestStep(s)
    PROVE  RepositoryNext \/ UNCHANGED vars
<1> USE DEF SInv
<1>1. CASE FindExisting(s)
  <2>1. TaskOf(s).order \in Orders
    BY <1>1, TaskTyped DEF FindExisting, Stage, Task
  <2> QED BY <1>1, <2>1 DEF FindExisting, RepositoryNext
<1>2. CASE UpsertOrder(s)
  <2>1. TaskOf(s).order \in Orders /\ TaskOf(s).row \in Row
    BY <1>2, TaskTyped DEF UpsertOrder, Stage, JobFormed, Task
  <2> QED BY <1>2, <2>1 DEF UpsertOrder, RepositoryNext
<1>3. CASE UpsertOrphans(s)
  <2>1. TaskOf(s).order \in Orders /\ TaskOf(s).orphans \in Seq(Item)
    BY <1>3, TaskTyped DEF UpsertOrphans, Stage, JobFormed, Task
  <2>2. call[s].seen \in Row
    BY <1>3 DEF UpsertOrphans, FindsStored, At
  <2>3. Merged(call[s].seen, TaskOf(s).orphans) \in Row
    BY <2>1, <2>2, MergedIsRow
  <2> QED BY <1>3, <2>1, <2>3 DEF UpsertOrphans, RepositoryNext
<1>4. CASE DeleteKeys(s)
  <2>1. job[s].keys \in SUBSET Orders
    BY DEF ServicesTypeOK, Job
  <2> QED BY <1>4, <2>1 DEF DeleteKeys, RepositoryNext
<1>5. CASE EndIngest(s)
  BY <1>5 DEF EndIngest, RepositoryNext
<1>6. CASE \/ DiscardOrphans(s) \/ CountOrder(s) \/ RecordError(s) \/ ClearCache(s)
           \/ Scan(s) \/ ClearFails(s) \/ \E batch \in Batches : Ingest(s, batch)
  BY <1>6 DEF DiscardOrphans, CountOrder, RecordError, ClearCache, Scan, ClearFails, Ingest
<1> QED BY <1>1, <1>2, <1>3, <1>4, <1>5, <1>6 DEF IngestStep, IngestProgress

LEMMA CheckStepIsRepositoryStep ==
    ASSUME SInv, NEW s \in Sessions, CheckStep(s)
    PROVE  RepositoryNext \/ UNCHANGED vars
<1>1. CASE \E invoice \in Invoices : CheckInvoice(s, invoice)
  BY <1>1, InvoicesAssumption DEF CheckInvoice, RepositoryNext
<1>2. CASE EndCheck(s)
  BY <1>2 DEF EndCheck, RepositoryNext
<1>3. CASE CheckProgress(s) \/ SaveFails(s)
  BY <1>3 DEF CheckProgress, Verify, FindFails, InsertConference, CommitConference, SaveFails
<1> QED BY <1>1, <1>2, <1>3 DEF CheckStep

LEMMA ConnectorStepIsRepositoryStep ==
    ASSUME SInv, [ConnectorNext]_allvars
    PROVE  RepositoryNext \/ UNCHANGED vars
<1>1. ASSUME NEW s \in Sessions, GetOrder(s) \/ Repository(s)
      PROVE  RepositoryNext
  BY <1>1 DEF GetOrder, Repository, RepositoryNext
<1>2. ASSUME NEW s \in Sessions, Ingestion(s) \/ Checking(s)
      PROVE  RepositoryNext \/ UNCHANGED vars
  BY <1>2, IngestStepIsRepositoryStep, CheckStepIsRepositoryStep DEF Ingestion, Checking
<1>3. ASSUME NEW S \in SUBSET Sessions, ServerCrash(S) PROVE RepositoryNext
  BY <1>3 DEF ServerCrash, RepositoryNext
<1>4. ASSUME NEW O \in SUBSET Orders, CacheLoss(O) PROVE RepositoryNext
  BY <1>4 DEF CacheLoss, RepositoryNext
<1> QED BY <1>1, <1>2, <1>3, <1>4 DEF ConnectorNext, allvars

(***************************************************************************)
(* What each session's request may rely on                                 *)
(***************************************************************************)
Reported(s) ==
    \A i \in DOMAIN job[s].report :
        job[s].report[i] \in {"ingested", "updated"} =>
            i \in written[s] /\ db[job[s].batch[i].order] # None

Saved(s) == check[s].stage = "answered" => Conference(s) \in conferences

Formed(s) == JobFormed(s) /\ CheckFormed(s) /\ Reported(s) /\ Saved(s)

LEMMA SInvParts ==
    SInv <=> /\ IInv
             /\ ServicesTypeOK
             /\ FindsStored
             /\ ConferencesReferToOrders
             /\ \A s \in Sessions : Formed(s)
BY DEF SInv, ReportedOrdersAreStored, AnsweredConferencesSaved, Formed, Reported, Saved

\* The order keys of a running ingestion and of its report.
LEMMA BatchTyped ==
    ASSUME ServicesTypeOK, NEW s \in Sessions, JobFormed(s)
    PROVE  /\ job[s].report \in Seq(Outcomes)
           /\ job[s].batch \in Seq(Task)
           /\ \A i \in DOMAIN job[s].report :
                 i \in DOMAIN job[s].batch /\ job[s].batch[i].order \in Orders
<1>1. job[s].report \in Seq(Outcomes)
  BY DEF ServicesTypeOK, Job
<1>2. CASE job[s].stage = "none"
  <2>1. job[s].batch = <<>> /\ job[s].report = <<>>
    BY <1>2 DEF JobFormed, NoJob
  <2> QED BY <1>1, <2>1
<1>3. CASE job[s].stage # "none"
  <2>1. job[s].batch \in Seq(Task) /\ Len(job[s].report) <= Len(job[s].batch)
    BY <1>3, BatchesAssumption DEF JobFormed, Done
  <2>2. ASSUME NEW i \in DOMAIN job[s].report PROVE i \in DOMAIN job[s].batch
    <3>1. Len(job[s].report) \in Nat /\ DOMAIN job[s].report = 1 .. Len(job[s].report)
      BY <1>1
    <3>2. Len(job[s].batch) \in Nat /\ DOMAIN job[s].batch = 1 .. Len(job[s].batch)
      BY <2>1
    <3> QED BY <2>1, <3>1, <3>2
  <2>3. ASSUME NEW i \in DOMAIN job[s].batch PROVE job[s].batch[i] \in Task
    BY <2>1
  <2> QED BY <1>1, <2>1, <2>2, <2>3 DEF Task
<1> QED BY <1>2, <1>3

\* What others do leaves a request formed: orders are never removed.
LEMMA FormedStays ==
    ASSUME SInv, NEW t \in Sessions,
           job'[t] = job[t], check'[t] = check[t],
           \A o \in Orders : db[o] # None => db'[o] # None,
           conferences \subseteq conferences',
           written[t] \subseteq written'[t],
           call'[t].at \in {"evict", "stored"} /\ job[t].stage = "upsert" =>
              call[t].at \in {"evict", "stored"} \/ Done(t) + 1 \in written'[t],
           \/ call'[t].order = call[t].order /\ call'[t].want = call[t].want
           \/ job[t].stage \notin {"find", "upsert"} /\ check[t].stage # "find"
    PROVE  Formed(t)'
<1>0. ServicesTypeOK /\ Formed(t)
  BY SInvParts
<1>1. JobFormed(t)'
  <2>1. CASE job[t].stage \notin {"find", "upsert"}
    BY <1>0, <2>1 DEF Formed, JobFormed, Done, Stage
  <2>2. CASE job[t].stage \in {"find", "upsert"}
    <3>1. TaskOf(t).order \in Orders /\ call[t].order = TaskOf(t).order
      BY <1>0, <2>2, TaskTyped DEF Formed, JobFormed, Task
    <3>2. TaskOf(t)' = TaskOf(t)
      BY DEF TaskOf, Done
    <3> QED BY <1>0, <2>2, <3>1, <3>2 DEF Formed, JobFormed, Done, Stage
  <2> QED BY <2>1, <2>2
<1>2. CheckFormed(t)'
  BY <1>0, InvoicesAssumption DEF Formed, CheckFormed
<1>3. Reported(t)'
  BY <1>0, BatchTyped DEF Formed, Reported
<1>4. Saved(t)'
  BY <1>0 DEF Formed, Saved, Conference
<1> QED BY <1>1, <1>2, <1>3, <1>4 DEF Formed

(***************************************************************************)
(* Each step of an ingestion                                               *)
(***************************************************************************)
\* The outcome of a task is appended to the report; the rest stays.
LEMMA ReportForms ==
    ASSUME SInv, NEW s \in Sessions, job[s].stage \in {"find", "upsert"},
           NEW outcome \in Outcomes, Report(s, outcome), UNCHANGED vars,
           outcome \in {"ingested", "updated"} =>
              db[TaskOf(s).order] # None /\ Done(s) + 1 \in written[s],
           written'[s] = written[s]
    PROVE  job' \in [Sessions -> Job] /\ JobFormed(s)' /\ Reported(s)'
<1>0. ServicesTypeOK /\ JobFormed(s) /\ Reported(s)
  BY SInvParts DEF Formed
<1>1. job[s] \in Job /\ job' = [job EXCEPT ![s] = job'[s]]
  BY <1>0 DEF ServicesTypeOK, Report
<1>2. /\ job'[s].stage = "next" /\ job'[s].batch = job[s].batch
      /\ job'[s].report = Append(job[s].report, outcome)
      /\ job'[s].existing = None
      /\ job'[s].unscanned = job[s].unscanned /\ job'[s].keys = job[s].keys
      /\ job'[s] \in Job
  BY <1>0, <1>1 DEF Report, ServicesTypeOK, Job, Stages
<1>3. job' \in [Sessions -> Job]
  BY <1>0, <1>1, <1>2 DEF ServicesTypeOK
<1>4. /\ job[s].batch \in Batches
      /\ Done(s) \in Nat /\ Len(job[s].batch) \in Nat
      /\ Done(s) < Len(job[s].batch)
  BY <1>0, BatchTyped DEF JobFormed, Done
<1>5. /\ DOMAIN job'[s].report = 1 .. Done(s) + 1
      /\ DOMAIN job[s].report = 1 .. Done(s)
      /\ Done(s)' = Done(s) + 1
      /\ job'[s].report[Done(s) + 1] = outcome
      /\ \A i \in 1 .. Done(s) : job'[s].report[i] = job[s].report[i]
  BY <1>0, <1>2, BatchTyped DEF Done
<1>6. JobFormed(s)'
  BY <1>2, <1>4, <1>5 DEF JobFormed, Stage
<1>7. Reported(s)'
  <2> SUFFICES ASSUME NEW i \in DOMAIN job'[s].report,
                      job'[s].report[i] \in {"ingested", "updated"}
               PROVE  i \in written'[s] /\ db'[job'[s].batch[i].order] # None
    BY DEF Reported
  <2>1. CASE i = Done(s) + 1
    BY <1>2, <1>5, <2>1 DEF vars, TaskOf
  <2>2. CASE i # Done(s) + 1
    <3>1. i \in DOMAIN job[s].report
      BY <1>4, <1>5, <2>2
    <3> QED BY <1>0, <1>2, <1>5, <3>1 DEF Reported, vars
  <2> QED BY <2>1, <2>2
<1> QED BY <1>3, <1>6, <1>7

LEMMA IngestStepForms ==
    ASSUME SInv, NEW s \in Sessions, IngestStep(s),
           written' = [written EXCEPT ![s] = IF job'[s] = NoJob THEN {} ELSE @]
    PROVE  job' \in [Sessions -> Job] /\ JobFormed(s)' /\ Reported(s)'
<1>0. ServicesTypeOK /\ JobFormed(s) /\ Reported(s) /\ FindsStored /\ TypeOK
  BY SInvParts DEF Formed, IInv
<1>1. job[s] \in Job /\ written[s] \in SUBSET Nat
  BY <1>0 DEF ServicesTypeOK
<1>11. job'[s].stage # "none" => written'[s] = written[s]
  BY <1>0 DEF ServicesTypeOK, NoJob
<1>12. Stage(s, "upsert") /\ call[s].at = "stored" => Done(s) + 1 \in written[s]
  BY <1>0 DEF JobFormed
<1>2. ASSUME NEW batch \in Batches, Ingest(s, batch)
      PROVE  job' \in [Sessions -> Job] /\ JobFormed(s)' /\ Reported(s)'
  <2>1. job'[s] = [NoJob EXCEPT !.stage = "next", !.batch = batch]
    BY <1>0, <1>2 DEF Ingest, ServicesTypeOK
  <2>2. job'[s] = [stage |-> "next", batch |-> batch, report |-> <<>>, existing |-> None,
                   unscanned |-> {}, keys |-> {}]
    BY <2>1 DEF NoJob
  <2>4. <<>> \in Seq(Outcomes)
    OBVIOUS
  <2>5. job'[s] \in Job
    BY <2>2, <2>4 DEF Job, Stages
  <2>3. Len(batch) \in Nat
    BY BatchesAssumption
  <2>6. /\ job'[s].stage = "next" /\ job'[s].batch = batch
        /\ Done(s)' = 0 /\ DOMAIN job'[s].report = {}
    BY <2>2 DEF Done
  <2>7. JobFormed(s)' /\ Reported(s)'
    BY <2>3, <2>6 DEF JobFormed, Reported, Stage
  <2> QED BY <1>0, <1>2, <2>5, <2>7 DEF Ingest, ServicesTypeOK
<1>3. CASE FindExisting(s)
  <2>1. job' \in [Sessions -> Job] /\ job'[s] = [job[s] EXCEPT !.stage = "find"]
    BY <1>0, <1>1, <1>3 DEF FindExisting, ServicesTypeOK, Job, Stages
  <2>2. /\ job'[s].batch = job[s].batch /\ job'[s].report = job[s].report
        /\ job'[s].stage = "find"
    BY <1>1, <2>1 DEF Job
  <2>3. TaskOf(s)' = TaskOf(s) /\ Done(s)' = Done(s)
    BY <2>2 DEF TaskOf, Done
  <2> QED BY <1>0, <1>3, <1>11, <2>1, <2>2, <2>3
          DEF FindExisting, StartFind, JobFormed, Reported, Stage, TypeOK
<1>4. CASE UpsertOrder(s)
  <2>1. call[s].seen \in Row \cup {None}
    BY <1>0 DEF TypeOK, Call
  <2>2. job' \in [Sessions -> Job]
        /\ job'[s] = [job[s] EXCEPT !.stage = "upsert", !.existing = call[s].seen]
    BY <1>0, <1>1, <1>4, <2>1 DEF UpsertOrder, ServicesTypeOK, Job, Stages
  <2>3. /\ job'[s].batch = job[s].batch /\ job'[s].report = job[s].report
        /\ job'[s].stage = "upsert"
    BY <1>1, <2>2 DEF Job
  <2>4. TaskOf(s)' = TaskOf(s) /\ Done(s)' = Done(s)
    BY <2>3 DEF TaskOf, Done
  <2> QED BY <1>0, <1>4, <1>11, <2>2, <2>3, <2>4
          DEF UpsertOrder, StartUpsert, JobFormed, Reported, Stage, TypeOK
<1>5. CASE UpsertOrphans(s)
  <2>1. /\ call[s].seen \in Row
        /\ call[s].order = TaskOf(s).order
        /\ db[call[s].order] # None
    BY <1>0, <1>5 DEF UpsertOrphans, FindsStored, JobFormed, At, Stage
  <2>2. job' \in [Sessions -> Job]
        /\ job'[s] = [job[s] EXCEPT !.stage = "upsert", !.existing = call[s].seen]
    BY <1>0, <1>1, <1>5, <2>1 DEF UpsertOrphans, ServicesTypeOK, Job, Stages
  <2>3. /\ job'[s].batch = job[s].batch /\ job'[s].report = job[s].report
        /\ job'[s].stage = "upsert" /\ job'[s].existing = call[s].seen
    BY <1>1, <2>2 DEF Job
  <2>4. TaskOf(s)' = TaskOf(s) /\ Done(s)' = Done(s)
    BY <2>3 DEF TaskOf, Done
  <2>5. /\ call'[s].order = TaskOf(s).order
        /\ call'[s].want = Merged(call[s].seen, TaskOf(s).orphans)
        /\ call'[s].at = "select"
        /\ db' = db
    BY <1>0, <1>5 DEF UpsertOrphans, StartUpsert, TypeOK
  <2> QED BY <1>0, <1>5, <1>11, <2>1, <2>2, <2>3, <2>4, <2>5
          DEF UpsertOrphans, JobFormed, Reported, Stage
<1>13. ASSUME NEW outcome \in Outcomes, Report(s, outcome) PROVE written'[s] = written[s]
  BY <1>0, <1>11, <1>13 DEF Report, ServicesTypeOK, Job
<1>6. CASE DiscardOrphans(s)
  BY <1>6, <1>13, ReportForms DEF DiscardOrphans, Stage, Outcomes
<1>7. CASE CountOrder(s)
  <2>1. db[TaskOf(s).order] # None /\ Done(s) + 1 \in written[s]
    BY <1>0, <1>7, <1>12 DEF CountOrder, FindsStored, JobFormed, At, Stage
  <2> QED BY <1>7, <1>13, <2>1, ReportForms DEF CountOrder, Stage, Outcomes
<1>8. CASE RecordError(s)
  BY <1>8, <1>13, ReportForms DEF RecordError, Outcomes
<1>9. CASE ClearCache(s) \/ Scan(s) \/ DeleteKeys(s) \/ ClearFails(s)
  <2> DEFINE Moved == /\ job' = [job EXCEPT ![s] = job'[s]]
                      /\ job[s].stage # "none"
                      /\ job'[s] \in Job
                      /\ job'[s].batch = job[s].batch /\ job'[s].report = job[s].report
                      /\ job'[s].stage \in {"scan", "delete", "answered", "aborted"}
                      /\ db' = db
  <2>1. ASSUME ClearCache(s) PROVE Moved
    BY <1>0, <1>1, <2>1 DEF ClearCache, vars, ServicesTypeOK, Job, Stage, Stages
  <2>2. ASSUME Scan(s) PROVE Moved
    <3>1. PICK slots \in SUBSET job[s].unscanned :
            job' = [job EXCEPT ![s].stage = "delete",
                               ![s].unscanned = @ \ slots,
                               ![s].keys = {o \in slots : cache[o] # None}]
      BY <2>2 DEF Scan
    <3>2. job[s].unscanned \ slots \in SUBSET Orders
          /\ {o \in slots : cache[o] # None} \in SUBSET Orders
      BY <1>1 DEF Job
    <3> QED BY <1>0, <1>1, <2>2, <3>1, <3>2
            DEF Scan, vars, ServicesTypeOK, Job, Stage, Stages
  <2>3. ASSUME DeleteKeys(s) PROVE Moved
    BY <1>0, <1>1, <2>3 DEF DeleteKeys, Drop, vars, ServicesTypeOK, Job, Stage, Stages
  <2>4. ASSUME ClearFails(s) PROVE Moved
    BY <1>0, <1>1, <2>4 DEF ClearFails, vars, ServicesTypeOK, Job, Stages
  <2>5. Moved
    BY <1>9, <2>1, <2>2, <2>3, <2>4
  <2>6. job' \in [Sessions -> Job]
    BY <1>0, <2>5 DEF ServicesTypeOK
  <2> QED BY <1>0, <1>11, <2>5, <2>6 DEF JobFormed, Reported, Done, Stage
<1>10. CASE EndIngest(s)
  <2>1. job'[s] = NoJob
    BY <1>0, <1>10 DEF EndIngest, ServicesTypeOK
  <2>2. <<>> \in Seq(Outcomes)
    OBVIOUS
  <2>3. NoJob \in Job
    BY <2>2 DEF NoJob, Job
  <2> QED BY <1>0, <1>10, <2>1, <2>3
          DEF EndIngest, ServicesTypeOK, JobFormed, Reported, Stage, NoJob
<1> QED BY <1>2, <1>3, <1>4, <1>5, <1>6, <1>7, <1>8, <1>9, <1>10
        DEF IngestStep, IngestProgress

(***************************************************************************)
(* Each step of a conference                                               *)
(***************************************************************************)
\* The checker answers with divergences of its own kinds.
LEMMA CheckTyped ==
    ASSUME NEW order, NEW invoice \in Invoices, NEW result \in Check(order, invoice)
    PROVE  result \in SUBSET Divergence
<1>1. CASE order = None \/ (order # None /\ order.header.status # "open")
  BY <1>1 DEF Check, Divergence
<1>2. CASE order # None /\ order.header.status = "open"
  <2>1. PICK f \in ByMaterial(order.items) :
          result = {<<0, d>> : d \in {e \in {"vendor_mismatch"} :
                      invoice.vendor_tax_id # order.header.vendor_tax_id}}
              \cup UNION {{<<n, d>> : d \in ItemDivergences(f, invoice.items[n])} :
                            n \in DOMAIN invoice.items}
    BY <1>2 DEF Check
  <2>2. ASSUME NEW n \in DOMAIN invoice.items, NEW d \in ItemDivergences(f, invoice.items[n])
        PROVE  <<n, d>> \in Divergence
    <3>1. n \in Nat
      BY InvoicesAssumption
    <3>2. d \in {"material_not_found", "quantity_exceeded", "price_mismatch"}
      BY DEF ItemDivergences
    <3> QED BY <3>1, <3>2 DEF Divergence
  <2>3. <<0, "vendor_mismatch">> \in Divergence
    BY DEF Divergence
  <2> QED BY <2>1, <2>2, <2>3
<1> QED BY <1>1, <1>2

LEMMA CheckStepForms ==
    ASSUME SInv, NEW s \in Sessions, CheckStep(s)
    PROVE  /\ check' \in [Sessions -> CheckRequest]
           /\ conferences' \subseteq ConferenceRow
           /\ CheckFormed(s)' /\ Saved(s)'
           /\ conferences \subseteq conferences'
           /\ \A c \in conferences' : c.found => db[c.order] # None
<1>0. /\ ServicesTypeOK /\ CheckFormed(s) /\ FindsStored /\ TypeOK
      /\ ConferencesReferToOrders
  BY SInvParts DEF Formed, IInv
<1>1. check[s] \in CheckRequest
  BY <1>0 DEF ServicesTypeOK
<1> DEFINE Goal == /\ check' \in [Sessions -> CheckRequest]
                   /\ conferences' \subseteq ConferenceRow
                   /\ CheckFormed(s)' /\ Saved(s)'
                   /\ conferences \subseteq conferences'
                   /\ \A c \in conferences' : c.found => db[c.order] # None
<1>2. ASSUME NEW invoice \in Invoices, CheckInvoice(s, invoice) PROVE Goal
  <2>1. check'[s] = [stage |-> "find", invoice |-> invoice, found |-> FALSE, divergences |-> {}]
    BY <1>0, <1>2 DEF CheckInvoice, ServicesTypeOK, NoCheck
  <2>2. check'[s] \in CheckRequest
    BY <2>1 DEF CheckRequest, CheckStages
  <2>3. CheckFormed(s)' /\ Saved(s)'
    BY <1>0, <1>2, <2>1 DEF CheckInvoice, StartFind, TypeOK, CheckFormed, Saved
  <2> QED BY <1>0, <1>2, <2>2, <2>3 DEF CheckInvoice, ServicesTypeOK, ConferencesReferToOrders
<1>3. CASE Verify(s)
  <2>1. PICK result \in Check(call[s].seen, check[s].invoice) :
          check' = [check EXCEPT ![s].stage = "flush",
                                 ![s].found = (call[s].seen # None),
                                 ![s].divergences = result]
    BY <1>3 DEF Verify
  <2>2. check[s].invoice \in Invoices /\ result \in SUBSET Divergence
    BY <1>0, <1>3, CheckTyped DEF Verify, CheckFormed
  <2>3. /\ check' \in [Sessions -> CheckRequest]
        /\ check'[s].stage = "flush" /\ check'[s].invoice = check[s].invoice
        /\ check'[s].found = (call[s].seen # None)
    BY <1>0, <1>1, <2>1, <2>2 DEF ServicesTypeOK, CheckRequest, CheckStages
  <2>4. call[s].seen # None => db[check[s].invoice.order] # None
    BY <1>0, <1>3 DEF Verify, FindsStored, CheckFormed
  <2>5. CheckFormed(s)' /\ Saved(s)'
    BY <1>3, <2>2, <2>3, <2>4 DEF Verify, CheckFormed, Saved, vars
  <2> QED BY <1>0, <1>3, <2>3, <2>5 DEF Verify, ServicesTypeOK, ConferencesReferToOrders
<1>4. CASE FindFails(s) \/ InsertConference(s) \/ SaveFails(s)
  <2>1. /\ check' \in [Sessions -> CheckRequest]
        /\ check[s].stage # "none"
        /\ check'[s].stage \in {"commit", "aborted"}
        /\ check'[s].stage = "commit" => check[s].stage = "flush"
        /\ check'[s].invoice = check[s].invoice /\ check'[s].found = check[s].found
    BY <1>0, <1>1, <1>4
    DEF FindFails, InsertConference, SaveFails, ServicesTypeOK, CheckRequest, CheckStages
  <2>2. db' = db /\ conferences' = conferences
    BY <1>4 DEF FindFails, InsertConference, SaveFails, vars
  <2>3. CheckFormed(s)' /\ Saved(s)'
    BY <1>0, <2>1, <2>2 DEF CheckFormed, Saved
  <2> QED BY <1>0, <2>1, <2>2, <2>3 DEF ServicesTypeOK, ConferencesReferToOrders
<1>5. CASE CommitConference(s)
  <2>1. /\ check' \in [Sessions -> CheckRequest]
        /\ check[s].stage = "commit"
        /\ check'[s].stage \in {"answered", "aborted"}
        /\ check'[s].invoice = check[s].invoice /\ check'[s].found = check[s].found
        /\ check'[s].divergences = check[s].divergences
    BY <1>0, <1>1, <1>5 DEF CommitConference, ServicesTypeOK, CheckRequest, CheckStages
  <2>2. db' = db /\ conferences' = conferences \cup {Conference(s)}
    BY <1>5 DEF CommitConference, vars
  <2>3. Conference(s)' = Conference(s)
    BY <2>1 DEF Conference
  <2>4. CheckFormed(s)' /\ Saved(s)'
    BY <1>0, <2>1, <2>2, <2>3 DEF CheckFormed, Saved
  <2>5. Conference(s) \in ConferenceRow
    BY <1>0, <1>1, <2>1, InvoicesAssumption DEF ConferenceRow, CheckFormed, CheckRequest, Conference
  <2>6. Conference(s).found => db[Conference(s).order] # None
    BY <1>0, <2>1 DEF CheckFormed, Conference
  <2> QED BY <1>0, <2>1, <2>2, <2>4, <2>5, <2>6 DEF ServicesTypeOK, ConferencesReferToOrders
<1>6. CASE EndCheck(s)
  <2>1. check'[s] = NoCheck /\ conferences' = conferences
    BY <1>0, <1>6 DEF EndCheck, ServicesTypeOK
  <2>2. NoCheck \in CheckRequest
    BY DEF NoCheck, CheckRequest
  <2>3. CheckFormed(s)' /\ Saved(s)'
    BY <2>1 DEF CheckFormed, Saved, NoCheck
  <2> QED BY <1>0, <1>6, <2>1, <2>2, <2>3 DEF EndCheck, ServicesTypeOK, ConferencesReferToOrders
<1> QED BY <1>2, <1>3, <1>4, <1>5, <1>6 DEF CheckStep, CheckProgress

(***************************************************************************)
(* The inductive invariant                                                 *)
(***************************************************************************)
LEMMA InitEstablishesSInv == ConnectorInit => SInv
<1> SUFFICES ASSUME ConnectorInit PROVE SInv OBVIOUS
<1> USE DEF ConnectorInit
<1>1. IInv
  BY InitEstablishesIInv
<1>2. FindsStored /\ ConferencesReferToOrders
  BY DEF Init, NoCall, FindsStored, ConferencesReferToOrders
<1>3. NoJob \in Job /\ NoCheck \in CheckRequest
  <2>1. <<>> \in Seq(Outcomes)
    OBVIOUS
  <2> QED BY <2>1 DEF NoJob, Job, NoCheck, CheckRequest
<1>4. ServicesTypeOK
  BY <1>3 DEF ServicesTypeOK
<1>5. ASSUME NEW s \in Sessions PROVE Formed(s)
  BY DEF Formed, JobFormed, CheckFormed, Reported, Saved, Stage, NoJob, NoCheck
<1> QED BY <1>1, <1>2, <1>4, <1>5, SInvParts

\* What a repository step leaves of the conferences stays referring.
LEMMA ReferencesStay ==
    ASSUME ServicesTypeOK, ConferencesReferToOrders, conferences' = conferences,
           \A o \in Orders : db[o] # None => db'[o] # None
    PROVE  ConferencesReferToOrders'
BY DEF ServicesTypeOK, ConferenceRow, ConferencesReferToOrders

LEMMA ConnectorNextKeepsSInv == SInv /\ [ConnectorNext]_allvars => SInv'
<1> SUFFICES ASSUME SInv, [ConnectorNext]_allvars PROVE SInv' OBVIOUS
<1>0. /\ IInv /\ ServicesTypeOK /\ FindsStored /\ ConferencesReferToOrders /\ TypeOK
      /\ \A s \in Sessions : Formed(s)
  BY SInvParts DEF IInv
<1>1. RepositoryNext \/ UNCHANGED vars
  BY ConnectorStepIsRepositoryStep
<1>2. IInv' /\ FindsStored' /\ \A o \in Orders : db[o] # None => db'[o] # None
  BY <1>0, <1>1, IInvKept, FindsStoredKept, RowsStay
<1> DEFINE Goal == /\ ServicesTypeOK' /\ ConferencesReferToOrders'
                   /\ \A t \in Sessions : Formed(t)'
<1>3. ASSUME NEW s \in Sessions, GetOrder(s) PROVE Goal
  <2>1. /\ job' = job /\ check' = check /\ conferences' = conferences
        /\ written' = written
    BY <1>3 DEF GetOrder, services
  <2>2. \A t \in Sessions \ {s} : call'[t] = call[t]
    BY <1>0, <1>3 DEF GetOrder, StartFind, EndRequest, TypeOK
  <2>3. job[s].stage = "none" /\ check[s].stage = "none"
    BY <1>3 DEF GetOrder, Unused, NoJob, NoCheck
  <2>4. \A t \in Sessions : Formed(t)'
    BY <1>2, <2>1, <2>2, <2>3, FormedStays
  <2> QED BY <1>0, <1>2, <2>1, <2>4, ReferencesStay DEF ServicesTypeOK
<1>4. ASSUME NEW s \in Sessions, Repository(s) PROVE Goal
  <2>1. job' = job /\ check' = check /\ conferences' = conferences
    BY <1>4 DEF Repository, services
  <2>2. \A t \in Sessions : call'[t].order = call[t].order /\ call'[t].want = call[t].want
    BY <1>0, <1>4, RepositoryStepKeepsCalls DEF Repository
  <2>3. /\ written' \in [Sessions -> SUBSET Nat]
        /\ \A t \in Sessions : written[t] \subseteq written'[t]
        /\ Stage(s, "upsert") /\ At(s, "commit") /\ call'[s].at = "evict" =>
             Done(s) + 1 \in written'[s]
    <3>1. Stage(s, "upsert") => Done(s) + 1 \in Nat
      BY <1>0, BatchTyped DEF Formed, Done
    <3>2. written \in [Sessions -> SUBSET Nat]
      BY <1>0 DEF ServicesTypeOK
    <3> QED BY <1>4, <3>1, <3>2 DEF Repository, NoteCommit
  <2>4. ASSUME NEW t \in Sessions,
               call'[t].at \in {"evict", "stored"}, job[t].stage = "upsert"
        PROVE  call[t].at \in {"evict", "stored"} \/ Done(t) + 1 \in written'[t]
    BY <1>0, <1>4, <2>3, <2>4, EvictionFollowsCommit DEF Repository, Stage
  <2>5. \A t \in Sessions : Formed(t)'
    BY <1>2, <2>1, <2>2, <2>3, <2>4, FormedStays
  <2> QED BY <1>0, <1>2, <2>1, <2>3, <2>5, ReferencesStay DEF ServicesTypeOK
<1>5. ASSUME NEW s \in Sessions, Ingestion(s) PROVE Goal
  <2>1. /\ IngestStep(s)
        /\ written' = [written EXCEPT ![s] = IF job'[s] = NoJob THEN {} ELSE @]
        /\ check' = check /\ conferences' = conferences /\ check[s] = NoCheck
    BY <1>5 DEF Ingestion
  <2>2. job' \in [Sessions -> Job] /\ JobFormed(s)' /\ Reported(s)'
    BY <2>1, IngestStepForms
  <2>3. CheckFormed(s)' /\ Saved(s)'
    BY <2>1 DEF CheckFormed, Saved, NoCheck
  <2>4. ASSUME NEW t \in Sessions, t # s PROVE job'[t] = job[t] /\ call'[t] = call[t]
    BY <1>0, <2>1, <2>4
    DEF IngestStep, IngestProgress, Ingest, FindExisting, UpsertOrder, UpsertOrphans,
        DiscardOrphans, CountOrder, RecordError, ClearCache, Scan, DeleteKeys, ClearFails,
        EndIngest, Report, StartFind, StartUpsert, EndRequest, Drop, vars,
        ServicesTypeOK, TypeOK
  <2>6. /\ written' \in [Sessions -> SUBSET Nat]
        /\ \A t \in Sessions \ {s} : written'[t] = written[t]
    BY <1>0, <2>1 DEF ServicesTypeOK
  <2>5. \A t \in Sessions \ {s} : Formed(t)'
    BY <1>2, <2>1, <2>4, <2>6, FormedStays
  <2> QED BY <1>0, <1>2, <2>1, <2>2, <2>3, <2>5, <2>6, ReferencesStay DEF ServicesTypeOK, Formed
<1>6. ASSUME NEW s \in Sessions, Checking(s) PROVE Goal
  <2>1. CheckStep(s) /\ job' = job /\ job[s] = NoJob /\ written' = written
    BY <1>6 DEF Checking
  <2>2. /\ check' \in [Sessions -> CheckRequest]
        /\ conferences' \subseteq ConferenceRow
        /\ CheckFormed(s)' /\ Saved(s)'
        /\ conferences \subseteq conferences'
        /\ \A c \in conferences' : c.found => db[c.order] # None
    BY <2>1, CheckStepForms
  <2>3. JobFormed(s)' /\ Reported(s)'
    BY <2>1 DEF JobFormed, Reported, Stage, NoJob
  <2>4. ASSUME NEW t \in Sessions, t # s PROVE check'[t] = check[t] /\ call'[t] = call[t]
    BY <1>0, <2>1, <2>4
    DEF CheckStep, CheckProgress, CheckInvoice, Verify, FindFails, InsertConference,
        CommitConference, SaveFails, EndCheck, StartFind, EndRequest, vars,
        ServicesTypeOK, TypeOK
  <2>5. \A t \in Sessions \ {s} : Formed(t)'
    BY <1>2, <2>1, <2>2, <2>4, FormedStays
  <2>6. ConferencesReferToOrders'
    BY <1>2, <2>2 DEF ConferencesReferToOrders, ConferenceRow
  <2> QED BY <1>0, <2>1, <2>2, <2>3, <2>5, <2>6 DEF ServicesTypeOK, Formed
<1>7. ASSUME NEW S \in SUBSET Sessions, ServerCrash(S) PROVE Goal
  <2>1. /\ job' = [s \in Sessions |-> IF s \in S THEN NoJob ELSE job[s]]
        /\ check' = [s \in Sessions |-> IF s \in S THEN NoCheck ELSE check[s]]
        /\ written' = [s \in Sessions |-> IF s \in S THEN {} ELSE written[s]]
        /\ conferences' = conferences
        /\ \A t \in Sessions \ S : call'[t] = call[t]
    BY <1>7 DEF ServerCrash, Crash
  <2>2. NoJob \in Job /\ NoCheck \in CheckRequest
    <3>1. <<>> \in Seq(Outcomes)
      OBVIOUS
    <3> QED BY <3>1 DEF NoJob, Job, NoCheck, CheckRequest
  <2>3. ASSUME NEW t \in S PROVE Formed(t)'
    <3>1. job'[t] = NoJob /\ check'[t] = NoCheck
      BY <2>1
    <3> QED BY <3>1 DEF Formed, JobFormed, CheckFormed, Reported, Saved, Stage, NoJob, NoCheck
  <2>4. ASSUME NEW t \in Sessions \ S PROVE Formed(t)'
    BY <1>2, <2>1, FormedStays
  <2>5. ServicesTypeOK'
    BY <1>0, <2>1, <2>2 DEF ServicesTypeOK
  <2> QED BY <1>0, <1>2, <2>1, <2>3, <2>4, <2>5, ReferencesStay
<1>8. ASSUME job' = job, check' = check, conferences' = conferences, call' = call,
             written' = written
      PROVE  Goal
  BY <1>0, <1>2, <1>8, FormedStays, ReferencesStay DEF ServicesTypeOK
<1>9. ASSUME NEW O \in SUBSET Orders, CacheLoss(O) PROVE Goal
  BY <1>8, <1>9 DEF CacheLoss, Drop, services
<1>10. ASSUME UNCHANGED allvars PROVE Goal
  <2>1. vars' = vars /\ services' = services /\ written' = written
    BY <1>10 DEF allvars
  <2> QED BY <1>8, <2>1 DEF vars, services
<1> HIDE DEF Goal
<1>11. Goal
  BY <1>3, <1>4, <1>5, <1>6, <1>7, <1>9, <1>10 DEF ConnectorNext
<1> QED BY <1>2, <1>11
        DEF Goal, SInv, ReportedOrdersAreStored, AnsweredConferencesSaved,
            Formed, Reported, Saved

\* SInv holds in every reachable state of the system.
THEOREM SInvAlways == ConnectorSpec => []SInv
<1> QED BY InitEstablishesSInv, ConnectorNextKeepsSInv, PTL DEF ConnectorSpec

(***************************************************************************)
(* The properties                                                          *)
(***************************************************************************)
\* The services use the repository only through its operations: every
\* behaviour of the system is one of OrderRepository, whose callers may
\* upsert any row.
THEOREM ServicesImplementRepository == ConnectorSpec => ImplementsRepository
<1>1. ConnectorInit => Repo!Init
  BY DEF ConnectorInit, Init, NoCall, Repo!Init, Repo!NoCall
<1>2. SInv /\ [ConnectorNext]_allvars => [Repo!Next]_(Repo!vars)
  <2> SUFFICES ASSUME SInv, [ConnectorNext]_allvars
               PROVE  Repo!Next \/ UNCHANGED Repo!vars
    OBVIOUS
  <2> QED BY ConnectorStepIsRepositoryStep, RepositoryNextIsRepo DEF vars, Repo!vars
<1> QED BY <1>1, <1>2, SInvAlways, PTL DEF ConnectorSpec, ImplementsRepository, Repo!Spec

\* What an ingestion reports as ingested or updated is in the database.
THEOREM OrdersReportedAreStored == ConnectorSpec => []ReportedOrdersAreStored
<1>1. SInv => ReportedOrdersAreStored BY DEF SInv
<1> QED BY <1>1, SInvAlways, PTL

\* A conference that names an order names one that is stored.
THEOREM ConferencesAlwaysRefer == ConnectorSpec => []ConferencesReferToOrders
<1>1. SInv => ConferencesReferToOrders BY DEF SInv
<1> QED BY <1>1, SInvAlways, PTL

\* A conference that is answered is stored as it was answered.
THEOREM ConferencesAnsweredAreSaved == ConnectorSpec => []AnsweredConferencesSaved
<1>1. SInv => AnsweredConferencesSaved BY DEF SInv
<1> QED BY <1>1, SInvAlways, PTL

\* The upsert of merged orphans only ever rewrites an order that is stored.
THEOREM OrphansCreateNothing == ConnectorSpec => OrphansNeverCreate
<1> DEFINE P == \A s \in Sessions :
                  /\ Stage(s, "upsert") /\ TaskOf(s).row = None
                  /\ db'[call[s].order] # db[call[s].order] /\ Commit(s)
                  => db[call[s].order] # None
<1>1. SInv /\ [ConnectorNext]_allvars => [P]_allvars
  BY DEF SInv, JobFormed
<1> QED BY <1>1, SInvAlways, PTL DEF ConnectorSpec, OrphansNeverCreate

(***************************************************************************)
(* The merge of orphans                                                    *)
(***************************************************************************)
\* A set of natural numbers has a least one.
LEMMA LeastNatural ==
    ASSUME NEW S \in SUBSET Nat, S # {}
    PROVE  \E n \in S : \A m \in S : n <= m
<1> DEFINE R == {p \in Nat \X Nat : p[1] < p[2]}
<1>1. IsWellFoundedOn(R, Nat)
  BY NatLessThanWellFounded DEF OpToRel
<1> HIDE DEF R
<1>2. S \subseteq Nat
  OBVIOUS
<1>3. \E n \in S : \A m \in S : ~ (<<m, n>> \in R)
  BY <1>1, <1>2, WFMin, Zenon
<1>4. PICK n \in S : \A m \in S : ~ (<<m, n>> \in R)
  BY <1>3
<1>5. ASSUME NEW m \in S PROVE n <= m
  <2>1. m \in Nat /\ n \in Nat /\ ~ (<<m, n>> \in R)
    BY <1>2, <1>4
  <2>2. ~ (m < n)
    BY ONLY <2>1 DEF R
  <2> QED BY <2>1, <2>2
<1> QED BY <1>4, <1>5

\* Among the orphans of one line there is a last one.
LEMMA LastOfLine ==
    ASSUME NEW orphans \in Seq(Item), NEW i \in DOMAIN orphans
    PROVE  \E j \in DOMAIN orphans :
              /\ orphans[j].line = orphans[i].line
              /\ \A k \in DOMAIN orphans : k > j => orphans[k].line # orphans[j].line
<1> DEFINE len == Len(orphans)
           J == {j \in 1 .. len : orphans[j].line = orphans[i].line}
           D == {len - j : j \in J}
<1>1. len \in Nat /\ DOMAIN orphans = 1 .. len
  OBVIOUS
<1>2. i \in J
  BY <1>1
<1> HIDE DEF len
<1>3. D \in SUBSET Nat /\ D # {}
  BY <1>1, <1>2
<1>4. PICK d \in D : \A e \in D : d <= e
  BY <1>3, LeastNatural
<1>5. PICK j \in J : d = len - j
  BY <1>4
<1>6. ASSUME NEW k \in DOMAIN orphans, k > j PROVE orphans[k].line # orphans[j].line
  <2> SUFFICES ASSUME orphans[k].line = orphans[j].line PROVE FALSE
    OBVIOUS
  <2>1. k \in J
    BY <1>1, <1>5
  <2>2. d <= len - k
    BY <1>4, <2>1
  <2> QED BY <1>1, <1>5, <1>6, <2>2
<1> QED BY <1>1, <1>5, <1>6

\* A merge keeps the lines that were not sent and has every line once sent.
LEMMA MergedLines ==
    ASSUME NEW row \in Row, NEW orphans \in Seq(Item), NEW sent,
           sent = {orphans[i].line : i \in DOMAIN orphans}
    PROVE  LET after == Merged(row, orphans) IN
           /\ {i \in after.items : i.line \notin sent} =
              {i \in row.items : i.line \notin sent}
           /\ {i.line : i \in after.items} = {i.line : i \in row.items} \cup sent
<1> DEFINE last == {orphans[i] : i \in {j \in DOMAIN orphans :
                    \A k \in DOMAIN orphans : k > j => orphans[k].line # orphans[j].line}}
           items == {item \in row.items : \A l \in last : l.line # item.line} \cup last
           after == Merged(row, orphans)
<1>1. after = [row EXCEPT !.items = items]
  BY DEF Merged
<1>2. \A l \in last : l.line \in sent
  OBVIOUS
<1>3. \A line \in sent : \E l \in last : l.line = line
  BY LastOfLine
<1> HIDE DEF last
<1>4. after.items = items
  <2> HIDE DEF items, after
  <2> QED BY <1>1 DEF Row
<1> HIDE DEF after
<1>5. {i \in after.items : i.line \notin sent} = {i \in row.items : i.line \notin sent}
  BY <1>2, <1>4
<1>6. {i.line : i \in after.items} = {i.line : i \in row.items} \cup sent
  <2>1. ASSUME NEW i \in after.items PROVE i.line \in {j.line : j \in row.items} \cup sent
    BY <1>2, <1>4
  <2>2. ASSUME NEW i \in row.items PROVE \E j \in after.items : j.line = i.line
    BY <1>4
  <2>3. ASSUME NEW line \in sent PROVE \E j \in after.items : j.line = line
    BY <1>3, <1>4
  <2> QED BY ONLY <2>1, <2>2, <2>3
<1> QED BY <1>5, <1>6 DEF after

\* When the order an orphan was merged into is still what is stored, the
\* merge keeps its header and every line the payload does not mention.
THEOREM UndisturbedMergesKeepOrder == ConnectorSpec => UndisturbedMergeKeepsOrder
<1> DEFINE before(s) == db[call[s].order]
           after(s) == db'[call[s].order]
           sent(s) == {TaskOf(s).orphans[i].line : i \in DOMAIN TaskOf(s).orphans}
           Kept(s) == /\ after(s).header = before(s).header
                      /\ {i \in after(s).items : i.line \notin sent(s)} =
                         {i \in before(s).items : i.line \notin sent(s)}
                      /\ {i.line : i \in after(s).items} =
                         {i.line : i \in before(s).items} \cup sent(s)
           P == \A s \in Sessions :
                  /\ Stage(s, "upsert") /\ TaskOf(s).row = None
                  /\ Commit(s) /\ job[s].existing = db[call[s].order]
                  => Kept(s)
<1>1. ASSUME SInv, NEW s \in Sessions, Stage(s, "upsert"), TaskOf(s).row = None,
             Commit(s), job[s].existing = before(s)
      PROVE  Kept(s)
  <2>0. /\ IInv /\ TypeOK /\ ServicesTypeOK /\ JobFormed(s)
        /\ call[s].order \in Orders /\ At(s, "commit")
    BY <1>1 DEF SInv, IInv, CallsFormed, Commit, At
  <2>1. before(s) \in Row /\ call[s].want = Merged(before(s), TaskOf(s).orphans)
    BY <1>1, <2>0 DEF JobFormed
  <2>2. TaskOf(s).orphans \in Seq(Item)
    BY <1>1, <2>0, TaskTyped DEF JobFormed, Stage, Task
  <2>3. /\ call[s].want \in Row
        /\ call[s].want.header = before(s).header
    BY <2>1, <2>2, MergedIsRow
  <2>4. after(s) = Written(s)
    BY <1>1, <2>0 DEF Commit, TypeOK
  <2>5. Written(s).items = call[s].want.items
    BY <2>0, WrittenItems
  <2>6. Written(s).header = before(s).header
    <3>1. call[s].seen # None
      BY <2>0, <2>1, NoneAssumption DEF IInv, RowsKnown, At
    <3> QED BY <2>1, <2>3, <3>1 DEF Written, Row
  <2>7. /\ {i \in call[s].want.items : i.line \notin sent(s)} =
           {i \in before(s).items : i.line \notin sent(s)}
        /\ {i.line : i \in call[s].want.items} = {i.line : i \in before(s).items} \cup sent(s)
    <3> DEFINE orphans == TaskOf(s).orphans
    <3>1. before(s) \in Row /\ orphans \in Seq(Item)
      BY <2>1, <2>2
    <3>2. sent(s) = {orphans[i].line : i \in DOMAIN orphans}
      OBVIOUS
    <3> HIDE DEF before, sent, orphans
    <3>3. /\ {i \in Merged(before(s), orphans).items : i.line \notin sent(s)} =
             {i \in before(s).items : i.line \notin sent(s)}
          /\ {i.line : i \in Merged(before(s), orphans).items} =
             {i.line : i \in before(s).items} \cup sent(s)
      BY <3>1, <3>2, MergedLines, Zenon
    <3> QED BY <2>1, <3>3 DEF orphans
  <2>8. after(s).items = call[s].want.items /\ after(s).header = before(s).header
    BY <2>4, <2>5, <2>6
  <2> HIDE DEF after, before, sent
  <2> QED BY <2>7, <2>8
<1>2. SInv /\ [ConnectorNext]_allvars => [P]_allvars
  BY <1>1
<1> QED BY <1>2, SInvAlways, PTL DEF ConnectorSpec, UndisturbedMergeKeepsOrder
=============================================================================
