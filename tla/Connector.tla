------------------------------ MODULE Connector ------------------------------
(***************************************************************************)
(* The requests that meet at the order repository: GET of one order,       *)
(* ingestions and conferences, each on a session of its own, with the      *)
(* faults of OrderRepository.                                              *)
(***************************************************************************)
EXTENDS IngestionService, ConferenceService

VARIABLE
    written    \* history: written[s] are the tasks of the ingestion of s
               \* whose upsert committed, and whose session was told so

services == <<job, check, conferences>>

allvars == <<vars, services, written>>

ConnectorInit ==
    /\ Init
    /\ job = [s \in Sessions |-> NoJob]
    /\ check = [s \in Sessions |-> NoCheck]
    /\ conferences = {}
    /\ written = [s \in Sessions |-> {}]

Unused(s) == job[s] = NoJob /\ check[s] = NoCheck

\* GET /purchase-orders/{client_id}/{po_number}
GetOrder(s) ==
    /\ Unused(s)
    /\ \/ call[s] = NoCall /\ \E o \in Orders : StartFind(s, o)
       \/ EndRequest(s)
    /\ UNCHANGED <<services, written>>

\* Notes the commit of an upsert that an ingestion called.
NoteCommit(s) ==
    written' = [written EXCEPT
                  ![s] = IF Stage(s, "upsert") /\ At(s, "commit") /\ call'[s].at = "evict"
                           THEN @ \cup {Done(s) + 1} ELSE @]

Repository(s) == RepositoryStep(s) /\ NoteCommit(s) /\ UNCHANGED services

Ingestion(s) ==
    /\ check[s] = NoCheck
    /\ IngestStep(s)
    /\ written' = [written EXCEPT ![s] = IF job'[s] = NoJob THEN {} ELSE @]
    /\ UNCHANGED <<check, conferences>>

Checking(s) == job[s] = NoJob /\ CheckStep(s) /\ UNCHANGED <<job, written>>

ServerCrash(S) ==
    /\ Crash(S)
    /\ job' = [s \in Sessions |-> IF s \in S THEN NoJob ELSE job[s]]
    /\ check' = [s \in Sessions |-> IF s \in S THEN NoCheck ELSE check[s]]
    /\ written' = [s \in Sessions |-> IF s \in S THEN {} ELSE written[s]]
    /\ UNCHANGED conferences

CacheLoss(O) == Drop(O) /\ UNCHANGED <<services, written>>

ConnectorNext ==
    \/ \E s \in Sessions : GetOrder(s) \/ Repository(s) \/ Ingestion(s) \/ Checking(s)
    \/ \E S \in SUBSET Sessions : ServerCrash(S)
    \/ \E O \in SUBSET Orders : CacheLoss(O)

ConnectorSpec == ConnectorInit /\ [][ConnectorNext]_allvars

\* The event loop resumes every request that can go on, and PostgreSQL
\* serves its lock queues in order.
ConnectorFairness ==
    \A s \in Sessions :
        /\ WF_allvars(/\ FindStep(s) \/ UpsertStep(s) \/ SessionRefuses(s)
                      /\ NoteCommit(s) /\ UNCHANGED services)
        /\ SF_allvars(LockStep(s) /\ UNCHANGED <<services, written>>)
        /\ WF_allvars(IngestProgress(s) /\ UNCHANGED <<check, conferences, written>>)
        /\ WF_allvars(CheckProgress(s) /\ UNCHANGED <<job, written>>)

FairConnectorSpec == ConnectorSpec /\ ConnectorFairness

(***************************************************************************)
(* Properties                                                              *)
(***************************************************************************)
\* The services use the repository only through its operations: whatever is
\* shown of OrderRepository, for any callers, holds in the whole system.
Repo == INSTANCE OrderRepository WITH Payloads <- Row
ImplementsRepository == Repo!Spec

\* What an ingestion reports as ingested or updated was committed by its own
\* upsert of that task, not by an earlier payload, and the order is still
\* stored, whatever failed before it on the same session or crashed around it.
ReportedOrdersAreStored ==
    \A s \in Sessions : \A i \in DOMAIN job[s].report :
        job[s].report[i] \in {"ingested", "updated"} =>
            i \in written[s] /\ db[job[s].batch[i].order] # None

\* Orphan items never create an order, although find may have answered from
\* a cache entry of any age: only an order with a header of its own does.
OrphansNeverCreate ==
    [][\A s \in Sessions :
          /\ Stage(s, "upsert") /\ TaskOf(s).row = None
          /\ db'[call[s].order] # db[call[s].order] /\ Commit(s)
          => db[call[s].order] # None]_allvars

\* When the order an orphan was merged into is still what is stored, the
\* merge keeps every line the payload does not mention and the header.
UndisturbedMergeKeepsOrder ==
    [][\A s \in Sessions :
          /\ Stage(s, "upsert") /\ TaskOf(s).row = None
          /\ Commit(s) /\ job[s].existing = db[call[s].order]
          => LET before == db[call[s].order]
                 after == db'[call[s].order]
                 sent == {TaskOf(s).orphans[i].line : i \in DOMAIN TaskOf(s).orphans}
             IN  /\ after.header = before.header
                 /\ {i \in after.items : i.line \notin sent} =
                    {i \in before.items : i.line \notin sent}
                 /\ {i.line : i \in after.items} = {i.line : i \in before.items} \cup sent]_allvars

\* A conference that names an order names one that is stored, even when it
\* was checked against a cache entry: its foreign key never fails.
ConferencesReferToOrders ==
    \A c \in conferences : c.found => db[c.order] # None

\* A conference that is answered is stored as it is answered, whatever failed on
\* its session before; one that is not stored is answered with an error.
AnsweredConferencesSaved ==
    \A s \in Sessions :
        check[s].stage = "answered" => Conference(s) \in conferences

\* Every ingestion and every conference is answered, or dies in a crash.
RequestsAnswered ==
    \A s \in Sessions :
        /\ job[s].stage # "none" ~> job[s].stage \in {"none", "answered", "aborted"}
        /\ check[s].stage # "none" ~> check[s].stage \in {"none", "answered", "aborted"}

\* README.md: the cache of a client is invalidated at each ingestion,
\* "garantindo consistencia": once no ingestion runs, no entry is stale.
CacheConsistentAfterIngestion ==
    (\A s \in Sessions : job[s] = NoJob) =>
        \A o \in Orders : cache[o] \in {None, db[o]}

\* README.md: existing items are preserved when orphans are merged; the
\* orphans only add or overwrite their own lines.
OrphansPreserveItems ==
    [][\A s \in Sessions :
          Stage(s, "upsert") /\ TaskOf(s).row = None /\ Commit(s) =>
             \A i \in db[call[s].order].items :
                i \in db'[call[s].order].items
                \/ \E n \in DOMAIN TaskOf(s).orphans : TaskOf(s).orphans[n].line = i.line]_allvars

(***************************************************************************)
(* The inductive invariant behind the properties                           *)
(***************************************************************************)
Job == [stage: Stages \cup {"none"}, batch: Batches \cup {<<>>}, report: Seq(Outcomes),
        existing: Row \cup {None}, unscanned: SUBSET Orders, keys: SUBSET Orders]

CheckRequest == [stage: CheckStages \cup {"none"}, invoice: Invoices \cup {None},
                 found: BOOLEAN, divergences: SUBSET Divergence]

ConferenceRow == [order: Orders, found: BOOLEAN, divergences: SUBSET Divergence]

\* Every variable of the services has its type.
ServicesTypeOK ==
    /\ job \in [Sessions -> Job]
    /\ check \in [Sessions -> CheckRequest]
    /\ conferences \subseteq ConferenceRow
    /\ written \in [Sessions -> SUBSET Nat]

\* What was cached or found once is stored, and what was missed was not seen.
FindsStored ==
    /\ \A o \in Orders : cache[o] # None => db[o] # None
    /\ \A s \in Sessions : LET c == call[s] IN
         /\ c.at = "found" => c.seen \in Row /\ db[c.order] # None
         /\ c.at = "missing" => c.seen = None
         /\ c.at \in {"evict", "stored"} => db[c.order] # None

\* An ingestion calls the repository for the order of its task, merges orphans
\* into a row that was stored, and gets to the eviction only by committing.
JobFormed(s) ==
    /\ job[s].stage = "none" => job[s] = NoJob
    /\ job[s].stage # "none" => job[s].batch \in Batches /\ Done(s) <= Len(job[s].batch)
    /\ job[s].stage \in {"find", "upsert"} =>
         /\ Done(s) < Len(job[s].batch)
         /\ call[s].order = TaskOf(s).order
    /\ Stage(s, "upsert") /\ TaskOf(s).row = None =>
         /\ job[s].existing \in Row
         /\ call[s].want = Merged(job[s].existing, TaskOf(s).orphans)
         /\ db[call[s].order] # None
    /\ Stage(s, "upsert") /\ call[s].at \in {"evict", "stored"} =>
         Done(s) + 1 \in written[s]

\* A conference calls it for the order of its invoice, and found what is stored.
CheckFormed(s) ==
    /\ check[s].stage # "none" => check[s].invoice \in Invoices
    /\ check[s].stage = "find" => call[s].order = check[s].invoice.order
    /\ check[s].stage \in {"flush", "commit"} /\ check[s].found =>
         db[check[s].invoice.order] # None

SInv ==
    /\ IInv
    /\ ServicesTypeOK
    /\ FindsStored
    /\ \A s \in Sessions : JobFormed(s) /\ CheckFormed(s)
    /\ ReportedOrdersAreStored
    /\ ConferencesReferToOrders
    /\ AnsweredConferencesSaved
=============================================================================
