-------------------------- MODULE IngestionService --------------------------
(***************************************************************************)
(* IngestionService.ingest: one request feeds a parsed payload, order by   *)
(* order and then orphan by orphan, through the repository on one session, *)
(* and ends by clearing the client's cache entries with delete_pattern.    *)
(***************************************************************************)
EXTENDS OrderRepository, Sequences

CONSTANTS
    ClientOf,  \* ClientOf[o]: the client_id part of the key o
    Batches    \* the payloads: ParseResult.orders, then its orphan_items

\* One element of a payload: a whole order, or (row = None) the orphan items
\* of an order whose header the payload lacks.
Task == [order: Orders, row: Row \cup {None}, orphans: Seq(Item)]

ASSUME BatchesAssumption ==
    /\ Batches \subseteq Seq(Task)
    /\ \A b \in Batches : b # <<>>
    /\ \A b \in Batches : \A i, j \in DOMAIN b :
         /\ ClientOf[b[i].order] = ClientOf[b[j].order]
         /\ b[i].row = None /\ b[j].row # None =>
              j < i /\ b[i].order # b[j].order

\* The session of an ingestion is at one of these:
\*   "next"      about to take the first of the remaining tasks
\*   "find"      reading the stored order     "upsert"  writing it
\*   "scan"      about to SCAN                "delete"  about to DEL the keys
\*   "answered"  200 sent                     "aborted" 500 sent
VARIABLE job

Stages == {"next", "find", "upsert", "scan", "delete", "answered", "aborted"}

Outcomes == {"ingested", "updated", "discarded", "error"}

NoJob == [stage |-> "none", batch |-> <<>>, report |-> <<>>, existing |-> None,
          unscanned |-> {}, keys |-> {}]

Stage(s, stage) == job[s].stage = stage

\* The report has one entry per task done, so its length is the position.
Done(s) == Len(job[s].report)
TaskOf(s) == job[s].batch[Done(s) + 1]

\* Mutation of Report: a failed order stays in the loop.
ReportOnlySuccess(s, outcome) ==
    job' = [job EXCEPT ![s].stage = "next", ![s].existing = None,
                       ![s].report = IF outcome = "error" THEN @ ELSE Append(@, outcome)]

Report(s, outcome) ==
    job' = [job EXCEPT ![s].stage = "next", ![s].report = Append(@, outcome),
                       ![s].existing = None]

\* Mutation of Merged: the orphans replace the items of the order.
MergedReplacing(row, orphans) ==
    [row EXCEPT !.items = {orphans[i] : i \in DOMAIN orphans}]

\* The dict merged_by_line: the lines of the stored order, each replaced by
\* the last orphan item of that line, if any.
Merged(row, orphans) ==
    LET last == {orphans[i] : i \in {j \in DOMAIN orphans :
                    \A k \in DOMAIN orphans : k > j => orphans[k].line # orphans[j].line}}
    IN  [row EXCEPT !.items =
           {item \in @ : \A l \in last : l.line # item.line} \cup last]

(***************************************************************************)
(* The request                                                             *)
(***************************************************************************)
Ingest(s, batch) ==
    /\ call[s] = NoCall
    /\ job[s] = NoJob
    /\ job' = [job EXCEPT ![s] = [NoJob EXCEPT !.stage = "next", !.batch = batch]]
    /\ UNCHANGED vars

FindExisting(s) ==
    /\ Stage(s, "next")
    /\ Done(s) < Len(job[s].batch)
    /\ StartFind(s, TaskOf(s).order)
    /\ job' = [job EXCEPT ![s].stage = "find"]

UpsertOrder(s) ==
    /\ Stage(s, "find")
    /\ TaskOf(s).row # None
    /\ call[s].at \in {"found", "missing"}
    /\ StartUpsert(s, TaskOf(s).order, TaskOf(s).row)
    /\ job' = [job EXCEPT ![s].stage = "upsert", ![s].existing = call[s].seen]

\* Mutation of UpsertOrphans: an orphan of an unknown order creates it.
UpsertOrphansAnyway(s) ==
    /\ Stage(s, "find")
    /\ TaskOf(s).row = None
    /\ call[s].at \in {"found", "missing"}
    /\ LET empty == [header |-> CHOOSE h \in [Columns -> Values] : TRUE, items |-> {}]
           base == IF At(s, "found") THEN call[s].seen ELSE empty
       IN  StartUpsert(s, TaskOf(s).order, Merged(base, TaskOf(s).orphans))
    /\ job' = [job EXCEPT ![s].stage = "upsert", ![s].existing = call[s].seen]

UpsertOrphans(s) ==
    /\ Stage(s, "find")
    /\ TaskOf(s).row = None
    /\ At(s, "found")
    /\ StartUpsert(s, TaskOf(s).order, Merged(call[s].seen, TaskOf(s).orphans))
    /\ job' = [job EXCEPT ![s].stage = "upsert", ![s].existing = call[s].seen]

DiscardOrphans(s) ==
    /\ Stage(s, "find")
    /\ TaskOf(s).row = None
    /\ At(s, "missing")
    /\ Report(s, "discarded")
    /\ UNCHANGED vars

\* Mutation of CountOrder: the cache is written through with the payload.
CountOrderWriteThrough(s) ==
    /\ Stage(s, "upsert")
    /\ At(s, "stored")
    /\ Report(s, IF job[s].existing = None THEN "ingested" ELSE "updated")
    /\ cache' = [cache EXCEPT ![TaskOf(s).order] = call[s].want]
    /\ UNCHANGED <<db, writer, call, broken, overtaken, tainted>>

\* Counted by what find returned, not by what upsert did.
CountOrder(s) ==
    /\ Stage(s, "upsert")
    /\ At(s, "stored")
    /\ Report(s, IF job[s].existing = None THEN "ingested" ELSE "updated")
    /\ UNCHANGED vars

\* Mutation of RecordError: an order that exists is counted before its upsert.
RecordErrorCounted(s) ==
    /\ job[s].stage \in {"find", "upsert"}
    /\ At(s, "failed")
    /\ Report(s, IF job[s].existing # None THEN "updated" ELSE "error")
    /\ UNCHANGED vars

\* The except clause of both loops; nothing rolls the session back.
RecordError(s) ==
    /\ job[s].stage \in {"find", "upsert"}
    /\ At(s, "failed")
    /\ Report(s, "error")
    /\ UNCHANGED vars

(***************************************************************************)
(* delete_pattern                                                          *)
(***************************************************************************)
ClearCache(s) ==
    /\ Stage(s, "next")
    /\ Done(s) = Len(job[s].batch)
    /\ job' = [job EXCEPT
                 ![s].stage = "scan",
                 ![s].unscanned = {o \in Orders : ClientOf[o] = ClientOf[job[s].batch[1].order]}]
    /\ UNCHANGED vars

\* One SCAN visits some of the slots not visited yet, never all at once for
\* sure, and returns the keys it finds there.
Scan(s) ==
    /\ Stage(s, "scan")
    /\ \E slots \in SUBSET job[s].unscanned :
         /\ slots # {}
         /\ job' = [job EXCEPT ![s].stage = "delete",
                               ![s].unscanned = @ \ slots,
                               ![s].keys = {o \in slots : cache[o] # None}]
    /\ UNCHANGED vars

\* Mutation of DeleteKeys: the SCAN starts over until it finds no key.
DeleteKeysUntilNone(s) ==
    /\ Stage(s, "delete")
    /\ LET again == job[s].unscanned = {} /\ job[s].keys # {}
           client == ClientOf[job[s].batch[1].order]
       IN  job' = [job EXCEPT
                     ![s].stage = IF again \/ job[s].unscanned # {}
                                    THEN "scan" ELSE "answered",
                     ![s].unscanned = IF again THEN {o \in Orders : ClientOf[o] = client} ELSE @,
                     ![s].keys = {}]
    /\ \/ Drop(job[s].keys)
       \/ /\ \A o \in job[s].keys : cache[o] = None
          /\ UNCHANGED vars

DeleteKeys(s) ==
    /\ Stage(s, "delete")
    /\ job' = [job EXCEPT
                 ![s].stage = IF job[s].unscanned = {} THEN "answered" ELSE "scan",
                 ![s].keys = {}]
    /\ \/ Drop(job[s].keys)
       \/ /\ \A o \in job[s].keys : cache[o] = None
          /\ UNCHANGED vars

\* A Redis error here is caught by nobody: 500, although orders were stored.
ClearFails(s) ==
    /\ "redis" \in Faults
    /\ job[s].stage \in {"scan", "delete"}
    /\ job' = [job EXCEPT ![s].stage = "aborted"]
    /\ UNCHANGED vars

EndIngest(s) ==
    /\ job[s].stage \in {"answered", "aborted"}
    /\ EndRequest(s)
    /\ job' = [job EXCEPT ![s] = NoJob]

\* The steps the event loop owes a running request.
IngestProgress(s) ==
    \/ FindExisting(s) \/ UpsertOrder(s) \/ UpsertOrphans(s) \/ DiscardOrphans(s)
    \/ CountOrder(s) \/ RecordError(s) \/ ClearCache(s) \/ Scan(s) \/ DeleteKeys(s)

IngestStep(s) ==
    \/ \E batch \in Batches : Ingest(s, batch)
    \/ IngestProgress(s)
    \/ ClearFails(s)
    \/ EndIngest(s)
=============================================================================
