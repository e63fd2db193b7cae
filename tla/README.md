# Purchase Order Connector: specification and proofs

TLA+ models of the purchase order connector (a FastAPI service over PostgreSQL
and Redis that ingests the purchase orders of several clients, serves them, and
checks invoices against them), the TLC runs that check them on small instances,
and TLAPS proofs about the order repository, the services that run on it, the
three listings, the accounts, the client registry and the algorithms: the
checker, the diff and the adapters. File names without a directory
are files of this one; `…/` stands for `src/src/` of the repository.

## 1. The system

| Component | Code | State | Operations |
|---|---|---|---|
| Order repository | `…/adapters/persistence/purchase_order_repository.py`, `cache_service.py`, `sqlalchemy_models.py` | tables `purchase_orders` and `purchase_order_items`, Redis entries `po:<client>:<number>`, one session per request | `find_by_client_and_number`, `upsert`, `find_many` |
| Ingestion | `…/domain/services/ingestion_service.py`, `…/api/routers/ingest.py` | counters and error list of one request | `ingest`: find and upsert each order, merge orphan items, clear the client's cache |
| Conferences | `…/domain/services/conference_service.py`, `conference_repository.py` | table `conferences` | `check_invoice`, `list_conferences` |
| Invoice checker | `…/domain/services/invoice_checker.py` | none | `check` |
| Client adapters | `…/adapters/clients/*` | none | `parse`, one per client format |
| Authentication | `…/api/routers/auth.py`, `auth_repository.py`, `security.py`, `…/api/dependencies.py` | tables `users`, `refresh_tokens`; access tokens, which only their owners keep | login, refresh, logout, `require_admin` |
| User administration | `…/api/routers/admin_users.py`, `user_repository.py` | table `users` | list, create, update |
| Client registry | `…/api/routers/admin_clients.py`, `client_repository.py`, `database.py` | table `clients`, Redis entry `clients:all`, the connection pool | list, create, update |

A request runs as one coroutine with one SQLAlchemy session (`container.py`,
`database.py`). Requests share only PostgreSQL, its connection pool and Redis,
and interleave at every `await`. Nothing in the code locks, retries or rolls back: what protects
an order is the row lock its UPDATE takes, the unique key on
`(client_id, po_number)` and the unique key on `(purchase_order_id, line)`.

What is hard, component by component, and what must hold all the same:

* **Repository.** A read takes four awaits (Redis, header, items, Redis) and an
  upsert five or six. A late fill overwrites an eviction; header and items come
  from two snapshots; two upserts overlap; the eviction is lost or the process
  dies before it. *Must hold:* a stale entry has one of three known causes and
  does not stay; an undisturbed read is exact; items are replaced as a whole;
  an insert never overwrites; every call returns.
* **Ingestion.** One session serves the whole payload although a failed
  statement leaves it unusable; the report is built from what `find` said.
  *Must hold:* what is reported as stored is stored; orphans create nothing and
  lose nothing when nobody interferes; the request is answered.
* **Conferences.** The order is read through the cache and the conference
  refers to it by a foreign key; conference and divergences are written by two
  statements and listed by two. *Must hold:* the reference never dangles; what
  is answered as saved is saved; a conference is listed once, and whole.
* **Checker.** *Must hold:* an approval means that the order covers the
  invoice; one divergence never hides another.
* **Listing.** A sweep walks backwards through `loaded_at` while re-ingestions
  stamp it anew, from a clock they read before they lock the row. *Must hold:*
  an order nobody stores again is in exactly one page of the sweep; an order
  comes twice only if its time went back; the sweep ends.
* **Diff.** A payload's exact decimals are compared with rounded columns. *Must
  hold:* the changes lead from the one order to the other; an unchanged order
  reports nothing but rounding.
* **Adapters.** Four formats, two of them joins of tables that need not agree.
  *Must hold:* the same orders come out of those that take a load, except that
  Gama has no order without rows; every row is somewhere; one defect in what a
  format reads rejects the payload.
* **Authentication.** The role is checked inside the token, not in `users`;
  refresh does not ask whether its user is active; `revoked_at` is read an await
  before the new token is issued. *Must hold:* a lost role outlives its loss by
  one access token; a deactivated user gets in only on a login that came before;
  a logout ends its refresh token for all but the refresh under way.
* **User administration.** Check-then-act on two unique columns; a rule about
  oneself that two administrators can get around together; a listing by OFFSET
  with a count of its own. *Must hold:* accounts stay unique; only a stale
  administrator can end administration; updates merge; a listing misses and
  repeats no more than creations explain.
* **Client registry.** A listing stores what an update has already evicted; a
  request keeps its connection across Redis commands and while it waits for a
  lock, and needs one again after its commit. *Must hold:* a stale list has a
  cause and does not stay; no wait for a connection and for a lock in a circle;
  updates merge.

`PROJECT.json` lists every hazard at its line with the properties that would
catch it.

## 2. Modules

```
OrderRepository ──┬── IngestionService ──┐
                  │                      ├── Connector ── MCConnector
                  └── ConferenceService ─┘
                          └ INSTANCE InvoiceChecker ──┐              ┌── MCAlgorithms
                            IngestionDiff ────────────┼── Algorithms ┴── AlgorithmProofs
                            ClientAdapters ───────────┘
OrderRepository ──┬── MCOrderRepository
                  └── OrderRepositoryProofs ──┬── ConnectorProofs
                                  Connector ──┘
Accounts ──┬── MCAccounts               ClientRegistry ──┬── MCClientRegistry
           └── AccountsProofs                            └── ClientRegistryProofs
OrderListing ── Listings ──┬── MCListings
                 │         └── ListingsProofs, with instances of the two below
                 ├ INSTANCE ConferenceListing ── ConferenceListingProofs
                 │            └ implements OrderListing
                 └ INSTANCE UserListing ── UserListingProofs
```

**OrderRepository** models `find_by_client_and_number` and `upsert`. One action
per statement sent, so that the statements of several sessions interleave:

| Action | Code (`purchase_order_repository.py`) |
|---|---|
| `CacheHit`, `CacheMiss` | `cache.get`, lines 146-152 |
| `ReadHeader`, `ReadItems` | the SELECT and the second one `selectinload` sends, 154-164 |
| `Fill` | `cache.set`, 168-169 |
| `SelectRow` | upsert's own SELECT, 174-180 |
| `UpdateHeader` | the UPDATE that the DELETE autoflushes, 182-188: waits for the row lock |
| `DeleteItems` | the DELETE of the items, 188-193 |
| `InsertHeader`, `DuplicateOrder` | `flush` of the INSERT, 195-208: waits for the unique key, or violates it |
| `Commit`, `DuplicateLine` | `commit`, 226, which flushes the items, or violates the unique line |
| `Evict` | `cache.delete`, 228-229 |
| `SessionRefuses` | a later statement of a session that was not rolled back |
| `DatabaseFails`, `RedisFails`, `Crash` | a failed statement or command, a dead process |
| `Drop` | an entry leaves Redis: TTL, `delete_pattern`, a restart of Redis |

`db[o]` is the committed row with its items; an uncommitted write is in no
variable but the writer's call record, because READ COMMITTED shows it to
nobody. `writer[o]` is the session that holds the row lock or unique-key entry
of `o`. `call[s]` is the local state of the repository call of session `s`.
`broken` are the sessions SQLAlchemy refuses to use until a rollback.
`overtaken` and `tainted` are history variables: no action is guarded by them.

Three facts about the libraries are built in, each as the code uses it:

* SQLAlchemy's UPDATE names only the columns that differ from the loaded row
  (`Written`). Its identity map holds rows weakly, so the row that `find` loaded
  is gone when `upsert` selects, and the comparison is with upsert's own SELECT.
* PostgreSQL at READ COMMITTED, the default of `create_async_engine`: a
  statement sees what was committed when it began; a failed statement aborts
  the transaction and releases its locks at once.
* A statement, command or commit whose answer is lost raises in the caller
  although it may have taken effect (`Answer`, the second branch of `Commit`).

**IngestionService** runs a payload (`Batches`: whole orders, then the orphan
items of other orders) through the repository. `FindExisting`, `UpsertOrder`
and `UpsertOrphans` start repository calls; `CountOrder`, `RecordError` and
`DiscardOrphans` end a task; `ClearCache`, `Scan` and `DeleteKeys` are
`delete_pattern`. `Scan` visits any non-empty part of what is left, which is all
that Redis promises of a SCAN: a key present throughout is returned, a key
that comes behind the cursor is not.

**ConferenceService** is `check_invoice` and `save`: read, `Verify`,
`InsertConference` (flush, where the foreign key to `clients` bites),
`CommitConference`.

**InvoiceChecker** is the rules of `check` as operators. `Check(order, invoice)`
is a set of results because the dict by material depends on the order the items
come in, which the query leaves open.

**OrderListing** models `find_many`. `StartSweep` is the caller's first request
and `NextPage` one query: `Candidates` are the rows its WHERE selects, `IsPage`
its ORDER BY and LIMIT, and the cursor is the key of the page's last row.
`Parse`, `Select`, `Write`, `Commit` and `Abort` are adapter and `upsert`
again, reduced to what they do to `loaded_at` (`LoadedAt`): the adapter's stamp
for a new order, a stamp taken before the row lock for an old one. `matches`
stands for the four filters, whose columns a commit may change. A sweep changes
nothing, so one is followed; `start`, `touched`, `regressed`, `returned` and
`repeated` are its history.

**ConferenceListing** is the listing of the conferences: the same keyset, over
rows that never change once they are stored. `Check` makes the conference and
its time, `Insert` and `InsertDivergences` are the statements of `save`, which
nobody sees before `Commit`. `SelectPage` is the query and `LoadDivergences` the
second one `selectinload` sends. It implements OrderListing (`ImplementsListing`):
the instance `Listing` maps a conference to an order that is inserted and never
stored again, with `regressed` empty, so that what OrderListing allows to be
repeated or missed because of a re-ingestion cannot happen.

**UserListing** is the listing of the users: `Count` and `SelectPage`, two
statements, a page cut by OFFSET (`IsPage`), and `HasNext` from `build_pagination`.

**Listings** puts the three side by side. Their tables share nothing a listing
could tell, so a behaviour follows one of them, chosen at the start.

**Accounts** is login, refresh and logout, and the administration of users.
`Login`, `SignTokens` and `SaveToken`, `Refresh`, `ReadUser` and `Issue`,
`CreateUser`, `FindEmail` and `InsertUser`, `UpdateUser` and `CommitPatch` are
the steps of a request in their order. `SignTokens` and `Issue` read the clock
and have no statement: between the SELECT of the user and them is an await (and
bcrypt), so another request may change the row while they hold it. `Logout` is
one action, because nothing that happens between its two statements could undo
either. `access` is the set of access tokens in the world: the server keeps
none, and asks of one only its role and its expiry (`Administrators` is
`require_admin`). `since`, `overtaken` and `strays` are history: when a column
changed, which requests held the row when it did, and the tokens these made of
it, which are good for longer than the change would allow otherwise. `Changes`
are the columns SQLAlchemy's UPDATE names. `Owner`, a constant, fixes who may be
given which refresh token and so bounds the logins of a user; in the proofs it
is any function.

**ClientRegistry** is `/admin/clients` over its table, the one Redis entry that
holds the whole list, and the connection pool. `Connect` takes a connection with
the first statement of a session or after its commit, `Close` is the end of
`get_session`; `PoolTimeout` is a wait in vain. `Refresh` is `session.refresh`,
which needs a connection after `Commit` gave its own back: a request may store
its client, wait in vain, answer 500 and leave the cached list.

**ClientAdapters** is `parse` of the four formats, **IngestionDiff** is
`_diff_orders` and the rounding of the NUMERIC columns. **Algorithms** computes
them, and `Check`, one input per behaviour, whatever inputs of the form the code
has (`InputsAssumption`); `MCAlgorithms` is the inputs of the run. `Normalised`
writes one load in the four formats, in boxes and centavos for Gama. A load may
be unsound: a header that lacks its number or something else, rows without a
number or without a header, rows that cannot be read, boxes that hold nothing,
and rows that end too early. Beta drops an item without a header, but names its
number, material and line in the warning: where the CSV reader filled one of
them with None, `.strip()` raises and the whole payload is rejected. `Selected`
is what grouping rows by their order keeps, in the order they came. It is the
community modules' `SelectSeq` said by its result, because the recursion of that
operator cannot be expanded in a proof.

**Connector** puts them together: each session serves a GET, an ingestion or a
conference; a crash ends any set of sessions. It states the properties that
span components (`ReportedOrdersAreStored`, `AnsweredConferencesSaved`,
`ConferencesReferToOrders`; the history variable `written` remembers which tasks
of an ingestion committed their upsert), and `ImplementsRepository`: the system as a whole is an
implementation of `OrderRepository` with arbitrary callers (a refinement with
the identity mapping, `Payloads <- Row`). TLAPS proves it, so what is proved of
`OrderRepository` for any payloads holds of the whole system.

Abstractions: a header is a function from a few columns to a few values; an
item is a line and a content; `id` and `created_at` never change after the
first insert and are left out; `loaded_at` is left out (it always differs, which
is why a re-ingestion always sends an UPDATE and takes the lock);
`_serialize` and `_deserialize` lose nothing of a row, so an entry is a row.
Money and quantities in the checker are integers in the smallest unit; the
quotient `total_value / quantity` is multiplied out, so the 28 digits of
`Decimal` are not modelled. In the adapters a row keeps its number, its line,
its amounts, one flag for "its material and line are there and all it holds can
be read", and one for a row too short for them: how the text of a date, a tax id
or a decimal is read is left out, and that some formats have a default for an
absent quantity or price and others demand it. All amounts are
integers of either sign in a unit finer than the columns, so that quotients are
exact and rounding is visible; halves are rounded away from zero, as PostgreSQL
does. In Accounts passwords, hashes and signatures work: only who
knows a password logs in with it, only the server signs, and a refresh token is
its row. In the listings one flag stands for the filters, and a row keeps its
key.

## 3. Runs

All runs finish within five minutes with two workers.

| Run | Instance | Shows |
|---|---|---|
| `repository` | 2 sessions, 1 order, 3 payloads (one with a repeated line), every fault, fairness | `StaleEntryHasCause`, `UndisturbedReadIsCurrent`, `ItemsReplacedWhole`, `UndisturbedCommitStoresOrder`, `InsertNeverOverwrites`, `CallReturns`, `CacheConverges` |
| `algorithms` | orders of up to 2 items, invoices of up to 2 lines, amounts on both sides of each limit and rounding point, loads of up to 3 item rows, with and without a header and a number, at most one row unreadable, too short or in empty boxes, and at most one unsound header | `ApprovedIsCovered`, `EveryDivergenceListed`, `DiffExplainsUpdate`, `OnlyRoundingReported`, `FormatsAgree`, `DefectRejects` |
| `listing` | 2 sessions that write; 2 orders, 3 conferences in pages of 1, 2 times; 4 users in pages of 2, 4 times; any filter, fairness | `SweepCoversUntouched`, `RepeatsAreRegressions`, `SweepEnds`; `EachListedOnce`, `ListedWhole`, `ImplementsListing`; `UserSweepErrs` |
| `services` | 2 sessions, 1 order, whole and as an orphan, reads, conferences, a Redis that fails | `OrphansNeverCreate`, `UndisturbedMergeKeepsOrder`, `ConferencesReferToOrders` |
| `payloads` | 1 session, 2 orders, payloads of two tasks, conferences, every fault, fairness | `ReportedOrdersAreStored`, `AnsweredConferencesSaved`, `ImplementsRepository`, `RequestsAnswered` |
| `connector_live` | 2 sessions, 2 orders, a payload of an order and an orphan and one that meets it at that order, reads, database faults, fairness | `RequestsAnswered` |
| `registry` | 2 sessions, 1 client to create and patch, a pool of 1 or 2 connections, every fault, fairness | `ListHasCause`, `LockHoldersConnected`, `PatchKeepsOtherColumns`, `UndisturbedPatchApplied`, `RequestEnds`, `ListConverges` |
| `accounts` | 2 sessions, the administrator and another to create, who may be demoted and deactivated, 2 usernames and emails, one refresh token each, lifetimes 0 and 1 on a clock of 3 times | `AccountsUnique`, `StaleRoleExpires`, `InactiveAccessEnds`, `LogoutEndsAccess`, `OnlyStaleAdminsEndAdministration`, `PatchesMerge` |

Bounds. Orders do not interact inside the repository: every action names one
order and a transaction writes one, so one order suffices there, and two are
used where a payload spans orders. `RequestsAnswered` takes two runs. In
`payloads` one session meets every fault at every task: a statement that fails at
the first order leaves the second one a broken session, a Redis command fails in
`find`, `upsert` or the SCAN, a process dies in between. In `connector_live` two
ingestions wait for one row, a holder of its lock fails, both clear two keys, and
the reads of either put an entry back behind the other's SCAN. Two sessions already produce every pairwise
race of a repository call. The payloads differ in
every column and line, so that any mixture of two is seen. The proofs remove
these bounds for the properties they cover. In `listing` two orders with equal
and with different times already make a page boundary between them, and two
sessions the commits in the wrong order; three conferences leave one behind the
cursor, one at it and one ahead, and the users have more times than a sweep has
pages. In `registry` a pool of one makes every second statement wait. In
`accounts` an access lifetime of 0 is one that ends before the refresh token's,
and the clock outlasts both; the patches only take a role or an account away, which
is when a token outlives its right (the proofs hold for any patches); a third user can be created beside a rival for his
name. Bounded, too, are the logins (`Owner`), the clocks (`MaxTime`, `UserTime`)
and the ids, of which there are as many as are used.

Two runs may stop, hence `CHECK_DEADLOCK FALSE`: `algorithms` takes one step per
input, and in `listing` the ids of conferences and users run out. Every other
run checks for deadlock.

Four runs are expected to fail. Each states a sentence of the documentation and
shows a behaviour of the code that contradicts it:

| Run | Sentence | What happens |
|---|---|---|
| `last_write_wins` | docs/visao-geral.md:142 "last write wins" | Two overlapping upserts each update only the columns they saw differ: the stored header is a mixture. |
| `stale_after_ingestion` | README.md:347 the cache is invalidated, "garantindo consistência" | A read that began before the ingestion fills the cache after it. |
| `orphan_overwrites` | README.md:323 existing items are preserved | Two merges based on the same read: the second deletes the item of the first. |
| `order_lost` | README.md:281 "nenhum registro é perdido ou repetido" | An order re-ingested before the sweep reached it moves ahead of the cursor and is in no page. |

Three more divergences are visible in the models and have no run of their own.
README.md:113 says that `updates` details what changed, field by field;
`_diff_orders` compares no material, description or unit of a line that stays
(`Compared`), and reports a price that did not change when it has more than four
decimals, as a Gama price may (`OnlyRoundingReported` bounds this). README.md:247
says that a status other than `open` blocks everything; the conference reads
through the cache, so the stale entry of `stale_after_ingestion` is what it
checks against. docs/visao-geral.md:123 says that every conference is saved; one
whose `client_id` has no row in `clients` violates the foreign key in
`InsertConference` and is answered by a 500 (`AnsweredConferencesSaved` says that
it is at least not answered as saved). (The TTL itself is 600 seconds in the code
and 5 minutes in README.md:347; no model depends on its length.)

## 4. Fairness

`Fairness` of OrderRepository assumes three things. A call that can take its
next statement takes it (`WF`): the event loop resumes a ready coroutine. A
session that waits for a lock gets it when the lock is free again and again
(`SF` of `LockStep`): PostgreSQL queues the waiters of a lock. Every entry leaves
Redis (`WF` of `Drop`): `setex` always passes a TTL. Faults, crashes and callers
are not fair, so nothing depends on their happening. `ConnectorFairness` is
the same with the steps of the two services.

`Fairness` of ClientRegistry is the same (`SF` of `WriteStep` for the lock
queue, `WF` of `Expire` for the TTL) and adds the pool: a session that waits for
a connection gets one or times out (`WF` of `ConnectStep \/ PoolTimeout`), and
which of the two is left open, so no property relies on a connection coming free.

OrderListing, ConferenceListing and Listings assume only that the caller of a
sweep asks for the next page (`WF`); nothing limits how often writers come in
between, only the clock is bounded. UserListing and Accounts claim no liveness.

## 5. Proofs

Every theorem holds for any values of the constants that satisfy the named
assumptions of its module (`ConstantsOK` of ConferenceListing and of UserListing
is a hypothesis of their theorems, and Listings assumes both, so that TLC
evaluates them). Every safety property of every passing run is stated by one.

`OrderRepositoryProofs` proves, for any sets of orders, sessions, columns,
lines and payloads, and any faults, the safety properties of the `repository`
run: `TypeCorrect`, `StaleEntriesExplained`, `ReadsAreCurrent`,
`ItemsAreReplacedWhole`, `UndisturbedCommitsAreExact` and
`InsertsNeverOverwrite`. Its assumptions are `PayloadsAssumption` (callers
pass whole orders) and `NoneAssumption` (None is not an order, a row or a
session). None of the properties is inductive. `IInv` adds what makes them so:

* `CallsFormed`: what a call record holds at each step;
* `LocksHeld`: `writer[o]` names exactly the session between its flush and its
  commit of `o`, so at most one session rewrites an order;
* `RowsKnown`: a row once read is still there (rows are never deleted); a row
  found missing is still missing while the INSERT holds its key; the DELETE
  under the lock saw all the items there are;
* `ReadsCurrent`: what a call that was not overtaken has read is what is stored;
* `BrokenSessionsIdle`: a broken session is never inside a transaction.

`ItemsReplacedWhole` follows from `LocksHeld` and `RowsKnown`: the writer's
DELETE saw the items of the row it now commits, so removing them and adding its
own leaves its own. `StaleEntryHasCause` is preserved by `Fill` because of
`ReadsCurrent`, by `Commit` because the committing call then owes an eviction,
and by a lost eviction because it taints the entry. There is one lemma per
action, `NextKeepsIInv` puts them together, and each theorem closes with PTL.

`ConnectorProofs` proves the properties of the `services` and `payloads` runs,
from the assumptions above, `BatchesAssumption` (orders come before orphans in a
payload, and both are of one client) and `InvoicesAssumption` (an invoice names an
order key). `ServicesImplementRepository` is the refinement: under `SInv` every
step of the system is a step of the repository for callers that may upsert any
row, or leaves it alone (`ConnectorStepIsRepositoryStep`), because a task and an
invoice name order keys and a merge gives a row (`TaskTyped`, `MergedIsRow`).
`SInv` is `IInv` with what the services rely on: `FindsStored` (whatever is cached
or was found is stored, and rows are never deleted: `RowsStay`), `JobFormed` (an
ingestion calls for the order of its task, merges into a row it found, and is past
the commit of an upsert only when `written` has it) and `CheckFormed`. One lemma per service shows what its own steps keep
(`IngestStepForms`, `CheckStepForms`), `EvictionFollowsCommit` that a call is past
its commit only by committing, and `FormedStays` that nobody else's step
disturbs it. `FindsStored` is what `OrphansNeverCreate` and
`ConferencesReferToOrders` come down to: however old the entry they read, its
order is there. `UndisturbedMergeKeepsOrder` needs `LastOfLine`, that among the
orphans of one line there is a last, from the well-foundedness of the naturals.

`ListingsProofs` first proves `SweepsCoverUntouched` and `OnlyRegressionsRepeat`
of OrderListing, for any orders, ingestions and page size. `LInv` adds `UntouchedAhead` (while the
sweep runs, an untouched order was returned or lies ahead of the cursor) and
`ReturnedBehind` (what was returned and did not go back lies behind it).
`NextPage` keeps both because a page is closed upwards in the order of the keys
and its last row becomes the cursor; `Commit` because it touches the one order
it moves. No step of the argument counts rows: it holds for every page that
`IsPage` allows. Then it carries the proofs over to Listings: a behaviour of
Listings is one of OrderListing, ConferenceListing or UserListing with the other
two at rest, so each property holds there too (`ListingsCoverUntouched`,
`ListingsRepeatRegressions`, `ReportListsOnce`, `ReportListsWhole`,
`UserSweepsErrLittle`).

`ConferenceListingProofs` proves `ConferencesListedOnce`,
`ConferencesListedWhole`, and the refinement `ImplementsOrderListing`
(`Spec => Listing!Spec`). `CInv` says that a conference being saved has an id of
its own that nobody stored (`SavesFresh`), that a stored one is whole
(`RowsWhole`), and of the sweep what `LInv` says, without exceptions for what is
touched or regressed, because a commit adds a row and moves none (`StartAhead`,
`ListedBehind`). For the refinement each action has a lemma that names its
counterpart: `Insert` is `Select` of a row that is not there, `InsertDivergences`
is `Write` of a key nobody else holds, and `LoadDivergences` is a stutter,
because OrderListing counts a page as returned once it is selected. The writer
of a key is a CHOOSE, which `WriterIs`, `WriterIsNone` and `SameWriter` settle.

`UserListingProofs` proves `SweepErrsBounded` for any number of users and any
page size. The offset of a page says nothing of which users come before it, so
`UInv` speaks of the head of the list: the users before the offset, in any order
the query may give them (`IsHead`). A new user, wherever he comes in the list, pushes the others only
towards the end, so whoever was there from the start and is now in the head has
been returned (`HeadReturned`), and each new user pushes at most one that was returned out of the head, where
the next page meets it again (`PushedBack`, which counts them). `CountIsOld`
says that the rows the count does not know of are those of `late`; at the last
page, which `LastPageReachesTotal` puts at the end of what was counted, as many
may be missed. `HeadBefore` is the lemma behind both: the head after a creation
is the head before it with the new user in and at most one out. With equal times
the query may order the rows anew each time, and nothing of this holds
(`NoTies`).

`AccountsProofs` proves the six properties of the `accounts` run, from the
assumptions on the seed, the lifetimes and the requests. `AInv` adds
`TokensFormed` (a token lasts at most its lifetime from now), `RolesRead` (a
request holds the role its user has, unless a change overtook it, or came after
a login had made its tokens) and `InactiveLeftovers` (whatever an inactive user
still has goes back to before he was deactivated), besides what each request
holds. `StaleRoleExpires` needs them together: a token is made of the role a
login or a refresh read, which may be old by the time it is made, and older when
it is stored; and Tick, which forgets a change, may do so only once no token can
precede it. No bound without `strays` is provable, since nothing limits the time
between the SELECT and the reading of the clock.
`OnlyStaleAdminsEndAdministration` follows from `SelfAllowed` and the uniqueness
of the row an update writes: the last administrator can only have been changed
by another, and another who is active would still be left.

`ClientRegistryProofs` proves the four safety properties of the `registry` run.
`RInv` adds `RequestsFormed` (who has selected still holds his connection),
`RowsKnown` (only the holder of a key's lock creates it, and rows are never
deleted) and `ReadsCurrent`. `LockHoldersConnected` is what excludes a circle of
pool and lock queue: a lock is taken only on a connection, and `Commit` and
`Close` give both back at once.

`AlgorithmProofs` proves the six properties of the `algorithms` run for every
order, invoice and load, of any length and with any amounts. What is assumed of
them, `InputsAssumption`, is the form the code gives them: quantities of an
invoice are positive (the request schema says so); the headers of a load name
an order once, and a row whose boxes hold something counts whole boxes at whole
centavos, because others cannot be written in Gama's format. Each algorithm has a theorem of its
own about its operators, from which the one about the behaviours follows with
`AInv` (the input is one given, the result one the algorithm computes of it):

* `ApprovalIsCovered` and `DivergencesAreListed` go through `LineDivergences`,
  what the checker says of one line against whichever item of its material it
  is compared with.
* `DiffsExplain` names the last item of each line (`LastExists`, `ByLineIs`),
  then the changes, one kind at a time (`ChangesAre`).
* `RoundingIsReported` rests on `RoundedIs`: an amount and its rounding differ by
  at most half a digit, and not at all exactly when the amount fits.
* `SoundLoadsAreTaken` reads off what each format rejects (`AlfaTakes` to
  `GamaTakes`).
* `OrdersAgree` shows that Alfa, Beta and Delta make the orders `Made`, header
  columns and items in their order, and Gama those of them that have items.
  `AscendingExists` and `AscendingUnique` show that what `Selected` chooses is
  one enumeration: a set of least size without it cannot be, nor a first
  position where two differ. So the rows of an order are the same whether or
  not the others were put aside before (`RowsOfRowsIn`), and the same positions
  of Gama's rows (`GamaOrderIs`); `GamaConverts` shows that boxes and centavos
  come back as the pieces and prices they were.
* `RowsAreCarried` counts the items of an order by the bijection with the rows
  they were made of (`OccurrencesIn`), and warnings and orphans likewise.

## 6. What is only model-checked, and what is not modelled

Only model-checked: all liveness (`CallReturns`, `CacheConverges`, `SweepEnds`,
`RequestsAnswered`, `RequestEnds`, `ListConverges`, and the fairness part of
`ImplementsListing`), which TLAPS cannot prove because it has no ENABLED; and the
four runs that show a contradiction.

Not modelled, and why:

* Schemas, logging, configuration, `main.py` and the health check hold no state
  that an operation changes.
* In the adapters, how the text of a date, a tax id or a decimal is read: one
  flag says whether a field can be read. A number that cannot is a 500 instead
  of a 422, and the models do not tell the answers apart.
* Migrations other than the keys and seeds, which are in the models that depend
  on them.
* `find_by_id` of the conferences reads one row of those that never change.
* The checker compares each line of an invoice with the pending quantity on its
  own. The documented rule is per line; that two lines of one material may
  together exceed the order contradicts no sentence, so no property says so.
* The pool is modelled where a request needs a second connection
  (ClientRegistry). In OrderRepository every session has a connection; a read
  there takes one once and keeps it, as the writers in ClientRegistry do.

What a next stage would add: an abstract store with atomic reads and writes that
the repository implements as long as no commit overtakes a call; the safety part
of `ImplementsListing` stated of Listings as well.
