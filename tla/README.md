# A TLA+ model of the FOC platform

This directory holds TLA+ modules that model the FOC platform, TLC
configurations that check them on small instances, and TLAPS proofs of the
properties that matter most for every instance. File and line references are
relative to the repository (`src/contracts/...` is `contracts/...` at its root).

    tlc -config registry_ledger.cfg MCFocPlatformRegistry
    tlc -config coordinator_safety.cfg MCHostedCoordinator
    tlc -config scripts.cfg MCOperatorScripts
    tlapm HostedCoordinatorProofs.tla

## 1. The system

A user asks the platform to store a file with a number of copies. The request
is reserved on chain; a hosted coordinator sends the bytes to Filecoin Onchain
Cloud (FOC), and records the outcome on chain; dashboards, the admin API and a
reconciler read the chain and check that it adds up.

| component | state | operations | works with |
|---|---|---|---|
| **Registry contract** `contracts/FocPlatformRegistry.sol` | upload records, per-account counters, idempotency keys, coordinators, relayers, datasets, policy, linked lists of ids | request / start / finalize / fail / cancel / expire an upload; set policy, coordinator, relayer; record a dataset; transfer ownership; views | everything below calls it or reads it |
| **Hosted coordinator** `src/coordinator/*.mjs` | in-memory idempotency store: per operation key `running`, `pending_finalize` (with a receipt), `completed`, `failed` | `executeUpload`; `receipts.mjs` maps FOC's answer to a receipt | registry transactions, FOC client, clock, session key |
| **Event read model** `src/registry/read-model.mjs` | objects, usage, datasets, copies folded from events | `applyRegistryEvents`, call encoders | events of the registry |
| **Direct-read adapter, TokenHost client** `src/demo/tokenhost-wrapper.mjs` | cursors and pages of one traversal | page readers, `readRegistryModel`, `readAdminSurfaces` | registry views, across blocks |
| **Admin surfaces and reconciliation** `src/admin/reconciliation.mjs` | none | `buildAdminSurfaces` | a read model |
| **Platform API** `src/api/*.mjs` | a counter for keys it makes up | create upload, TokenHost create-or-resume, byte upload, status, object, usage; admin routes | registry adapter, coordinator; direct reads |
| **Calibration dashboard** `src/worker/calibration-demo.mjs` | in the page: view, positions, last pagination, controls, timer | Worker routes, page-scoped reconciliation; the paging script of the page | direct reads |
| **Development spine** `src/dev/upload-spine.mjs` | none | one fixed sequence on Anvil: deploy, set relayer and coordinator, request, start, finalize; then reads the state and folds the receipts' events | registry, event read model |
| **Calibration scripts** `scripts/run-calibration-registry-demo.mjs`, `seed-calibration-registry-fixtures.mjs` | evidence file, summary file | resumable sequences of transactions | registry |
| **Tooling** `scripts/check-*`, `generate-*`, `validate-*`, `WorkspaceSentinel.sol`, generated types | none | one-shot checks and generation | - |

### What is hard in it

* **Counters** (registry): seven functions add to and subtract from nine
  counters per account. A counter that drifts low makes the checked
  subtractions of *every* closing function revert, which locks uploads and the
  account's quota for ever.
* **Lists** (registry): every live upload is on two intrusive doubly linked
  lists; closed ones stay as tombstones so that page cursors can go on; long
  tombstone chains run into a traversal limit.
* **Races on one upload**: finalization against expiry, cancellation, another
  coordinator, the end of a session, a change of policy; requests repeated
  under one idempotency key.
* **Coordinator**: two worlds, FOC and the chain, without a common
  transaction. Calls fail after they took effect; the clock and the session
  move during long calls; a restart loses the in-memory store.
* **Readers**: pages and events of a moving chain, read in pieces: an indexer
  that starts late, logs joined out of order, cursors whose object was closed,
  surfaces read at different blocks and compared as if they were one.
* **API**: a byte upload is several requests to the registry and the
  coordinator; a client repeats one whose answer it lost, two clients use one
  key, two isolates make up the same key.
* **Page script**: loads overlap, answers come in any order or fail, buttons of
  the last answer stay while the next one travels.
* **Scripts**: runs are stopped between two transactions, give up waiting for
  one that is mined later, are run again with another environment, or overlap.

### What makes each component correct

* Registry: totals equal sums; one upload per key; each upload closed once, in
  time, within its reservation; the cap holds; lists and pages are exact.
* Coordinator: the bytes go to FOC once per upload; what FOC accepted is
  recorded or provably cannot be any more; every attempt ends.
* Receipts: what the coordinator makes of FOC's answer is what the contract
  accepts.
* Readers: a fold of the events is the contract's state; a traversal misses no
  upload that was there throughout; a report raises no error about what did not
  move.
* API: bytes go to the upload that was requested with them, and an answer is
  true.
* Page script: what is shown is what was asked for last, and paging skips
  nothing.
* Scripts: files they write are true, reruns finish, nobody's upload but their
  own is carried on.

## 2. The modules

| module | what it is |
|---|---|
| `FocPlatformRegistry` | the contract: one action per external function that changes state |
| `ActiveIndex` | the linked lists: insertion, removal, the paging walk, what a well-linked list is |
| `RegistryViews` | the listing views, on top of the contract |
| `UploadLedger` | the abstract specification the contract implements |
| `Totals` | sums over finite sets, as cardinalities |
| `HostedCoordinator` | the coordinator process, `EXTENDS FocPlatformRegistry`: process and chain in one specification |
| `CoordinatorReceipts` | `receipts.mjs`, a pure function, beside the contract's own checks |
| `ReadModel` | `read-model.mjs`, a pure function: the fold of events |
| `Reconciliation` | `reconciliation.mjs`, a pure function: rows and checks of a read model |
| `EventProjection` | contract with its events + an indexer that folds them with `ReadModel` and reports with `Reconciliation` |
| `DirectReads` | contract views (`RegistryViews`) + the admin traversal of `tokenhost-wrapper.mjs`, read by read, reported on with `Reconciliation` |
| `DashboardReport` | the worker's page-scoped reconciliation and session labels, in the states of `DirectReads` |
| `DashboardPager` | the script of the dashboard page and the worker's pagination answers |
| `PlatformApi` | the routes of `platform-api.mjs`, from `await` to `await`, over an external registry adapter |
| `OperatorTransactions` | the operator's transactions: sent by nonce, mined in order, reverted if the contract refuses |
| `CalibrationDemo` | `run-calibration-registry-demo.mjs` on `OperatorTransactions` |
| `FixtureSeeder` | `seed-calibration-registry-fixtures.mjs` on `OperatorTransactions` |
| `OperatorScripts` | both scripts with one key on one registry |
| `MC...` | small instances for TLC |
| `FocPlatformRegistryProofs` | lemmas about the structures (linked lists, the paging walk, sums, induction over numbers) and theorems about the registry: types, indexes, counters, keys, terms, how uploads end, the enumeration lists, the cap, the refinement of `UploadLedger` |
| `DirectReadsProofs` | theorems about the pages of the views and the traversals made of them |
| `ReportProofs` | theorems about the reports on a traversal and on one page |
| `HostedCoordinatorProofs` | theorems about the coordinator and its receipts |
| `EventProjectionProofs` | theorems about the projection and the report on it |
| `PlatformApiProofs` | theorems about the API |
| `DashboardPagerProofs` | theorems about the page's script |
| `OperatorScriptsProofs` | theorems about the two scripts |

### The contract: state and actions

A transaction is atomic, so each external function is one action; a call that
reverts changes nothing, so every `revert` is a guard. `msg.sender` is the first
parameter. `block.timestamp` is `now`, moved by `Tick`; any number of
transactions may share a timestamp. Mappings are functions, enum values are
strings, `0` is "no object id", `Zero` stands for `bytes32(0)`, `address(0)` and
the empty signature.

| Solidity | TLA+ |
|---|---|
| `_objects` | `objects`, records without the hashes and timestamps nothing reads |
| `_copyReceipts`, `_receiptPayers` | `receipts`: payer and number of copies recorded |
| `_usage` | `usage` |
| `_objectByIdempotencyKey` | `objectByIdempotencyKey` |
| `_activeObjectIndexed/Count/Head/Prev/Next` | `activeIndexed`, `activeCount`, `activeList` |
| `_accountActiveObject*` | `accountActiveList` |
| `_accountObjectHeads/Next` | `accountObjectList` |
| `_accountIds`, `_known*`, `_coordinatorAddresses`, `_relayerAddresses`, `_datasetKeys` | sequences; a `_known...` mapping is membership of its sequence, since both are only ever set together |
| `_requireActiveCoordinator`, `_requireMutableObject`, `_requireNotExpired` | `ActiveCoordinator`, `MutableObject`, `~Expired` |
| `_validateRequestPolicy`, `_authorizeRequest` | `ValidRequest`, `AuthorizedRequest` |
| `_validateReceipt`, `_statusFromReceipt` | `ValidReceipt`, `CopiesMatchStatus` |
| checked `uint256` arithmetic | `Releasable` (subtractions) and `Fits` (additions, width `MaxUint`) are guards |

An EIP-712 signature is modelled by the address `ecrecover` returns for the
digest of *this* request; `Zero` is the empty signature, which makes the sender
itself answer for the request. A relayed or replayed signature is a signer that
differs from the sender. The status `Deleted` exists in the enum, and
`_isTerminal` knows it, but no function assigns it; the model leaves it out.
`maxFinalizeDelay` and `permissionsHash` are stored and never read by the
contract. Timestamps (`uint64`) are taken not to overflow.

### The abstract specification

`UploadLedger` knows neither lists, keys' mappings nor counters that are
updated: a book with one entry per upload that is opened under a fresh claim,
then settled in time and within its terms, or released; and totals that *are*
the sums over the book. `FocPlatformRegistry!Ledger` instantiates it with the
book read off `objects` and the totals read off `usage`
(`ImplementsUploadLedger`). Steps of the contract that change neither (start,
administration, time) stutter.

### The coordinator: state and actions

`executeUpload` is an `async` function in a single-threaded process: between two
`await`s nothing interferes, so **an action is the stretch from one `await` to
the next**, and the variable `call` holds, per operation, the `await` at which
its call is suspended. An operation is an idempotency key of the coordinator
(account, object and client key); several operations may name one object. A
call that finds its operation running, completed or failed answers at once from
the store and changes nothing, so at most one call per operation is suspended
and calls are indexed by the operation.

| code | TLA+ |
|---|---|
| `idempotencyStore`, its `running` / `pending_finalize` / `completed` / `failed` entries, or none | `store` |
| the suspended call: at `readUploadObject` (`read`, `recheck`, `recover`, `readPending`), `startUpload`, `focClient.upload`, `finalizeUpload`, `failUpload` | `call` |
| lookup, session check, `set(key, running)` | `ExecuteUpload` |
| `executePreparedUpload` up to FOC | `ObjectRead`, `StartAnswered`, `ObjectReadAgain`, `SendBytes` |
| the answer of FOC; the expiry check after it, mapping of the result | `UploadAnswered`, `BytesStored`, `BytesNotStored` |
| `finalizePreparedReceipt`, `recoverFinalizedUpload` | `FinalizeAnswered`, `RecoveryRead` |
| `finalizePendingReceipt` | `PendingRead`, `PendingReadFailed` |
| `failPreparedUpload` | `FailAnswered` |
| the `catch` of `executeUpload`: which errors free the key, settle it, or keep the receipt | the entry that `Return` leaves: `Absent`, `Failed`, `PendingFinalize(r)` |

Around the process:

* **The chain.** A transaction that is sent goes to `sent`. `Mined` takes one
  out and performs the registry's own action on it, at any later time or never,
  also after the call was told of an error or the process died; a transaction
  the registry would refuse stays where it is, which is what a reverted one
  amounts to. The adapter reports success only for a mined transaction, and may
  report an error for any. Two identical pending transactions are one, since
  the second would revert.
* **FOC** may accept the bytes and still report an error (`accepted` counts
  acceptances per object; no code reads it, two properties do), or accept them
  after the process has died.
* **Rivals and users.** Other coordinators start, finalize and fail the same
  uploads; users cancel, anyone expires, the owner revokes; every one of these
  steps is an action of the registry module.
* **Crash.** The process restarts with an empty store and no calls; the pending
  transactions and the bytes on their way remain.

Abstracted: the validation of the bytes against the request (a rejected call
changes nothing), metadata, and the mapping of a FOC result to a receipt, of
which only the outcome matters here (a receipt of `FocReceipts`, or none; the
mapping itself is `CoordinatorReceipts`). A request
that does not match the registry's acts like a failed read: the key is freed.
Clients name uploads that were requested. The coordinator's clock is the
chain's. FOC's errors are taken not to carry the coordinator's own error codes.

### Receipts

`CoordinatorReceipts` translates `mapSynapseResultToUploadReceipt` as a function
of an answer of FOC (the outcome it names, if any, the copies it lists and those
it claims, cost, whether the piece is identified, and the payer: an address, the
zero address, or no address at all) and of the request. It extends the contract, so that "the contract settles with this receipt" is the
contract's own `ValidReceipt` and `CopiesMatchStatus`.

### Event projection

`ReadModel` has one operator per event that `applyRegistryEvent` handles; a
JavaScript object used as a map is a function on the keys that are present, an
object row has the fields that some event set. `EventProjection` gives each
action of the contract the events its Solidity function emits, in their order,
and puts them into `pending`. The indexer starts at any block (`from`; what was
emitted before is lost to it) and folds a prefix of the log at a time: with
positions, the two halves of the prefix in either order, as two log queries
answer; or without a position on the last, in log order, which is what
`orderedRegistryEvents` leaves alone.

### Traversals and reports

`DirectReads` answers one admin request: `AdminRequest` picks the route and with
it the surfaces (`registrySurfacesForRoute`), `ReadPage` reads one listing page
at the current block, `ReadDetail` one object, copy list, payer or offset row,
the details of a page by `DetailConcurrency` workers in the order of the page;
between any two reads the registry takes any step (`RegistryMoves`). `EndOfPage`
is what the loops of `mergeObjectPages` and `forEachOffsetPage` do: last page,
a cursor that did not advance, the page bound. An active listing that reverts on
the traversal limit is read again from the head (`ObjectPage`). The answer is
`BuildAdminSurfaces` of the model that was put together. `dueIds`, `dueLengths`
and `moved` are history and only say what the answer owes.

`DashboardReport` puts one page into an otherwise empty model, as the worker
does, and drops the codes of `PAGE_SCOPED_RECONCILIATION_OMITTED_CODES`.

### The dashboard page

Each event handler of the script is an action: `Navigate`, `ChangeControl`,
`TypeText` and the timer it sets (`SearchTimerFires`), `ClickNext`,
`ClickFirst`, the overview that precedes the first load (`OverviewSettles`), and
for each `fetch` its arrival or failure (`Arrive`, `Fail`). `flights` holds the
fetches under way. The lists of the registry only grow (uploads stay listed,
`includeTerminal` is set), so a row is its position and a list its length.

### The API

A request is a record in `calls`; `pc` names the `await` it is at: `create`
(`createUploadRequest`), `read` (`readUploadStatus` of the upload a duplicate
names), `submit` (the adapter's byte upload), `fetch` (the reads). The registry
and coordinator behind the API are one external adapter: one upload per account
and key, a duplicate refused with its id, no bytes into a closed upload; the
adapter reports a status by label or by enum index; any answer may be lost after
it took effect (`Created`, `SubmitBytes`) or before (`AdapterFails`); others
start and close uploads; an instance restarts with its key counter at zero.

### The scripts

`OperatorTransactions` is viem against a node: `Submit` hands over a
transaction, `Mine` mines the signer's next one: the contract's own action, or a
revert if its guard does not hold (`CallAccepted`). The scripts wait for each receipt; a script that
is stopped or times out leaves its transaction behind (`GiveUp`). `CalibrationDemo` has one
action per transaction, reread and check of its run, in their order;
`FixtureSeeder` one per read, plan, transaction and awaited batch. The hashes that the
contract's model abstracts are kept beside it in `details`, since the scripts
compare them. The evidence file is what its last whole text says (`evidence`) and
what is on the disk now (`onDisk`): `writeFile` empties it (`Truncate`) and then
writes (`Write`), so a run stopped in between leaves it empty or cut, and a run
that overlaps may leave one text sticking out behind another. A file that is not
JSON ends every later run with `--write` where it is read (`Readable`, `Throws`).
`OperatorScripts` lets both send through one pool.

## 3. What TLC checks

Only `dashboard` turns deadlock checking off: its page stops when the bound on
loads is reached. Everywhere else somebody can always take a step. The registry
alone, with the mapping of receipts beside it:

| run | instance | properties |
|---|---|---|
| `registry_ledger` | 2 accounts, 2 keys, 2 addresses, 2 uploads of shapes (1 byte, 2 copies, cost 2) and (2 bytes, 1 copy, cost 1) plus an ill-formed one, all receipts over sizes 1..2, copies 0..2, cost 0..2, failure charges 0..1, time 1..3, cap 5 lowered to 3, cost counters of width 3 | `TypeOK`, `LedgerMatchesUploads`, `LiveUploadsReleasable`, `IdempotencyKeyNamesOneUpload`, `OutcomeConsistent`, `ReceiptsAgree`, `BytesGrowOnlyWithinCap`, `ImplementsUploadLedger` |
| `registry_lists` | 6 uploads over 2 accounts, closed in every order; page sizes 0..3 from every issued id and 0, and for the whole history from 0..7 | `IndexMatchesStatus`, `PagesExact`, `OnlyStaleCursorsRevert` |
| `registry_roles` | 1 account, 1 upload, owner changes, coordinator sessions that end at 2, revocation, relayers, pausing, 2 dataset keys, time 1..3 | `EnumerationsExact` |

The coordinator with the registry, for one upload of two copies whose request
expires at 2:

| run | instance | properties |
|---|---|---|
| `coordinator_safety` | 2 operations on the upload, 2 FOC receipts that differ in their hash, a rival coordinator with receipts of its own, session that ends at 1, time 1..3, 1 restart | `HCTypeOK`, `BytesSentOncePerOperation`, `ResultIsOnChain`, `BytesLeaveAfterStart`, `ReceiptKeptUntilSettled` |
| `coordinator_live` | 1 operation, rival, coordinators revoked and restored, no restart, `HCLiveSpec` | `CallsReturn`, `PendingResolved` |
| `coordinator_retry` | 1 operation, no rival | violates `UnacceptedUploadRetryable` |
| `coordinator_restart` | 1 operation, no rival, 1 restart | violates `AcceptedBytesNotSentAgain` |

Readers, API, page and scripts. Each of these runs explores the union of a few
scenarios, named in its MC module and joined into the run's `CONSTRAINT`: each
scenario opens one dimension of the instance and keeps the others small. Within
a scenario every interleaving is explored, and a property that fails at the
border of one is reported, since TLC checks a state before it drops it.

| run | scenarios | properties |
|---|---|---|
| `projection` | `UploadScenario`: two uploads of both shapes and every outcome, one coordinator allowed once, revoked once. `AdminScenario`: one upload not settled, sessions that end at 1, a revocation, a relayer, a dataset. Up to 6 events unprojected | `ProjectionExact`, `CountersTrue`, `ProjectionReconciles`, `CoordinatorAlarmsExact` |
| `reads` | `ListScenario`: six uploads listed with page size 1 and closed while they are read, bound of 6 pages. `SettleScenario`: two uploads of two copies, page size 2, one of them moving (requested, started, settled in full or in part, closed) while a report is read, at the last second of a session | `TraversalComplete`, `FailsOnlyForSize`, `QuietAnswersTrue`, `OnlyMovedRowsMismatch`, `DashboardTrue` |
| `api` | `RaceScenario`: two uploads of one user at a time in one or two isolates with equal clocks, two files of one name and size, a key, no key, two spellings of one key. `RouteScenario`: every route, two users, every malformed body, one call at a time | `SubmissionsJustified`, `TokenHostAnswersTrue` |
| `scripts` | `DemoScenario`: runs of the demo one after another with five environments, two of them given up at any step, also while the file is written; or none given up and the demo's upload cancelled by hand, up to 7 transactions. `OverlapScenario`: two runs at once, with two datasets. `SeederScenario`: seeder runs with two targets, one row or both to be committed, batches of three, given up, an upload cancelled by hand. `BothScenario`: both scripts in turn while time passes, one of them given up; at most 18 transactions once the demo's upload is out of reach | `EvidenceTrue`, `OnlyOwnUploadAdvanced`, `RerunKeepsHashes`, `RowsInOrder`, `SummaryNeverAhead`, `SettledRunSendsNothing`; liveness under `ScriptsFairSpec`: `RerunsFinish`, `RowsReachTargets` |
| `dashboard` | `PageScenario`: files (cursor) and coordinators (two offset lists), page size 1, up to 5 loads. `ControlScenario`: page size, filter and search changed in the coordinators' view, up to 4 loads | `ShownIsCurrent`, `PagingComplete` |

**Bounds.** `MaxObjects` bounds the ids that are issued, `MaxTime` the clock,
`MaxUint` the width of a cost counter, `MaxLimit` the page sizes asked for.
Two uploads are the fewest that share an account's counters; every accounting
property is about one account's sum, and the two shapes differ in bytes, copies
and cost so that a mixed-up factor shows. The cap of 5 admits two uploads of
different accounts or of one and refuses some outcomes after it was lowered;
the cost width of 3 makes an addition overflow. Six uploads are the fewest for
which a stale cursor with page size 1 meets the traversal limit
(4 tombstones in a row and a live one beyond), so the run has both pages that
revert and stale pages that do not. In `registry_lists` the constraint
`KeysInOrder` gives object n the key n, since the key plays no part in the
lists. Accounts (and keys, in `registry_ledger`) are symmetric: no constant
but the request set mentions them, and that set is closed under the
permutations.

In the coordinator's runs one object is enough: the operations interact only
through the object they share. Two operations are the fewest that race for it;
the rival coordinator is a third party that keeps no entry here. The session
ends (1) before the request does (2) and the clock goes on to 3, so each of
"session over, request open" and "request over" is met at every `await`. A
second restart starts from what the first one left: an empty store and pending
transactions. The two operations are symmetric, and so are the two hashes,
which occur only in the FOC receipts, a set closed under their permutation.

For the readers: two uploads of both shapes are the fewest whose events
interleave and share an account's counters; six events are three transactions or
one finalization waiting, and a prefix of them is split in two. Six uploads
and page size 1 are again the fewest with a listing that reverts; a bound of 6
pages is both met exactly and exceeded by a walk that starts over. `SettleScenario`
lets one upload move while the report is read: a second one adds rows to
`moved`, but the checks of one upload read nothing of another, and the usage
checks add up what belongs to one account. For the API: calls meet only in the
uploads and the key counters, and two calls are the fewest that race for either.
For the page: five loads are the first one, two pages and a detour of two; lists
of two rows with page size 1 have a full last page and an empty one after it. For the
scripts: two rows to be committed are the fewest that split a pair: their four
transactions (dataset and receipt each) go out in a batch of three and a batch
of one, so the second row's dataset and receipt are in different batches and a
run may stop between them. Runs can be given up twice, so that what the first
left behind meets what the second did.

**Fairness.** The registry does nothing on its own; its properties are safety
properties, and so are those of the readers, the API and the page, which promise
nothing if an adapter never answers. `HCLiveSpec` adds:

* `CallsSettle`, weak fairness of `Continue(k)`: every `await` of the process
  settles, that is, the adapters answer or report an error. The coordinator sets
  no timeout of its own, so this is an assumption about them. Nothing is
  assumed of what they answer, nor that any transaction is mined.
* `ClientsRetry`: clients call an operation again (weak fairness of
  `Execute(k)`), the read of a pending operation's object is answered now and
  then rather than failing every time (strong fairness of `PendingRead(k)`, since
  the failed read in between disables it), and time passes (`BlockTime`).
  The process itself has no timer that takes up a pending receipt, so without
  clients that call again nothing would happen; `CallsReturn` does not need it.

`ScriptsFairSpec` adds, for the scripts:

* weak fairness of `MineNext`, the chain mines what it was sent, and of each
  run's steps: a process that is not stopped goes on. `GiveUp` has no fairness
  and a bound, so runs are given up finitely often.
* the operator runs the scripts again and again (`BeginDemo`, `BeginSeeder`),
  strong fairness because the other script may be running in between. Nothing
  else would make a stopped run go on; both scripts are written to be run again
  (`docs/calibration-worker-demo.md:195`: "idempotent for a given `--seed`").

An operator who never lets runs overlap starts a script only after the other
has ended, so fairness asks for no more, and a script that hangs is not hidden by
the start of the other. `RerunsFinish` and `RowsReachTargets` are decided by the
behaviours that stay within `BothScenario`; of two runs that overlap for ever,
nothing is claimed. Once the demo's upload is `OutOfReach` (cancelled, expired,
or past its deadline before it was committed), `BeginDemo` asks for no more
runs, each of which would only send transactions that revert.

What the runs show:

* the published counters of an account are the sums over its uploads after any
  sequence of calls (`LedgerMatchesUploads`), so no upload can be locked by an
  underflow (`LiveUploadsReleasable`);
* an account's bytes, held and in flight, grow only within the cap in force.
  Lowering the cap below them is legal; settling then reverts, but failing,
  cancelling and expiring still work;
* a page is exact even if the object its cursor names is gone, or the call
  reverts; from the head, or from a live cursor, it never reverts. The
  registry's whole history is paged by number, and exact from any cursor, one
  above the newest id included;
* an upload's status, copies, charge, payer and coordinator agree;
* within the life of a process an operation's bytes go to FOC once
  (`BytesSentOncePerOperation`), and only for an upload that was started on the
  chain, even if the answer to `startUpload` was lost (`BytesLeaveAfterStart`);
* an operation that answered with a result has its own receipt on the chain,
  not another operation's or another coordinator's, also if it only recovered
  (`ResultIsOnChain`); a receipt is dropped only if it is there already or the
  request has expired (`ReceiptKeptUntilSettled`; a restart is the exception,
  see below);
* no call hangs, and a pending receipt is settled or expires if clients retry.

* a receipt the coordinator makes of FOC's answer is one the contract settles
  with, and an answer is refused only if no receipt of it would be
  (`ReceiptsAgree`). The property states two exceptions, exactly: a failed
  outcome with a cost, under a policy without `allowFailureCharges`, and the
  zero address as payer, which `isAddress` (`receipts.mjs:80`) admits and the
  contract does not, make a receipt that stays pending until the request
  expires;
* an indexer may cut and join the log as it likes: caught up, it shows what the
  contract holds of everything requested or set since it started
  (`ProjectionExact`). Its counters are exact if it saw the whole history, and
  otherwise never exceed what it saw (`CountersTrue`), because subtractions stop
  at zero;
* the report on a complete projection has no error but those about a
  coordinator, and those are exact: raised if and only if the contract would
  refuse the coordinator at that second (`ProjectionReconciles`,
  `CoordinatorAlarmsExact`);
* a traversal misses nothing that was there throughout, and fails only for the
  registry's size, or because uploads were closed under an active listing that
  starts over and over (`TraversalComplete`, `FailsOnlyForSize`);
* reads at several blocks can make a report raise errors that no block has, but
  only about an upload or account that changed meanwhile
  (`OnlyMovedRowsMismatch`); with nothing moving it is exact
  (`QuietAnswersTrue`), also for one page of it (`DashboardTrue`);
* bytes go to the upload they were requested for, whatever keys collide, never
  to one that was settled before the call, and what a client is told is so
  (`SubmissionsJustified`, `TokenHostAnswersTrue`);
* the page never shows an answer to another question, and paging skips nothing
  and ends only at the end (`ShownIsCurrent`, `PagingComplete`);
* what the evidence file says is true, its hashes belong to its upload, no rerun
  writes it with fewer, and reruns complete it, but for an upload that is out of
  reach and a file that was left cut (`EvidenceTrue`, `RerunKeepsHashes`,
  `RerunsFinish`, and the exceptions below); the seeder
  never drives a row past its target nor claims more than the chain holds, and
  gets there (`RowsInOrder`, `SummaryNeverAhead`, `SettledRunSendsNothing`,
  `RowsReachTargets`).

Behaviours that the properties had to except, for a reader of the code:

* `UploadFinalized` and `UploadFailed` do not carry the object's coordinator, so
  the projection of an upload that was settled without its start being seen has
  none (`read-model.mjs:518`).
* The Next button of the last answer stays clickable while another view loads
  and then moves that view to a position of the other
  (`calibration-demo.mjs:1698`); so do First and a quick Next after it, and Next
  after the controls changed. `strayed` marks such a view, and rows it skips are
  not claimed to be shown, until the controls change again.
* A byte upload that is repeated after its upload failed or was cancelled is
  answered 200 with that status, since the answer is read from the registry.
* An upload of the demo that was cancelled, expired, or passed its deadline
  before it was committed can never be completed under its key: later runs find
  it and fail at `startUpload` or `finalizeUpload` (`OutOfReach` in
  `RerunsFinish`).
* A run stopped inside `writeFile` (`run-calibration-registry-demo.mjs:345`)
  leaves the evidence file empty or cut. The hashes it told are lost to readers,
  and every later run with `--write` throws at `JSON.parse` (lines 570 to 578)
  until somebody removes the file (`onDisk = "cut"` in `RerunsFinish`, the lapse
  "cut" in `RerunKeepsHashes`). Two runs that overlap may do the same to a file
  without either being stopped.
* The fold of the projection keeps no position: an event delivered twice is
  counted twice. It delivers each event once in the model, as every caller in
  the repository does (one fold of a whole log from an empty model); nothing is
  claimed of one that does not.
* The coordinator has no timeout: a call to FOC or the registry that is never
  answered keeps its key running until the process ends. `CallsReturn` is about
  calls that are answered, if only by an error.
* The hash of a transaction is lost with the run that was stopped before it wrote; evidence of
  another piece at the same path drops the hashes of the first; two runs that
  overlap may drop each other's (`HistoryComplete`, `RerunKeepsHashes`).

The two violations are disagreements with the documents:

* `coordinator_retry`: FOC refuses the bytes and `failUpload` reports an error.
  The store keeps the failure, so every retry through the key is answered with
  it, while the upload stays `Uploading` (the behaviour
  `test/coordinator.test.mjs:1525` fixes). `docs/production-hardening-runbook.md:167`
  advises, for an upload that remains `Uploading`: "If bytes were not accepted
  by FOC, retry through the same idempotency key."
* `coordinator_restart`: a restart forgets that FOC accepted the bytes, and the
  next call sends them again. `docs/coordinator.md:32` calls the state
  "reconstructable"; nothing on the chain tells that FOC accepted the bytes.

Every property has a mutant: an operator in the module it belongs to (named
`X_what_is_wrong`, with a comment that begins "A plausible bug") that replaces
`X` and makes TLC report the property.

## 4. What is proved

The theorems hold for every set of accounts, keys, addresses, operations and
inputs and every bound. They assume the named assumptions of the modules only:

* `MaxObjectsAssumption`, `MaxLimitAssumption`, `BoundsAssumption`: natural
  numbers; `LimitsAssumption`: page sizes are positive;
* `ConstantsAssumption`: the inputs of the registry have their types, `Zero` is
  no account, key or address, the deployer is an address;
* `CoordinatorAssumption`: the coordinator has an address, there are finitely
  many operations, each on one object, and the receipts are receipts the
  contract can be sent; `UnsaidAssumption`: an answer of FOC without an outcome
  is told apart from the outcomes;
* `MappingAssumption`, `RoutesAssumption`: keys are normalised to keys and users
  mapped to account names, the routes asked for are the API's;
  `OpenViewsAssumption`: the views opened are views of the page;
* `RequestsAssumption`: page sizes are positive and within the contract's limit,
  which the worker (`parsePositiveInteger`) and the adapter's default ensure;
  `NamesAssumption`: an account id (`bytes32`) is not an object id (a number),
  so a check says which of the two it is about;
* `OperatorAssumption`, `DemoAssumption`: the signer is an address and what the
  demo builds from an environment is an input of the registry; `RowsAssumption`:
  so is what the seeder builds from a row, every row has a key of its own, which
  is no piece of the demo's, and a run's target is Requested, Uploading or
  Committed. The seeder derives the keys from the seed and the row's number, the
  demo from the piece (`RowsAssumption` leaves hash collisions out).

| theorem | establishes |
|---|---|
| `TypeCorrect` | `Spec => []TypeOK` |
| `IndexCorrect` | `Spec => []IndexMatchesStatus` |
| `LedgerCorrect` | `Spec => []LedgerMatchesUploads` |
| `ReleaseNeverUnderflows` | `Spec => []LiveUploadsReleasable` |
| `IdempotencyCorrect` | `Spec => []IdempotencyKeyNamesOneUpload` |
| `OutcomeCorrect` | `Spec => []OutcomeConsistent` |
| `EnumerationsCorrect` | `Spec => []EnumerationsExact` |
| `CapHolds` | `Spec => BytesGrowOnlyWithinCap` |
| `LedgerRefined` | `Spec => ImplementsUploadLedger`, the refinement |
| `ReceiptsCorrect` | `Spec => []ReceiptsAgree` |
| `PagesCorrect` | `Spec => []PagesExact` |
| `LiveCursorsNeverRevert` | `Spec => []OnlyStaleCursorsRevert` |
| `RegistryRefined` | `HCSpec => Spec` |
| `ProcessTypeCorrect` | `HCSpec => []HCTypeOK` |
| `LedgerCorrectWithCoordinator` | `HCSpec => []LedgerMatchesUploads` |
| `ResultsCorrect` | `HCSpec => []ResultIsOnChain` |
| `BytesSentOnce` | `HCSpec => []BytesSentOncePerOperation` |
| `BytesLeaveStarted` | `HCSpec => []BytesLeaveAfterStart` |
| `ReceiptsKept` | `HCSpec => ReceiptKeptUntilSettled` |
| `ProjectionCorrect` | `EPSpec => []ProjectionExact` |
| `CountersCorrect` | `EPSpec => []CountersTrue` |
| `ReportCorrect` | `EPSpec => []ProjectionReconciles` |
| `AlarmsCorrect` | `EPSpec => []CoordinatorAlarmsExact` |
| `SubmissionsCorrect` | `PASpec => []SubmissionsJustified` |
| `AnswersCorrect` | `PASpec => []TokenHostAnswersTrue` |
| `TraversalsComplete` | `DRSpec => []TraversalComplete` |
| `FailuresJustified` | `DRSpec => []FailsOnlyForSize` |
| `MismatchesExplained` | `DRSpec => []OnlyMovedRowsMismatch` |
| `QuietReportsTrue` | `DRSpec => []QuietAnswersTrue` |
| `DashboardReportTrue` | `DRSpec => []DashboardTrue` |
| `ShownCorrect` | `DPSpec => []ShownIsCurrent` |
| `PagingCorrect` | `DPSpec => []PagingComplete` |
| `ScriptsKeepRegistry` | `ScriptsSpec => Spec` |
| `OwnUploadAdvanced` | `ScriptsSpec => []OnlyOwnUploadAdvanced` |
| `SettledIsIdle` | `ScriptsSpec => []SettledRunSendsNothing` |
| `SummaryIsTrue` | `ScriptsSpec => []SummaryNeverAhead` |
| `RowsStayInOrder` | `ScriptsSpec => []RowsInOrder` |
| `EvidenceIsTrue` | `ScriptsSpec => []EvidenceTrue` |
| `RerunsKeepHashes` | `ScriptsSpec => RerunKeepsHashes` |

**The registry.** `TypeOK` is inductive by itself, because subtractions are
guarded. The inductive invariant for the rest is
`TypeOK /\ IndexMatchesStatus /\ LedgerMatchesUploads`, and
`IdempotencyKeyNamesOneUpload` on top of its first two parts:

* `IndexMatchesStatus` contains `IssuedInOrder`: an id not yet issued has no
  trace (its record is empty, its back links are 0). Without it a new node could
  come with a stale back link, and a request could overwrite an upload that
  counts in the totals.
* `WellLinked` is about the nodes *ever* on a list, not only its members: each
  points down and skips no member. This is what keeps tombstones usable, and it
  is inductive only together with the two-way links of the members.
  `PushFrontWellLinked` and `UnlinkWellLinked` prove it for one insertion and
  one removal, and
  `OtherListUntouched` carries it to the lists of other accounts, which share
  the node arrays.
* Sums. `Total` is the cardinality of a disjoint union of intervals, so that it
  follows from the library's facts on finite sets, without induction over the
  uploads: `TotalUpdate` (one weight changes, the total changes by the
  difference) and `TotalBound` (no weight exceeds the total). The step of
  `LedgerCorrect` is, per account and counter, `TotalUpdate` against the
  counter's arithmetic; `ReleaseNeverUnderflows` is `TotalBound`.
* `Outcomes` strengthens `OutcomeConsistent` by `maxCost = reservedCost`. The
  contract checks a receipt against the first and charges against the second,
  the coordinator knows the first only: `ReceiptsCorrect` needs them equal.
  `ReceiptSettles` says that beyond what the coordinator has checked itself,
  the contract asks for a payer that is not the zero address and for the rule on
  charges of failures, and nothing else.
* `CapHolds` compares one step's bytes before and after: a request passes the
  cap's check, and settling moves at most the pending bytes of the upload to
  the stored ones, because completed copies never exceed requested ones.
* `ListsExact` adds `now > 0` to `EnumerationsExact`: a dataset counts as
  recorded if its time is not 0. `AddKnownEnumerates` is the fact about the
  guarded push.
* `LedgerRefined` maps each action to one of the ledger's: a request to `Open`
  (its claim is fresh by `IdempotencyKeyNamesOneUpload`), a receipt or a failure
  to `Settle`, a cancellation or an expiry to `Release`, everything else to a
  stutter. The totals follow by `LedgerMatchesUploads` in the next state. It
  needs `TermsInv`, that a live upload has some bytes and some copies: otherwise
  a committed upload could store nothing, which the ledger rules out.

**Pages.** What the contract's two loops collect is a recursive function, and a
statement about every list needs induction. The theorems of the library that
take a formula as a parameter are of no use to the installed provers, but the
well-foundedness of `<` on numbers is a theorem about a *set*:
`NumbersInduction` is induction over numbers for a set of
them, and recursive functions are reasoned about with it. The walk's invariant
(`WalkInv`) says where it stands: a member below the page's cursor is collected
or still ahead, and nothing else is collected. `HistoryMatchesIssued`
is the one fact the paging needs beyond `IndexMatchesStatus`: the list that
keeps closed uploads is the list of issued ids, newest first. `HistoryPageExact` is the
page of the registry's whole history, which is counted down from the cursor or
from the newest id, whichever is lower.

**Traversals.** `TraversalInv` is stated of a request, the model it has put
together and a *ground*: what both depend on of the registry and of the history
variables. So a read of the adapter is reasoned about with a fixed ground, and a
transaction with a fixed request and model: `TraversalBearsMoves` says that a
ground may grow (`GroundGrows`: ids are issued, lists are appended to, what is
owed shrinks) under a traversal that stands on it. The invariant has one part
per question:

* what lies before the cursor is in the model (`BehindCursor`), and between the
  list and the details of a page also what the page leads past, unless its
  detail is still to be read (`BehindPage`), in whatever order the readers of
  details finish. This is `PagesExact` with `NewestEnumerates`: a page that is
  full ends above everything it leaves out. A listing that starts over has
  nothing before its cursor and keeps what it has read;
* the pages so far were full, so there are that many entries above the cursor
  (`CursorCounts`, `PageCounts`, by `DescendingSpans`), unless an active listing
  was disturbed. It follows that the page bound is met for size only, and that a
  page never ends where it began;
* an active listing that nothing disturbed stands at a live upload, which is why
  its page does not revert (`LiveCursorsNeverRevert`), and a listing with closed
  uploads never does.

**Reports.** A report compares rows that were read at different blocks, so the
question is what a row that is out of date may still be relied on for.
`RowsMove` answers it for one transaction: an upload that changes keeps its
account, and if the change is one of what it adds to the account's counters
(`Portion`: stored bytes, pending bytes, reserved cost), the account's own row
changes in the same transaction; so does it when an upload or an account is new.
Hence `ReadsInv`, on top of `TraversalInv`: a row belongs to the account it
names, adds to it what the upload adds now unless the account moved, and is the
upload's row unless the upload moved (`ModelTrue`); while a page's details are
put in one by one, what is missing is exactly what is pending (`Pending`). Of a
finished model (`ReportInv`) then follows:

* an upload that did not move is shown as the contract keeps it, and `Outcomes`,
  `IndexMatchesStatus` and the receipts leave no error to raise but those about
  its coordinator (`NoUploadErrors`);
* the row of an account that did not move adds up (`AccountAddsUp`): by
  `TraversalComplete` the model holds every upload of the account that adds
  anything, every row adds what its upload adds, so its three sums are those of
  `LedgerMatchesUploads` restricted to the rows read (`TotalWithin`);
* on a registry that did not move, the rows of coordinators are all there and
  current, so the report complains about an upload in progress exactly if
  `ActiveCoordinator` fails (`QuietReportsTrue`).

`DashboardReportTrue` needs no history. The reads of a page and of everything
give an upload the same detail (`ReadAtOnce`), and every check that the page
does not omit looks at that detail only (`SameChecks`, `NotOmitted`): the list
of omitted codes is complete.

**The coordinator.** `RegistryRefined` holds because each step
either leaves the registry's variables alone or is one of its actions, so every
theorem about `Spec` is one about `HCSpec`; `LedgerCorrectWithCoordinator` is an
instance. One lemma, `ContinueOutcome`, says what a stretch of `executeUpload`
can make of its operation: return with one of the entries, go on before FOC,
hand over the bytes, go on after FOC. The invariants are proved over it:

* `ResultInv` adds to `ResultIsOnChain` that a `finalizeUpload` mined for a
  running call (`call[k].mined`) is on the chain, which is how a result is known
  when no one has read it yet. It is preserved because a finished upload is
  never changed: `FinishedFixed`, from the guards of the contract and from
  `IssuedInOrder`, without which a new request could overwrite it
  (`SettledStays`).
* `BytesInv` says where an operation stands once its bytes are out
  (`BytesSpent`): past FOC, settled, with a pending receipt, or with its key
  freed under a session that has ended. No such place leads back before FOC, the
  last because the clock does not run backwards (`SessionStaysEnded`).
* `StartedInv` says of a call at FOC, and of one whose `startUpload` was mined,
  that the upload is started; started uploads stay so (`TakenStays`, by
  `IssuedInOrder` again), so it does not matter how long the answer took.
* `ReceiptsKept` is an action property over `ResultInv`: the step that ends a
  call on a mined `finalizeUpload` gives the receipt up because it is settled,
  which is what `ResultInv` knows without a read.

**The projection.** `IndexedRegistry` (`EPSpec => Spec`) brings the registry's
invariants over. `ProjectionInv` then says of the projected model not what it is
but what it becomes: folded with the events still pending, it `Shows` what the
registry holds of everything the indexer saw. That is what makes it inductive:

* `IndexKeepsFold`: projecting a batch does not change that fold, whichever of
  its two halves came first, since the fold sorts by position. `ApplyInTurn` is
  a recursive function, so this is induction over the batch's length.
* each transaction appends its events, and one lemma per transaction says that
  folding them moves the model as the action moves the registry.
* a counter that the read model clamps at zero is never clamped on something it
  saw: what it subtracts belongs to an upload whose request it added, and the
  sum of those is at most the counter (`TotalBound` over the uploads seen).

`ReportCorrect` needs, of a caught-up projection, that each of the report's
sums is the contract's counter (`UsageReported`: `LedgerMatchesUploads`
restricted to one account's rows), that no upload is of a shape the report
complains of (`NoObjectErrors`: `Outcomes`), and that the rows of coordinators
are those the contract admits (`CoordinatorReported`), which is all that
`AlarmsCorrect` needs, too.

**The API.** `ApiInv` states of each call under way what it has established and
what its answer will rely on (`CallsOK`), and of the last submission why it was
justified. The hazard is what happens between two `await`s: `CallStays` says
that whatever others request, start or close (`Grows`: uploads keep their terms,
closed ones stay closed), a call keeps what it relies on, so each action is
checked against its own call only.

**The page.** `ShownIsCurrent` follows from what a flight that can still be
accepted was sent with: its sequence number is the latest only if nothing was
asked since. `PagingComplete` needs `PagerInv`: of every position a view can go
to, its own or the one its pager offers, every row before it was `Reached`, that
is, shown or not there when one of the pages was read. A view that went to
another view's position is `strayed` and exempt, as in the property.

**The scripts.** What a script does next depends on what it read some steps ago,
and its transactions are mined whenever the chain comes to them, perhaps after
the script was stopped. So every proof has the same two halves: what is true of
a record when it is made, and that nothing anybody does afterwards undoes it.
The second half is `Grows`, proved once of every step (`ScriptsFrame`,
`UploadsOnlyGrow`, `RolesOnlyGrow`): an issued upload keeps its terms and its key,
its status only rises and a committed one stays so, the signer stays a
coordinator and relayers stay listed, request hashes are never rewritten, the
pool is only appended to, what runs were asked for only rises. On it stand:

* `Base`: the registry's invariants, and `Warranted`, of every transaction sent
  or planned: a demo's start or receipt is for an upload requested by that very
  environment, a row's for the row's own upload and within the target some run
  was asked for. `ScriptsKeepRegistry` and `OwnUploadAdvanced` follow.
* `SettledFit`: a run that began with every row at its target finds, at whatever
  it reads later, nothing to request, start or finalize (`NothingDue`).
* `Progress`: what the seeder writes into its summary it has not read back, so
  `SummaryNeverAhead` needs to know why it is so. Whatever a phase is there to
  get done (`OnAgenda`) is planned, sent and awaited, or done (`UnderWay`), and a
  transaction mined with success has its effect (`Effects`). A batch all of
  whose receipts say success therefore leaves nothing but the last
  (`AgendaDone`). `BatchAccepted`, the look at the receipts, is where this would
  break.
* `RowsInOrder` has three parts. That a row follows its own run's targets is
  `Warranted`, provided nobody else sends a call that names the row's upload:
  `RowsApart` (`IdempotencyKeyNamesOneUpload` and the keys of `RowsAssumption`).
  That the dataset comes first is nonce order (`SentFit`: no receipt of a row is
  sent before its dataset) and that the call which records it cannot be refused
  once the signer is a coordinator (`RecordSucceeds`), so that it has been
  recorded whenever the receipt is mined, in this run or in the next.
* `Evidence` gives the first two parts of `EvidenceTrue`. A hash is written down
  when its receipt says success, so `Tells`: it is of a mined call about the
  upload with this environment, which needs `Waits`, what a run waits for at each
  step, and for the hashes taken over from the file that two environments of one
  upload agree on what it was requested with (`OwnersAgree`). An upload that
  passed the final check is `Evident` and stays so (`EvidentKept`): a receipt's
  hashes are stored by a finalize only, which a committed upload refuses.
* `RerunKeepsHashes` needs `Merged`: the file does not change between a run's
  merge with it and its write, as only one run is under way (`Alone`), and
  `DiskFit`: what is on the disk is the last whole text unless the one run under
  way has just emptied the file, or a run was stopped when it had. A rerun that
  merges has parsed the file (`MergeReads`), so it takes over the hashes of that
  text and not of a cut one.
* `HistoryComplete` is about every step that ever led to the file. `History` says
  where it is kept until it is written: each upload of the demo is past being
  committed (`Hopeless`), is the one in the file, or is in the hands of the run
  under way (`InHand`), which then knows each hash up to its `Stage`. Four things
  make it inductive. A run's transaction is never mined behind its back: whatever
  the demo sent is still waited for (`NoneAdrift`), by the one run there is, so
  only its own calls start or finalize its upload (`OwnCallAwaited`). They are not
  refused either, unless the upload expired (`StartTaken`, `RecordTaken`,
  `FinalizeTaken`): the signer was made coordinator first (`CoordinatorFirst`),
  and a receipt fits the cap and the counters, as the scripts charge nothing and
  the policy does not move (`Room`). What was finalized passes the final check
  (`FinalizeMatches`), so no run is thrown out at the end. And a file is replaced
  by one about the same upload only (`SameFile`, `OwnIsKeyed`). The premise of the
  property (`Calm`) is what the first and the last rest on: a run given up leaves
  a transaction nobody waits for, and one that overlaps or writes elsewhere
  leaves a file about another upload.

**Only model-checked.**

* Liveness under fairness, out of TLAPS's reach: `CallsReturn`,
  `PendingResolved`, `RerunsFinish`, `RowsReachTargets`.

## 5. Plan

Done: the registry, its views, its abstract specification; the hosted
coordinator and its receipts; the event projection; traversals and reports; the
API; the page; the scripts; thirty-nine theorems: every safety and action
property the runs check, and the refinement. Left: the API over the modelled
contract and coordinator instead of an external adapter. The adapter's promises
are theirs (`IdempotencyKeyNamesOneUpload`, `MutableObject`), so this adds depth
rather than new hazards.

## 6. Not modelled

* Hashes and their algorithms, EIP-712 encoding and signature recovery (one
  operator), ABI encoding, `readBatch`, formatting, HTML, logging, metrics and
  configuration files.
* In the coordinator the comparison of the bytes with their commitment and of
  the request with the registry's, which refuse a call before anything happens.
* Authentication of the API and of the admin routes: it answers 401 or 403
  before anything is read or called.
* `src/dev/upload-spine.mjs` sends one fixed sequence of the modelled
  transactions to a local node; it keeps no state and has no branch that is not
  the contract's or the read model's.
* The demo's dashboard and usage snapshots, which it quotes in the evidence
  without checking them (they are torn reads like those of `DirectReads`); the
  seeder's dry run, which sends nothing; `run-ops-smoke.mjs`, which runs API and
  coordinator against stubs of its own.
* `WorkspaceSentinel.sol`, build, validation and artifact scripts, generated
  types: no state.
* `listAccountIds`, `listCoordinatorAddresses`, `listRelayerAddresses` and
  `listDatasetKeys` return a segment of a sequence (`OffsetPage`); what makes
  them meaningful, that the sequences have no repetition, is
  `EnumerationsExact`.
