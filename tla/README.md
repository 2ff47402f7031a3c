# TLA+ models of NetConfig Sentinel

NetConfig Sentinel is a FastAPI service (`src/backend`) that stores network
configurations, analyses them, drafts patches, rechecks the drafts with models and
network engines and records engineers' decisions, a browser interface
(`src/frontend`) and an offline training pipeline (`src/ml`). Nothing is ever applied to
a device. What the service sells is its **history** - who asked for what, what was run,
what came out, and that none of it can change afterwards - and its **verdicts**: what
it says of a configuration must follow from the lines of that configuration. The models
are about these two.

## 1. The system

One or more API processes (replicas) share one SQL database. Inside a process an
asyncio loop awaits a thread per blocking handler, so handlers of one process interleave
between any two database transactions, and handlers of two processes interleave
everywhere. There are no queues, no background jobs and no retries: every state change
happens inside some request, and what a crash interrupts stays interrupted.

| component | source (`src/backend/app` unless said) | state | hard behaviour | what makes it correct | modules |
| --- | --- | --- | --- | --- | --- |
| Operation journal | `audit/` | receipts, completions | receipt, endpoint and completion are three transactions; cancellation leaves a thread running; the schema may be migrated in between | no effect without a receipt, no success without a durable outcome, history readable and immutable | `OperationJournal`, `JournalPages` |
| Access and roles | `api/access.py`, `core/permissions.py` | decisions of one request | two checks of one request, the journal's flag | refusals have no effect; recorded decisions agree with the role | `OperationJournal` |
| Paired ML recheck | `patching/source_ml.py`, `db/source_ml_records.py` | intent and outcome row per client-chosen id, audit rows, a worker slot per process | insert races between replicas, crash between the two rows, lost commits, a clock that is set back | at most one run per id, one immutable outcome, replays agree, slots do not leak | `SourceMlRecheck` |
| Local-model patch drafts | `patching/saved_model.py`, `saved_grounded.py`, `db/model_patch_records.py` | the same under two protocols that share one id namespace | the other protocol under the same id at each of three lookups | one call of the model per id, answers agree | `ModelPatchDraft` |
| Review and decision of model patches | `patching/saved_review.py`, `db/model_patch_review_records.py` | reviews, decisions | hashes pinned while the parent was running; re-validation with the current time | approvals rest on finished, unblocked evidence | `ModelPatchReview` |
| Evidence chain: drafts, preflights, network reviews, rechecks, reports, decisions, risk assessments | `patching/workflow.py`, `source_*.py`, `db/patch_records.py`, `source_*_records.py` | nine tables, rows that pin their parents by hash | a record is prepared in one session and added in another; a lost race must show the winner's row | whatever was accepted stays readable; only final records are cited | `EvidenceChain` |
| Uploads, analyses, training, feedback, saved model runs, native candidates and their materialization | `api/service.py`, `db/store.py`, `patching/native_*.py`, `detection/saved_configuration_model.py` | devices, snapshots, models, five rows of a materialization, two slots per process | two uploads create one device; id collisions; slots after errors | one identity per device, all rows or none, slots free again | `ServiceStore` |
| Web interface | `src/frontend/src` | session, panels with an attempt each | lost, late, duplicated answers; the browser gives up before the worker | one attempt at a time; nothing unsettled is forgotten; an answer never crosses sessions | `WebSession`, `WebPanels` |
| Risk fusion and priorities | `detection/fusion/` | - | rounding; evidence that was not observed | silence is not health, a critical finding is not averaged away | `SourcePriority` |
| Policies, comparison, baselines | `detection/policy_engine.py`, `detection/baseline/`, `comparison/`, `verification/policy_changes.py`, `parsers/coverage.py` | - | several projections of one configuration; thresholds; replays of old analyses | projections agree, no unjustified accusation, replays are faithful | `Policies`, `Comparisons` |
| Parsers | `parsers/` | reader state: objects, current section, unparsed lines | meaning of a line depends on the lines before; late refusals | every line accounted for; settings stand where they are written | `ConfigText`, `CiscoParsing`, `JunosParsing` |
| Datasets and artifacts | `src/ml/datasets`, `src/ml/registry`, `src/ml/training` (saving) | corpus, registry and artifact directories | order of import; stops between two writes; power loss | order-independent, isolated splits; only whole artifacts are selected | `DatasetPipeline`, `ModelStore` |

Components interact through the database only, except that (a) the journal wraps every
endpoint, (b) the endpoints of one process share its worker slots
(`ConfigurationModelRuntime`, `PatchVerificationRuntime`, `LocalModelRuntime`, the
training lock), and (c) a later record of a chain reads and revalidates its parents.

The hazards, each at the line where it bites and with the properties that watch it, are
listed in `PROJECT.json`.

### Order of the development

1. `AttemptLedger` (what every durable attempt promises), `SourceMlRecheck`,
   `OperationJournal`, `JournalPages` with proofs - done.
2. `ModelPatchDraft`, `ModelPatchReview` - modelled, checked and proved.
3. `EvidenceLog` with `EvidenceChain` and `ServiceStore`, `WebSession` with `WebPanels` -
   modelled, checked and proved; the pure algorithms (priorities, datasets, stored
   artifacts, policies and comparisons, parsers) - modelled and checked.
4. `ModelStore`, the last state machine - modelled, checked and proved. What remains
   worth proving is about the operators of `Policies`, `Comparisons` and `SourcePriority`
   that need no induction over data.

## 2. The modules and the code

`MC*` modules name the values of the constants; `*_proofs` modules hold the proofs.

### AttemptLedger and EvidenceLog
The two abstract specifications. `AttemptLedger` is the promise of every "intent first,
outcome later" workflow: a client names an attempt, the first reservation binds the name
to one request for ever, the costly work is started at most once and a result is written
at most once, afterwards. There is no action that repairs an attempt which a crash left
pending: the code has none either. `EvidenceLog` is the promise of the tables of saved
records: records are only added, a record is open until its one outcome is written or
final at once, and cites only records that are final. `SourceMlRecheck`,
`ModelPatchDraft` and `ModelPatchReview` implement the first (`LedgerSpec`),
`EvidenceChain` and `ServiceStore` the second (`LogSpec`).

### SourceMlRecheck
`SourceMlWorkflow.run` over `SourceMlRecords`. A *call* is one POST handler in the thread
of one process; its program counter `pc` stands between two database transactions, which
is where the code can be interleaved with others. A transaction that writes is two steps
(what it read and decided; its commit, where the primary key is enforced), because
PostgreSQL at READ COMMITTED lets two replicas both pass the check.

| state | code | actions | code |
| --- | --- | --- | --- |
| `intent`, `outcome` | the two tables, by primary key | `Lookup` | `run` up to the slot: replay, consent, pinned model |
| `audit` | `AuditRow`s of the two actions | `TakeSlot` | `selected_worker`, `acquire(blocking=False)` |
| `slot[q]` | the lock of `ConfigurationModelRuntime` of process q | `Prepare` | draft and originals read, job and intent built and measured |
| `pc`, `site`, `asked`, `built`, `result` | locals of the handler's thread | `ReserveRead`, `ReserveCommit`, `Raced` | `reserve`, its insert and its `except IntegrityError` |
| `reply` | the HTTP answer | `Reload` | the loser's `get` |
| `clock` | `datetime.now(UTC)` | `Launch`, `WorkerReturns`, `Fallback` | `run_configuration_pair_job` and the `except Exception` after it |
| `ran[k]` | history: launches of the worker | `CompleteRead`, `CompleteCommit` | `complete` |

Faults are actions: `DatabaseError` (a statement or commit raises without effect),
`LostCommit` (a durable commit whose acknowledgement is lost), `CrashRestart`,
`ClockSetBack`. `Draft` and `Pin` are constants because no operation of the service
changes a stored draft or a pinned model. `TrailAgrees` joins what four properties of the
workflow say of its trail: audit rows count the rows that exist, answers show the rows,
only a fault abandons an attempt, and a slot is held by exactly the call that is inside
`selected_worker`.

### OperationJournal
`journal_response`, `OperationJournal.start`/`complete`, `require_access`, `authorize`.
A request is a coroutine that awaits one thread after the other: `check` (schema), `start`
(receipt), `authorize`, `store` (second readiness check), `handle` (an extra permission),
`act` (the domain transaction, of which only *whether it committed* is kept in `effect`),
`acted`, `complete`. `Cancel` sets a flag that takes hold where an await returns, so the
thread that is running still finishes; that is how a cancelled request may act without an
outcome. `flagged` is `request.state.operation_journal_unavailable`. `Migrate` makes the
schema usable at any moment; `failed` remembers that a fault other than the clock
happened. Role, first and extra permission of a request are data of
`Offered`; `Grants` is the table of `core/permissions.py`.

### JournalPages
`OperationJournal.page`: a client walks from the newest receipt to older ones with the
last id of a page as cursor, while replicas append receipts with *any* timestamp (they
stamp before they commit). `walk` is the sequence of ids shown so far, in order.

### ModelPatchDraft
`SavedModelPatchWorkflow.generate` and `SavedGroundedPatchWorkflow.generate` over
`ModelPatchRecords`. The two workflows are the same steps with different prompts and
payload versions, so a request carries its `protocol`; `Allows[q]` is what the operator of
process q permits (`None`: no local model is configured). The state is that of
`SourceMlRecheck` (`draft`, `drafted` the two tables, `slot[q]` the lock of
`LocalModelRuntime`), and so are the actions, with `Ask` and `ProviderReturns` for the
call of the provider. `of` in an outcome stands for the hash of the whole intent,
`declined` is a completed attempt, and `asks` counts calls over both protocols.
`DraftsAgree` joins types, agreement of answers, readable rows, failures that are stored,
one call of the provider per process at a time, and `LockComesBack`: a held lock belongs
to a call that is still under way. A leak would show as a holder that has answered or
died, so that it is seen with a single id too, where nobody else asks for the lock.

### ModelPatchReview
`SavedPatchReviewWorkflow.verify`, `get` and `decide` over `ModelPatchReviewRecords`,
composed with `ModelPatchDraft` (`Drafts == INSTANCE ...`): both run in the same
processes, on the same clock and database, and a review can be asked for while its draft
is still generating. A *verifier* is one `verify` handler and a *decider* one `decide`
handler; `stage` is their program counter, `wants` what the client sent (with the hash
of what it had seen, `pin` and `seen`), `bench[q]` the lock of
`PatchVerificationRuntime`, `checked[k]` counts starts of the external checks.
`NetworkUsable` contains the comparison of the network with the *current* time, because
`get` prepares the review again at every read. A report is abstracted to `clean`:
whether `approval_blockers` finds nothing, which is possible only if both external checks
were selected. A verdict that asks for more information is, to every check, a rejection.
`ChecksBreak` is the error that is neither a report nor a failed outcome. A read after
the clock was set back below the selected originals is answered 503 although the record
is unharmed: `ReviewsAgree` is about the validation of stored records, and, with
`BenchComesBack`, about the lock as in the drafts.

### EvidenceChain
Nine tables and one habit: a client names the record, the handler looks for it
(`Lookup`), prepares a candidate from what it cites (`Prepare`), and adds it in a second
transaction that looks again and validates the whole chain again (`Reserve`, `Insert`,
`Raced`). Network reviews take the engine lock first (`TakeBench`) and, like both
rechecks, run something costly between two rows (`Execute`, `RunEnds`, `Complete`,
`Finish`). A run may raise, say too much or answer in another protocol: its result is
kept only if it makes a valid record, and otherwise `FallBack` stamps a `Failure` of the
protocol that was asked for, which nothing validates before `Complete` does. `ReadBack`
is the read of the row that a POST answers with. A request (`Wish`) is its kind, its id,
its protocol version and the records it cites under the hashes (`pins`) its client had
seen. `Valid...` are the tests that every reader of a table applies again, with the
versions that each may cite; `Readable` is their conjunction over the chain. The engine's
report, scores and findings are abstracted to completed or failed of some protocol;
`Parsed` and `Baseline` say of a pair of configurations what the validators ask about it.

### ServiceStore
`AnalysisService` over `Store`, `SavedConfigurationModelWorkflow`, `NativePatchWorkflow`
and `NativeMaterializationWorkflow`. Uploads, models and analyses get fresh ids from the
server; the other records are named by clients. `slots[q]` are the training lock and the
worker lock. An upload binds its device with an insert that a rival may win
(`CommitUpload`); a materialization locks the rows it depends on (`LockParents`, `Waits`)
and commits a configuration, its text, a draft and its own row in one transaction
(`CommitOutputs`, `CommitMaterialization`). Row locks are taken in one step; a deadlock
that the database resolves by refusing one side is `DatabaseError`. SQLite's
`BEGIN IMMEDIATE` is a special case of the same interleavings. Texts are opaque;
`Parsed[t]` and `Repaired[t]` are what the parser and the vendor generator say of them.

### WebSession and WebPanels
The browser. `WebSession` is `App.tsx` with `ExplanationPanel` and its request gate: two
sessions, each of which can end while requests of it are still to be answered, on a page
that is not mounted anew. `WebPanels` are the twelve panels that store something. A panel
is a record (`work` what it awaits, `intent`, `view`, `uncertain`, `rejected`,
`notStored`, `consent` its React state) and its handlers are functions from such a record
and an answer to the next record, one set per panel, because they differ. The server is
what the other modules say of it. The browser gives up after 30 seconds while a worker
may run on, so an answer may be lost, a POST may still act after its failure was shown,
and reading too early finds nothing. Unmounting forgets intents; that is why
`OneAttemptAtATime` speaks of one mounted panel.

### SourcePriority
`compose_source_priority` with its two variants and `fuse_risk`, in floating point with
the rounding of the code but 7 bits of precision: the order of operations and the kind of
summation are those of the code, because results are compared with `==` there.

### DatasetPipeline and ModelStore
`DatasetPipeline` is deduplication, split and the verdict on a corpus. Union-find is
modelled by the partition it stands for, the hash order of groups by their smallest key,
and texts by their hash, template, tokens and MinHash bands. `ModelStore` is the writing
of dataset artifacts and registry entries, file by file behind an `.incomplete` marker,
with processes that stop between two steps and power failures that tear files which were
not synced. The order of the steps of each kind is data (`Plan`), translated from the
nested writers. As in the code, artifacts are synced and registry entries are not, and an
entry that a crash left behind makes `list_models` fail for all entries while loading
another pin works. Operations on directories are assumed to survive power loss;
`docs/transformer-model-registry.md` claims neither durability nor concurrent
writers. `StoreInv` at its end is the inductive invariant behind `PublishedIsWhole`.
`MCAlgorithms` extends both `JournalPages` and `ModelStore` and plays them as two of its
scenes.

### Policies and Comparisons
`Policies` is every rule of both catalogs over an abstract configuration, and the change
between two lists of findings. A statement is known by its anchor, which stands for its
source lines. `Comparisons` is the difference of two snapshots, the references and peer
profiles in every version that is still served, the line accounting that the newest
version rests on, `AnalysisService.analyze`, and the replay of a saved analysis. A
configuration has one field of every *shape* that the comparisons treat differently (a
setting, a list that is a set, named objects with labels and with patterns, ordered
rules, a process that may be absent, routes of which several may have one destination).
The 0.1.0 peers keep the order of SNMP versions and compare incomplete targets, as the
code does. Confidence is rounded to four digits; it is exact here because inputs have at
most 10,000 lines. `MaxChanges` is 500 in the code and 5 in the run.

### ConfigText, CiscoParsing, JunosParsing, ParsingScenes
Both parsers, line by line: sections, blocks, set commands, refusals while reading and
late refusals of the builders, the lines each setting stands on and the lines that were
not understood, the warning flag and the completeness of route maps. Words are opaque:
`Number`, `Address`, `Network`, `Interface` and `Area` say which of them are numbers,
addresses and networks and to which normal form each is rewritten, so that `010` and `10`
name one VLAN and `10.0.0.1 255.0.0.0` one network with `10.0.0.0/8`. Letter case, quotes,
white space and the parser's confidence are left out; `current` stands for the five
context variables of the Cisco parser, of which at most one is ever set; the bound of AS
numbers and metrics is scaled. `ParsingScenes` is the vocabulary: good and bad lines of
each part of the grammar and the texts of a few lines they make. The answers of the model
were compared with those of the Python parsers on every text of the scenes and on more
combinations of their lines (26,732 Cisco and 20,656 JunOS texts: every object with its
values and lines, the unparsed lines and the warning flag), without a difference.

A JunOS line that is a brace and nothing else has no words before the brace:
`consume_block` indexes them and raises, which the model answers with `None` for the whole
text (`Headless`, `Raises`), and `EveryLineAccounted` allows for such a text only.
`StylesAgree` compares the refusals of both styles statement by statement, also where
lines are refused, and what the texts say whenever the same statements are refused. Two
differences of the code are named there: only a block looks at what stands under
`radius-server`, `tacplus-server` and `snmp v3`, and only a block takes a match of one word
(`from tcp-established` as a set line is refused, because the set form wants a value). A
block in which nothing is understood still leaves the object that it opens (`Opened`).
The accepted lines that may leave nothing behind are listed one reason at a time
(`Silent`): each reason looks at the blocks around the line and at what took its place, as
a unit's own description for the one of its base.

Facts of the code that the models keep because a reader might not expect them: a JunOS
route without a target is dropped with a warning but its lines are not listed as unparsed;
blocks that are not understood stay on the context, so `interfaces` inside `groups` reads as the top-level
one; an unknown SSH version erases a known one although it is reported; named ACLs and
OSPF take an inverse mask that numbered ACLs refuse; a statement of a
BGP group that has no neighbour left, and a router id or an AS number of a device without
the process, are accepted and vanish without a warning.

## 3. The runs

All runs are exhaustive over their instance.

| run | question | instance and why it is enough |
| --- | --- | --- |
| `ml` | at most one run of a recheck, a trail that agrees, rows that stay readable, `AttemptLedger`, and an answer for every call | 2 calls over 3 replicas (two pins and none), same or different requests for one id and one request for every refusal; one crash, database fault or clock set back; 4 instants (snapshot, draft, twice later). A winner and a loser of the insert race, or a first call and a replay, are two calls |
| `ml_clock_loss` | *violated*: `FailureIsRecorded` (see Findings) | 1 call, 1 clock fault |
| `journal` | no write without a receipt, none that is refused, no answer without a durable outcome, no outcome lost without a failure of that very request, nothing after an outcome | requests share nothing but schema and clock, so one request of each kind, with up to three faults and a migration at any moment |
| `draft` | answers, rows and calls of the provider agree across both protocols, `AttemptLedger`, and an answer for every call | 2 calls with one id under both protocols, a request per refusal, processes that allow both, one or none; a fault of any kind |
| `review` | checks start at most once per id and one at a time per process, stored records stay readable with their parents, `AttemptLedger`, and an answer for everybody | one draft that is being generated, two verifiers with the same id and different checks or two ids; a crash, database fault or clock set back between any two steps |
| `review_decide` | approvals rest on finished and unblocked evidence, replays return the stored decision | two engineers, three verdicts, one review, a database fault |
| `decision_replay` | *violated*: `RepeatedDecisionAccepted` (see Findings) | 1 clock fault |
| `evidence` | whatever was accepted stays readable, answers agree, costly runs start once and are recorded whatever the engine does, `EvidenceLog` | 22 databases, one for every stage of a patch and protocol of a report, each with two clients that ask for what may be asked there; one fault |
| `store` | one identity per device, whole transactions, slots free again, `EvidenceLog`, and an answer for every call | 15 databases of up to three devices, each with two clients that compete for a device, an output id, a slot or a record; one fault |
| `web` | one attempt at a time, nothing unsettled is forgotten, sessions stay apart | the page with two sessions and four changes of the request gate, and each panel (two of them inside the report panel) with two attempts, two mounts and every loss of an answer |
| `algorithms` | the pure computations against a reference or what a user relies on | one scene each, below |
| `priority_sum` | *violated*: `ComposedIsAccepted` (see Findings) | the scene `priority` alone |

The scenes of `algorithms`: `pages` (six receipts, two timestamps, which give every tie,
pages of one or two, appends in between), `priority` and `risk` (a finding of every kind
the rules tell apart), `dataset` and `cut` (corpora of a few records around every
duplicate and capture pattern, cuts against a search over all boundaries), `store` (two
writers, one entry each of a registry of size one, one power loss), `compare`, `peers`
and `recheck` (all pairs of some forty variations of one router, populations of two to
five peers, flawed ones included, replays on changed configurations under other
references and catalogs), `cisco` and `junos` (all texts of `ParsingScenes`).

Bounds are in the configuration files: `MaxFaults`, `MaxClock` (the wall clock, in ticks
of "later than"), `MaxTime`, `MaxLimit`, `MaxAsks`, `MaxMounts`, `Bits`, `MaxChanges` and
the sizes of the sets. Symmetry is used in `review_decide` only, over the two engineers.
`CHECK_DEADLOCK FALSE` where it is said: a run ends when all calls are answered, which is
the intended end of a service that waits for clients.

Every property has a mutant of the code that breaks it (`PROJECT.json`); the mutated
definitions stand right before the ones they replace, and no action uses them.

**Fairness.** `ml`, `draft`, `review` and `store` assume weak fairness of the steps of a
handler that has started (`CallStep`, `VerifyStep`, `DecideStep`, `Step`). The code
justifies it: a handler never waits for another one (worker slots are tried, not awaited;
row locks of a materialization are held for one transaction without waits in it), workers
have a deadline after which they are killed, and the event loop and thread pool run what
is ready. Nothing is assumed of clients, faults or the clock. `journal` and `evidence`
check no liveness: their handlers are straight lines. `web` checks none because a browser
owes nobody a click.

### Findings
`ml_clock_loss`: if the wall clock is set back between an intent and its outcome, the
completed outcome is refused by `exact_records` (`completed_at < created_at`), and so is
the failed outcome of the fallback, because it reads the same clock. `complete` then
raises and nothing is stored: the attempt remains `pending_unknown` although its worker
ended. `docs/source-ml-rechecks.md:64-65` promises `failed` for every failure of a side.
The operation journal has the same hazard and clamps its time (`audit/http.py:107`);
`OutcomeLostOnlyByFailure` is checked and proved: there no outcome is lost because of the
clock, and without the clamp one would be.

`decision_replay`: `decide` validates a decision with the current time before it looks
whether it is stored. If the clock is set back below the review's completion, repeating a
stored decision is answered 409 instead of with the decision
(`docs/saved-model-patch-reviews.md:120-122` promises idempotence). `review_decide` shows
that without clock faults the promise holds, whoever repeats the decision. A repeated
`verify` has the same weakness (`get` rebuilds the intent with the current time and
answers 503, where `docs/saved-model-patch-reviews.md:92-93` promises 200).

`priority_sum`: `compose_source_priority` adds contributions with `sum()`, which
compensates rounding since Python 3.12, and the record that is to hold the result adds
them again with `+=` and compares with `!=`. For some evidence the two differ in the last
bit and a sound assessment is refused as a conflict (`docs/source-risk-assessments.md:65`
promises a priority for every complete report). The counterexample in the reduced
precision has counterparts in binary64; one is quoted in `PROJECT.json`.

## 4. The proofs

All are checked by TLAPS for every value of the constants that satisfies the named
assumptions of the modules (well-typed requests, drafts and pins; a draft is not older
than its after snapshot; `None` is outside the other sets; ids are natural numbers where
they are compared; what an idle writer holds is not a job). Every safety property of the runs
`ml`, `journal`, `draft`, `review`, `review_decide`, `evidence`, `store` and `web` is a
theorem, so are both properties of `algorithms` that are about state machines, and so are
the five refinements. Each inductive invariant was first checked by TLC on the instance of its run.

The proofs share a plan. The invariant says, for each *stage* of a handler, what its
locals are worth at that point, and for each row which stages may still write it. A step
of one handler changes its own stage and at most one row, so it suffices to show that its
own part holds again, that the row is still sound, and that no other handler's part
mentioned what changed; a lemma per module turns the last point into a frame rule, used
by one lemma per action.

- `SourceMlRecheck_proofs`. `Invariance` proves `IInv`, which adds to the types and to
  `RecordsReadable` what each stage of a call knows (`CallInv`), that at most one call
  *owns* an attempt (`OneOwner`) and how rows and runs agree (`RowInv`). The strengthening
  is needed because `AtMostOneRun` alone does not survive `Launch`: one must know that
  the call in `execute` is the one whose insert the primary key accepted and that no run
  was counted before. `TypeCorrect`, `AtMostOnce`, `AlwaysReadable` follow; `Immutable`
  and `Refinement` (the step simulation into `AttemptLedger`) use `IInv` on both sides of
  a step. `TrailCorrect` proves `TrailAgrees` on top of it with `TrailInv`: an answer is
  the last thing a call does, and while no fault has happened no call has seen the clock
  go back, so that what it is about to save passes the tests of `complete`.
- `ModelPatchDraft_proofs`. The same plan over two protocols. `RowInv` relates the number
  of calls of the provider to the row, and an owner's stage to the number of calls.
  `Agreement` (`DraftsAgree`) and `Refinement` follow. The lock needs both directions:
  who is inside the provider holds it (`CallInv`), and who holds it is inside
  (`LockComesBack`).
- `ModelPatchReview_proofs`. The composition. `IInv` contains the invariant of the drafts
  (`Drafts!IInv`); what drafts do while reviews run is not proved again: the proofs of
  `ModelPatchDraft_proofs` are instantiated, and `SameDrafts` identifies both copies of
  the definitions. Every later read compares the parents that a review or a decision pins
  with what is stored; the invariant carries that comparison from where a record is
  prepared to its insert, which is sound because rows of drafts are written once.
  `Chain`, `Approvals`, `DecisionAnswers` and `Refinement` follow; `Chain` uses
  `BenchComesBack`, which is inductive on top of `IInv` (`CallerBench`, `NextBench`).
- `Algorithms_proofs`, the two state machines of the run `algorithms`. `WalkInvariance`
  proves that what a walk through the history has shown is exactly the rows above its
  cursor that existed in time; `Descending` and `Complete` follow for any table, page
  size, tie pattern and interleaving with appends. `StoreInvariance` proves `StoreInv`
  for any set of names and writers, any size of the registry and any number of power
  failures. `WellPlanned` first collects what the argument needs of a plan, for the plan
  of each kind: it begins with the directory, puts no path twice, and removes a marker
  only after it was put. Then `FilesInv` says that on disk is what the plan puts up to
  where its writing came (`reached`), without the markers already removed, and perhaps
  one torn file of the next step; it is preserved because one writer at most has a
  directory it made (`OneWriter`), and whoever fails to make it leaves. `Published`
  follows: who answers has come to the end of its plan (`FinishedIsSound`), so each
  directory holds what is expected and nothing else; and a directory without its marker
  was written to the step that removes it (`SoundIsFinished`).
- `OperationJournal_proofs`. `Invariance` proves the `IInv` of `OperationJournal`: for
  each request, what its step says of its receipt (`ReceiptInv`), of the decisions made
  so far (`DecisionInv`), of its transaction (`EffectInv`) and of its outcome
  (`OutcomeInv`). The requests share nothing but schema and clock, so the argument is
  local: a step preserves the invariant if it does so for its own request (`OneRequest`).
  `AlwaysCompletes` is the heart: what the coroutine brings to `journal.complete` always
  passes its checks, because `completed_at` is clamped to `started_at` and the decisions
  come from the role of the receipt. It gives `NothingLost`: an outcome stays pending or
  is reported as unconfirmed only if a journal write of that request or its process
  failed or it was cancelled (`failed[r]`), not because of the clock, a migration, a
  domain error or another request.
- `EvidenceChain_proofs`. The theorems are about every database that the service could
  have been started on: `ChainInv` says of the tables alone that their rows have the
  shape of their kind, outcomes belong to attempts, and every record is readable.
  `EmptyIsSound` shows that a new database is one; every database of the run `evidence`
  is another. The core is that a record that is valid stays valid while the tables grow,
  because it cites final records only and those never change; hence the second
  transaction of `Reserve` and `Insert`, which validates the chain it reads, inserts a
  row that is readable for ever. `Trails` and `OneOwner` give most of
  `EvidenceAgrees`: one handler at most may start the costly run of an id. `Attended` is
  proved on top of that invariant: while no fault happens an intent is not younger than
  the clock (`Timely`), so that a failure which replaces a bad result is valid itself
  (`FailureValid`) and its outcome is stored. `Refinement` maps each step to
  `EvidenceLog`.
- `ServiceStore_proofs`. Likewise from every database that satisfies `StoreInv`. What is
  special here is shared state that no client names: the insert of a device that a rival
  may win, so that a configuration is bound to the identity the winner stored, and the
  records of one transaction that need each other. What a handler has prepared stays
  `Acceptable` until it commits, because tables only grow, and `Outputs` says that a
  materialization and what it wrote exist together. `Slots`, `Readability`, `Identities`, `Agreement`
  and `Refinement` follow.
- `WebPanels_proofs`. The page and the panels run in one browser but share no state, so
  `SessionSpec` and `PanelSpec` are proved apart; `WebSpec` of the run plays either.
  `SessionInv` says that what the page awaits tells what it may show: while it waits for
  a configuration or an analysis the old one is gone, and a call that is no longer of the
  active client can change nothing. `PanelInv` says that what a panel believes of its
  attempt (uncertain, rejected, not stored, the record it shows) is true of the row of
  the server, in spite of lost and late answers. The handlers of a panel are functions
  from record and answer to a record; one lemma per handler shows that its result follows
  from what the answer says, and one lemma puts that record back on the page.
  `OneAttempt` and `ForgetsSettled` are consequences.

**Only model-checked**: all liveness (fairness and ENABLED are out of the prover's
reach): `EveryCallAnswered` and its likes in `ml`, `draft`, `review` and `store`; the
properties of the run `algorithms` about computations (`SilentIsNotHealthy`,
`CriticalStands`, `DatasetsAreSound`, `ComparisonsAgree`, `DeviationsAreJustified`,
`EveryLineAccounted`, `SettingsStandWhereWritten`), which rest on what folds over lines,
evidence and records answer for every input: induction over data is out of the installed
provers' reach.

## 5. What is not modelled

- *Network verification.* The Batfish container is external and its projections are long
  case tables over its answer types; what the service does with a finished, failed or
  missing answer is in `EvidenceChain` and `ModelPatchReview`.
- *Explanations and knowledge*: templates, privacy filters, prompts and receipts are text
  processing without shared state. The slot they share with the drafts is in
  `ModelPatchDraft`; the vendor generator is `Repaired` in `ServiceStore`.
- *Numbers of the detectors and of training*: statistics, losses, tokenizers and
  mutation of configurations; their properties are statistical. Topology findings too.
- *Web*: validation of contracts, layout, `FeedbackPanel`, `AuditPanel`, `DiffPanel`, the
  banner of native origins, and the review of `PatchPanel`. That panel's `select` forgets
  an unsettled review and clears `uncertain`; a lost POST that never arrived leaves a
  panel locked until it is mounted anew.
- *Loading of settings, migrations, demo, ingestion, build*: run once, or drive the same
  services.
- *Everywhere*: hash functions and encryption (a fingerprint stands for the record it is
  computed from), canonical JSON, layouts and texts, HTTP parsing, detection of the
  vendor, the line coverage report's layout.

`PROJECT.json` lists every component with its status.
