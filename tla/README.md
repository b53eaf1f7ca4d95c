# ctxalloc: formal models

TLA+ models of ctxalloc, the TypeScript monorepo that compiles a token-budgeted
context out of candidate blocks, keeps an audit trace of every decision, and
serves it through a command line and an HTTP API. The modules are translated
from the source; `PROJECT.json` maps each definition to the lines it models.

## 1. Inventory of the system

| Component | State it keeps | Operations | Talks to |
|---|---|---|---|
| `BudgetAllocator` (`packages/compiler`) | remaining tokens, decisions, per-category counts, during one call | `allocate` : required, category minimums, optional, eviction order | called by the compiler, pure |
| `ContextCompiler` | visited selections, measurement cache, statistics, during one call | `compile`: validate, deduplicate, score, filter, allocate, render, *correct*, assemble | tokenizer (may fail at any call), the stages below |
| validator, deduplicator, scorer, filter, orderer, renderer | none | pure functions of the batch | tokenizer |
| compilation trace, persisted trace | none | settlement of every block; acceptance of a stored trace | stores |
| ports (`packages/ports`) | none | the promises every adapter makes | everything |
| `SqliteTraceStore`, `SqliteControlStore` | the database file, its schema version, one lock | open/migrate, `putTrace`, `getTrace`, `listSources`, `registerSource`, `updateSource`, `removeSource`, `close` | SQLite; several processes share a file |
| application services (`packages/application`) | none | ingestion and chunking; prepare a local corpus; compile it; persist; register sources | ports, across `await` |
| `NodeFileSourceReader` | none | stat, open, fstat, read, re-resolve | the file system, which changes meanwhile |
| `AnthropicModelProvider` | a timer and an abort controller per call | `generate` | HTTP |
| `MiniSearchCandidateProvider` | none | `getCandidates` | third-party index |
| `EvaluationHarness` | last clock reading, shared by concurrent suites | `runSuite` | model provider, compiler |
| HTTP API (`apps/api`) | ready, stopping, active count, idle waiter, server and runtime | handle a request, `markReady`, `beginShutdown`, `whenIdle`, `listenApi`, `close` | services and stores |
| CLI (`apps/cli`) | none | one command per process | services and stores |

How they interact: a request enters through the CLI or the API, which builds
ports and calls an application service; the service reads the registry from the
control store, reads and chunks the sources, retrieves candidates, calls
`ContextCompiler.compile` (synchronous, from the first line to the last) and
persists the trace before the answer is given. Concurrency exists in three
places only: between processes that share a database file, between requests of
the API at their `await`s, and between this process and the outside (the file
system, the model's HTTP answer, the client that disconnects).

What is hard, and what makes each part correct:

* *Allocator.* Budget arithmetic at the boundary, the interplay of required
  blocks, minimums and maxima, an eviction order that the correction stage uses
  without checking it. Correct when the decisions replay, respect the policy and
  are justified by rank, and when a refusal is a proof of infeasibility.
* *Correction.* The rendered size of a selection is neither additive nor
  monotonic, so the compiler searches; the search is bounded, reports either a
  proof of infeasibility or an interrupted search, and must say which honestly.
* *Lazy generators.* They prune; each pruned branch must be one that yields
  nothing, and barren work must stay bounded because the visit bound counts
  only yields.
* *Stages.* Duplicates are merged by normalized text while hashes are of the raw
  text; evidence is checked before the merge and used after it; a trace builder
  re-checks every stage and could refuse what the stages legally produce; the
  reader of a stored trace has conditions of its own. Correct when no stage
  contradicts another and the order of the input decides nothing.
* *Stores.* Two processes open, migrate and write one file; a process may die
  between BEGIN and COMMIT. Correct when each answered call took effect at one
  instant, when an acknowledged write survives, and when a trace never changes.
* *Local compilation.* The registry is listed once and files are read across
  awaits; blocks are lent to a provider that keeps them and returns objects it
  can still change. Correct when what is compiled is what was prepared.
* *API.* Admission, shutdown, disconnecting clients and the drain of active
  requests before the stores close.
* *Files.* Time of check against time of use, over a handful of system calls.
* *Model calls and evaluation.* A timer against a late answer; one clock and one
  last reading under suites that run at the same time.
* *Chunkers.* Boundaries between lines, code points and blocks that may not be
  cut, under a tokenizer whose counts are not monotone in the text.

`PROJECT.json` lists every component with its status and every hazard at its
line, with the properties that watch it.

## 2. Modules

| Module | Models |
|---|---|
| `CandidateBatch` | the allocator's input: blocks, their costs, scores, categories and obligations, the policy and the budget; the comparators |
| `BudgetAllocator` | `BudgetAllocator.allocate`, one action per loop iteration |
| `AllocationContract` | what `allocate` promises: it accepts exactly the feasible batches |
| `CorrectionOrder` | the documented orders of bases and rescue selections, as relations |
| `RenderCorrection` | `ContextCompiler.compile` from the allocator on: the allocation, then `#settle`, `#searchFallback`, `#visit`, `#measure`, `#exhaustedFailure`, `#assemble` |
| `EnumerationContract` | what a lazy generator promises: each member of a finite set once, in an order |
| `HardBaseEnumeration` | `#categoryDeficits`, `combinations` and `cartesian` as nested generators |
| `RescueEnumeration` | `categoryBudgets`, `policyValidOptionalSelections` and `subsetsOfSize` with every prune |
| `CandidateIntake` | documents, blocks, wrappers and locations; `CandidateValidator.validate` and `CandidateDeduplicator.deduplicate` |
| `CandidateScoring` | the scoring policy, the early evidence check, the five components, totals and ranking |
| `FilteringAndRendering` | `CandidateFilter`, `ContextOrderer`, `ContextRenderer` |
| `CompilationTrace` | `TraceBuilder.build` with its checks, and `settleCompilationTrace` |
| `PersistedTrace` | `SettledCompilationTraceValidator`: what is accepted when it is read back |
| `PortValues`, `PassiveData` | what a call through a port may end in; the walk that reads an unvouched value without running its code |
| `CompilerStages` | the composition of the stages from an unvouched request to the trace read back |
| `SourcePreparation` | registrations, the registry service, ingestion and `PrepareLocalCorpusService` |
| `CandidateRetrieval` | `MiniSearchCandidateProvider` around a search engine it does not trust |
| `LocalCompilation` | the composition: `CompileLocalContextService.execute` over registry, files, provider and trace store that change meanwhile, and `CompilationTracePersistenceService`, which reads envelopes and records back |
| `StoreData` | the content of the database file and the calls of the three storage ports |
| `StoreContract` | what the ports promise: each call takes effect at one moment, or fails without effect |
| `SqliteStore` | `SQLiteTraceStore`, `SQLiteControlStore`, `openDatabase`, `inTransaction` and the migrations, one action per SQL statement, by any number of connections |
| `ApiServer` | the request handler, body reader, listener, shutdown and runtime of `apps/api`, with the compile, persist and answer order of `CompileAndPersistLocalContextService`, one action per turn of the event loop |
| `FileReader` | `NodeFileSourceReader.read`, one action per system call, in a tree others change |
| `ModelCalls` | `AnthropicModelProvider.generate` with its timer, its abort and its server |
| `EvaluationMeasures` | baselines, coverage, fact loss, answers, distributions of the evaluation package |
| `Evaluation` | `EvaluationHarness.runSuite`, several suites on one harness, over `ModelCalls` |
| `Chunking` | the Markdown, text and conversation chunkers, with the shared boundary search |
| `MC*` | constants of the runs |
| `CandidateBatchProofs`, `RenderCorrectionProofs` (the allocator and the correction), `RescueEnumerationProofs` (both generators of the search), `CompilerStagesProofs`, `LocalCompilationProofs`, `SqliteStoreProofs`, `ApiServerProofs`, `FileReaderProofs` | theorems |

How they compose. `RenderCorrection` extends `BudgetAllocator` and runs it as its
first part. `CandidateIntake`, `CandidateScoring`,
`FilteringAndRendering`, `CompilationTrace` and `PersistedTrace` extend one another
in the order in which the pipeline calls them, and `CompilerStages` runs them.
`LocalCompilation` extends `SourcePreparation` and `CandidateRetrieval` and runs
them; `Evaluation` runs `ModelCalls`. `SqliteStore` refines
`StoreContract`, `BudgetAllocator` refines `AllocationContract`, and the two
generators refine `EnumerationContract`.

### State and code

In `BudgetAllocator` the variable `batch` is the request (fixed by `Init`,
unchanged ever after), `phase` the loop `allocate()` is in or its outcome, `todo`
the candidates that loop has yet to visit, `included`, `excluded`, `remaining` and
`selected` the fields of its private state, `eviction` the order being built,
`counts` the simulated counts of `#evictionOrder`, `issues` the codes of the error
thrown. In `RenderCorrection`, `visited` and `measured` are the sets and maps of
the compiler's private state, `evicted` how many entries of the eviction order
were given back, `stage` the part of `#settle` that runs or the outcome of
`compile()`, `chosen`, `path`, `reasons` and `decisions` what settled, and `failure`
the code thrown. `pending` stands for a lazy generator: the selections it has yet
to yield, taken in the order of `CorrectionOrder`; the two enumeration modules show
that the real generators produce exactly that order.

In `CompilerStages`, `request` is the parsed request and `value` the object graph it
is read from (objects are numbers, so that loops and shared parts can be told
apart), `answers` the tokenizer's verdict on the contents of blocks, `stage` the
stage that runs next or the outcome, `out` the outputs of those that have run,
`issues` and `failedAt` the error thrown. One action is one stage: each is a pure
function that collects every issue before it throws.

In `SqliteStore` the variable `file` is the published content, `draft` what an
open transaction would publish, `lock` the lock each connection holds, `at` the
statement it executes next (`begin`, `body`, `commit`, `publish`, `rollback`,
`read`), `call` and `answer` the port call and what its promise settles with.
`acknowledged` is a history variable: the traces some caller was told are stored.
`BEGIN IMMEDIATE` is `Begin` or `BeginFails`; the callback given to
`inTransaction` is `Body`, whose decision is `Migrate`, `PutTrace`,
`RegisterSource`, `UpdateSource` or `RemoveSource`; its `catch` is `Abandon`
followed by `Rollback`. `Leave` is `close()` and also a crash.

In `ApiServer` the variables `ready`, `stopping` and `active` are the handler's
own, `idle` is the promise of `whenIdle()`, `listener`, `timer` and `closed` belong
to `listenApi` and its runtime, and `conn`, `pc`, `sent`, `stored` describe each
request: its connection, the await its handler stands at, its answer, and
whether its trace is in the store.

In `LocalCompilation`, `stage` is the await `execute()` stands at; `registry` and
`files` belong to the operator, `listing`, `sources`, `documents` and `blocks` to the
service; `heap` holds the objects that two parties may share, under numbers: a
copy has a number of its own; `prepared` are the numbers the service holds, `lent`
and `answer` (together `Known`) those the provider holds and may change (`Meddle`) at
any time; `engine` and `result` are what the search engine and `execute()` answered;
`stored` the records of the trace store. A source that cannot be read, ingested or cut (the
chunker's tokenizer may fail wherever there is something to count) ends the call
under the stage of its own: `source-read`, `source-ingestion`, `source-chunking`.

In `FileReader`, `step` is the next system call, `tree` and `disk` the entries and
the inodes (both changed by `Relink` and `Write`, the other processes), `target`
the path the locator resolved to, `before` the inode of the first `stat`, `handle`
the open one, `bytes` what was read; `stood` and `written` are history: the entries
seen and the inodes written since the call began.

In `ModelCalls` a call is a record of `calls` with the await it stands at and
whether its signal was aborted. In `Evaluation`, `runs` is the local state of
each `runSuite`, `last` the reading the harness remembers, `clock` and `kind` what
the clock port answers; `first` and `asked` are history. The reading that ends the
baseline call and the one that starts the compiled call are two steps
(`BaselineReturns`, `AsksCompiled`), since an `await` lies between them. A case whose
candidates are no valid batch (`batch`) has no baselines, and no model is asked. In `Chunking`, `line`,
`headings` and `spans` are the scan, `section` and `blocks` the cutting and grouping.

### Choices of abstraction

* Identifiers are natural numbers, so `<` is the code-unit order of the source's
  string comparison; where the order of digests has nothing to do with the order
  of names, the rank is a constant function. An undeclared minimum is 0, an
  undeclared maximum the number of blocks.
* The tokenizer's verdict on a rendered selection is arbitrary: any selection may
  fit or not, independently of its content, and any call may fail. Nothing the
  code relies on is assumed of it beyond returning the same verdict for the
  same text. The size limits of the content itself are exact sums. A renderer
  failure before the first measurement is one of the outcomes of the first render.
* `compile` is synchronous: no other process step interleaves with it. In
  `CompilerStages` allocation has no categories and correction is any admissible
  selection, because `BudgetAllocator` and `RenderCorrection` model both in full.
* A content is a value with a normal form (its text with one kind of line end);
  a hash is equality of values. Scores are multiples of a unit that every window
  divides, so that quotients are exact; weights are naturals.
* Sorting in the stages of the compiler, in preparation and in retrieval is `Sorted`
  of `PortValues` (or `Listed`, of a set): stable, as `Array.prototype.sort` is, and
  defined by the place of each element, which is how many come before it, so that the
  provers can reason about it as TLC does. `Filtered` keeps what passes a test, as
  `Array.prototype.filter` does. Both are external. The correction sorts distinct
  blocks in a strict total order, where `Ascending` of `CorrectionOrder` says the same.
* A value nobody vouches for is a graph of objects with kinds of fields (data,
  accessor, symbol key), enough to tell what each reader refuses.
* A row of the database is a model value, absent, or unreadable for this build;
  JSON and hashes are left out. `INVALID_INPUT` and `INVALID_CONFIG` are decided
  before any statement and are left out too.
* SQLite is external. The code opens files with the defaults, so the model has
  the rollback journal with its shared, reserved, pending and exclusive locks,
  and no busy timeout: a statement that meets a lock fails. A COMMIT that meets a
  reader fails and keeps its pending lock until the ROLLBACK of the code.
* Node's HTTP server is external: it delivers events, may end a connection at any
  moment (the client leaves, or a configured timeout fires), and completes
  `server.close()` when no connection is left. Each request has a connection of
  its own. Routing and header checks are one choice between accepted and not.
* In `FileReader` a path is a sequence of names; the directories above an entry are
  the operator's and do not change. A `realpath` is one step, and any system call
  may fail.
* In `Chunking` what a line is (a fence, a heading, an item, a rule, a table) is
  given with the line: the regular expressions that tell are left out, the state
  machine that uses the answer is not.

## 3. Runs

| Run | Instance | States | Shows |
|---|---|---|---|
| `allocator` | 3 blocks of 0 to 2 tokens, one category, every minimum and maximum the parser accepts, three sets of required blocks, three orders of score, a tight and a wide budget | 233 472 | `DecisionsReplay` (an exact chain from the available tokens to the remainder, each block decided once), `CategoryLimits`, `ScoreOrderJustified`, `EvictionPrefixSafe`, and `ImplementsContract`: `allocate` refuses exactly the infeasible batches |
| `render_correction` | 4 blocks, 2 categories, search bounds 1, 3 and 16, any verdict per selection | 441 788 | `SettledSound`, `ExhaustionIsProof`, `SearchIsAccounted` (a bound is honest, nothing is tokenized twice), `SettlesFirstFit`, `FirstBaseIsAllocators`, `DecisionsExplainSettlement`, `CompilationEnds` |
| `rescue_enumeration` | 6 candidates, 2 categories | 179 944 | `ImplementsRescueOrder`: the pruned walk refines `EnumerationContract`; `WorkFollowsYield`: in each size begun the calls of `walk` are at most one per pair of positions of the pool, and as many again for each selection yielded |
| `hard_base_enumeration` | 6 candidates, 3 categories | 3 040 | `ImplementsBaseOrder`: the nested generators refine `EnumerationContract` |
| `compiler_stages` | about 9 000 requests of up to 3 wrappers, 13 policies, `MaxSafe` 7, `MaxFinite` 40 | 107 933 | `DuplicatesMeet`, `RequiredSurvives`, `OrderIndependent`, `RepetitionDoesNotScore`, `EarlyEvidenceCheckIsComplete`, `PipelineTraceAccepted` (the builder refuses nothing the stages produce, the validator nothing that was settled), `PassiveWalkExact` |
| `sqlite_store` | 2 connections, one registration key and one trace identifier they compete for, two traces, two scopes, every kind of file at the start | 53 676 | `ImplementsStoreContract`, `AcknowledgedIsStored`, `WritesOnlyWholeSchema`, `NoLockOutlivesItsCall`, `CallsAnswered` |
| `api_server` | 3 requests, 2 slots | 38 398 | `SlotsMatchRequests`, `StoresOutliveRequests`, `CompiledIsStored`, `ShutdownCompletes`, `AbandonedRequestsEnd` |
| `local_corpus` | 2 files, 2 registries, 3 entries the operator may add, answers of up to 2 hits, limit 1, 1 edit, 1 change by the provider, 7 unsound records | 2 325 290 | `CompiledIsPrepared`, `CorpusIsOneReading`, `RetrievalIsCanonical`, `TraceReadIsTheirs` |
| `provider_ownership` | as `local_corpus`, with symbol-keyed fields | stops at the counterexample | expected violation of `ResultIsOwned`, see below |
| `file_reader` | 2 entries inside the root and one outside, in a directory whose name begins like the root's; 2 files and a pipe, contents below, at and above the limit of 2, reads of 2, 3 changes | 699 082 | `ReadIsConfined` |
| `evaluation` | 2 suites on one harness, 6 pairs of suites, a monotone clock or any, times 0 and 1 | 328 919 | `ReportsAreHonest`, `SuitesEnd` |
| `chunking` | every text of 4 to 6 units, every Markdown document of up to 4 lines over 7 kinds of line, for 3 families of kinds | 100 845 | `BlocksCoverTheSource` |

The `api_server` run uses `ApiServer` itself: its three constants need no
definitions. Three requests compete for two slots: one may be refused, one may
stall in its body, one may work while the server shuts down.

The types, and three properties the runs used to repeat (`BudgetChain` and
`DecisionsPartition`, now the two halves of `DecisionsReplay`;
`StoredTraceNeverChanges`; `NoAdmissionAfterShutdown`), are proved below for every
instance.

### A finding

`provider_ownership`. `CompileLocalContextService` promises that its result shares
nothing with the provider; the comment at
`compile-local-context-service.ts:415` argues that a candidate that cannot be
copied may be passed through, "because no compilation containing it succeeds".
`canonical-record.ts:94` refuses to copy an object with a symbol key, but the
compiler's own snapshot copies it (its strict schemas look at string keys), so
such a candidate compiles, and the published result holds the provider's object.
`local_corpus` has no symbol keys and shows that nothing else is shared.

Observed and not a finding: the comparator of `rankCandidates`
(`evaluation-baselines.ts:297`) is not transitive when, among candidates of equal
score, only some carry a rank: two that both have a rank are compared by it, any
other pair by identifier. `BaselinesFit` therefore claims independence of the
input's order only where all or none carry one, and no document claims more.

### Why the bounds are enough

Three blocks with one category let a required block, a minimum and an optional
block compete for one budget, let a category be at, below and above each of its
bounds, and let ties in cost and score be broken by identifier. Four blocks with
two categories are the smallest batch in which a hard base has alternatives in
two categories, a rescue selection joins it, and the three search phases revisit
one another's selections; bound 1 stops in the first phase, 3 in the middle and
16 = 2^4 never. Six candidates give a generator of combinations with a position
that is not the last to advance.

Three wrappers are a duplicate of a group and a wrapper beside it, in every
order; the contents have a pair that differs only in line ends, one that is no
well-formed text and one the tokenizer fails on; `MaxSafe` and `MaxFinite` stand
for 2^53 - 1 and the largest double, small enough that a sum of three can pass
them. The policies cover each version, each component alone, the evidence rules
and an exclusion of each kind.

Two connections contend for every lock in every order, and one key and one
identifier make every pair of calls a conflict; the initial files cover a new
one, a foreign one with a table of the same name, older content, damaged rows,
a newer schema and an unreadable version. What a third connection or a fourth
request of the API could add is covered by the proofs, which fix neither number.

In `local_corpus` two sources are the fewest that are read at different moments;
one edit by the operator can fall before, between and after the two reads, and
one change by the provider can hit a lent block, its answer or the published
result. A file with two equal pieces gives two blocks of equal content; a moved
source gives two registrations of one file. In `file_reader` three changes replace
an entry by a link, redirect it and put it back; a limit of 2 bytes reached in
reads of 1 and 2 has a file below it, at it and above it. In `evaluation` two
suites are enough to interleave their clock readings; times 0 and 1 let a reading
repeat, advance and, with a clock that is not monotone, run back. In `chunking`
four lines are a fence opened and closed around a line with one after it, and six
units a pair of surrogates that straddles a boundary at either side.

### Fairness

`RenderCorrection` assumes weak fairness of its own next step, because `compile`
is synchronous code that runs until it returns or throws. `SqliteStore` assumes
it of the next statement of each connection for the same reason (`node:sqlite` is
synchronous); nothing is assumed of a process that may die or of another
connection giving its lock back, since nobody waits for one. `ApiServer` assumes
that the promises of the services settle, that the grace timer fires, and that
an aborted body is reported; it assumes nothing of a client, who may never send
the rest of a body and never leave. `Evaluation` assumes it of the turns of each
suite and of the runtime (the timer fires, an abort rejects what is awaited),
and nothing of the model's server: `SuitesEnd` holds because the timer ends what
the server does not. `CompilerStages`, `LocalCompilation`, `FileReader` and
`Chunking` state safety only. Deadlock is checked in
`sqlite_store`, `local_corpus`, `file_reader`, `evaluation` and `chunking`, where an
ended call has a step of its own; the other systems really stop: a call that has
returned or thrown, a generator that is exhausted, a server that is closed.

## 4. Proofs

`CandidateBatchProofs` has the lemmas on finite sets, counts and the
comparators. The first part of `RenderCorrectionProofs`, on the allocator, proves,
for every set of blocks, of categories and every batch, `TypeOK`, `DecisionsReplay` (with its halves
`BudgetChain` and `DecisionsPartition`), `CategoryLimits`, `EvictionPrefixSafe`,
`ScoreOrderJustified` and the refinement `ImplementsContract`.
The inductive invariant `LoopInv` adds to those what each loop knows of its
pending set: which obligations are already discharged, that the reserved set is
closed under "cheaper in the same category", and how many of each category are
included; without it a step of the optional pass could not know that a block it
meets was never decided before. `BudgetInv` ties the remainder to the cost of what is
included; `ScoreInv` says that the optional pass has decided what outranks the blocks
it has yet to visit, so that at each exclusion the blocks that outrank it are the
included ones and stay so, and its reason stays true (`ExclusionsJustified`).
The refinement rests on two arguments about finite sets: a set of blocks that are
the cheapest of their category for their number costs no more than any other with
those numbers, so a batch the allocator refuses has no feasible selection; and the
selection it accepts is itself a witness. Sums over a set are reasoned about through
one fact per use (adding or removing one member), each by induction on finite sets
or from a smallest counterexample.

The second part of `RenderCorrectionProofs` first shows that a compilation, seen on the allocator's
variables, is a behaviour of `BudgetAllocator` (`CompilationRunsAllocator`): each
step of the correction leaves them unchanged. The allocator's theorems therefore
hold inside the compilation, and `SearchContext` carries the facts the
correction takes from them (in particular that every eviction prefix keeps the
minimums). On top, `SearchInv`, `AllocationInv` and `OutcomeInv` give
`SearchTypeOK`, `SettledSound` and `ExhaustionIsProof`. `FirstBaseIsAllocators` needs
that the allocator's reserved set precedes every other hard base in the order of the
enumeration (`ReservedIsFirstBase`) and, from the allocator (`RolesInv`), that what it
included for minimums is exactly what the batch names. `FitInv` says that what precedes the chosen selection in the order of
its phase was rejected, and with the sets of visited and measured selections it
gives `SettlesFirstFit` and both halves of `SearchIsAccounted`. `ChoiceInv` says
which path found the chosen selection and which reason each of its blocks carries,
hence `DecisionsExplainSettlement`.

`RescueEnumerationProofs` proves `ImplementsRescueOrder` for any policy and pool. A
selection is the set of the positions of its optional blocks (`FittingIsValid`: one
for one), so that the rescue order becomes the order of those sets
(`OrderOfPlaces`). The walk has decided the positions below `at` and taken those of
`Taken`. At the head of a loop what it has still to yield at the current size is every
set that agrees with `Taken` so far, or follows it (`Rest`); on the way back, only
what follows it (`Later`). `YieldInv` says that the valid sets outside of those are
exactly the ones yielded. Each step keeps that: skipping a full category loses
only sets over the maximum, taking a position and giving it back move the boundary
without crossing a set (`TakeKeeps`, `BacktrackKeeps`), a pruned branch and the sizes
never tried hold no valid set (`PruneIsSafe`, `FittingSizes`). The sums over categories
in those two are compared pointwise (`SumPointwise`), and the range of a category
in the pool holds all of its members because the pool is sorted
(`CategoryRange`).

The same module proves `WorkFollowsYield`. `WorkInv` accounts for every call of `walk`
by the size it runs in and the positions held when it is made, each such pair at most
once (`Accounted`, `Met`). A call has a caller, and the caller passed the prunes.
`UnprunedCompletes` shows that the prunes are exact: what passed them can be completed
to a valid set of at most that size, by the positions its minimums are owed
(`Reserved`) and any others there is room for. That set was either yielded or still
lies ahead, and then the caller is still on the stack (`CallerIsKnown`). So a call is
named by its size, a selection yielded (or the present stack), a number of positions
kept of it and the position added, and `AccountedBound` counts those names. The number
of sizes begun is part of the bound on purpose: `3 * calls <= (n + 2)^2 * (yielded + 1)`
also holds for every policy over 6 candidates, but policies over 16 candidates
exceed it, because a size may begin that yields nothing at all.

The same module proves `ImplementsBaseOrder` of `HardBaseEnumeration`, for any policy
and batch. A base is known by the positions it takes from the pool of each category in
deficit (`SameBase`), and the order of bases is the order of those sets of positions,
the first category in which they differ deciding (`OrderOfBases`). `NestInv` says that
the tuple of a running generator is a combination, strictly ascending and of the size
needed. `Awaited` names the bases still to come: while generators are being started,
those that agree with every tuple already set or come after one of them; while one
is being advanced, only those that come after. `BasesInv` says that all the other bases
were yielded. Three facts about combinations keep it: the identity tuple is the first
(`FirstCombination`), a tuple with no movable index is the last (`LastCombination`), and
what follows a tuple is its successor and what follows that (`NextCombination`, with
`SuccessorFacts` for the code's last movable index and the indices packed behind it).
So a base that is yielded is the first of those awaited, and when the outermost
generator ends nothing is.

`SqliteStoreProofs` proves, for any number of connections, any set of calls and
any initial file, the refinement `ImplementsStoreContract`,
`StoredTraceNeverChanges`, `AcknowledgedIsStored`, `WritesOnlyWholeSchema`,
`NoLockOutlivesItsCall` and `StoreTypeOK`. The inductive invariant says which lock
goes with which statement (`LockInv`) and, for a transaction that has decided,
that its draft and its answer are promised *for the file as it is now*
(`FreshInv`). The second is inductive because of the first: a file changes only at
the publication of the one exclusive writer, beside which no transaction that
has decided can exist. `SchemaInv` says that only a constructor runs on a file
that is not of the current schema. One lemma per body shows that what it decides
is what the port promises (`MigrateOutcome`, `PutTraceOutcome`, `SourceOutcome`,
...), and one lemma (`StatementEnds`) that every statement that ends a call
answers what is promised at that moment, which is the refinement's only
interesting step.

`ApiServerProofs` proves the safety properties of `ApiServer` for any number of
requests and slots: `ApiTypeOK`, `SlotsMatchRequests`, `StoresOutliveRequests`,
`CompiledIsStored` and `NoAdmissionAfterShutdown`. The invariant adds that the
flags follow the listener (`FlagsInv`) and that the promise of `whenIdle()`, once
resolved, means that nothing is admitted and nothing will be (`IdleInv`).

`FileReaderProofs` proves `ReadIsConfined` for any tree, any disk, any locator and
limit, and any number of changes by others. The property speaks of the end of a
call; what carries it there is that every entry ever at a path since the call
began is in the history (`StoodInv`), that the target was inside when it was
resolved and is not recomputed (`TargetInv`), that the handle is of what stood at
the target when `open` ran, which O_NOFOLLOW makes an inode and no link
(`HandleInv`), and that what was read so far is a prefix of the file unless
somebody wrote to it (`BytesInv`), so that a read that finds nothing left has the
whole of it. Neither the first `stat` nor the second resolution is needed for the
property; they narrow which of the entries that stood there is read.

`LocalCompilationProofs` proves, for any registry, files, hits, limit and number of
edits and changes, five properties of a whole compilation. `CorpusIsOneReading`
follows from `CorpusInv`: what was read so far is a prefix of the listed sources,
each with a content its file held during the call (`ReadInv`), and what the
provider was given is the whole of it. `CompiledIsPrepared` and `ResultIsOwned`
follow from `HeapInv`: the numbers the service holds and those the provider holds
are disjoint, so that `Meddle` never reaches what is compiled or published. Both
have the hypothesis that no object carries a field under a symbol; the run
`provider_ownership` is the counterexample without it, so it cannot be dropped.
`TraceReadIsTheirs` follows from `TraceInv`: what is stored is the envelope of this
compilation's trace, and what was read back is what the service accepts of an answer
of at most one record, whatever record the store gave.
`RetrievalIsCanonical` compares the answer with the one an engine that returned the
same hits in any other order would have led to. `EngineInv` carries the engine's
answer to the moment the provider's is read, and the rest is about sorting: `Sorted`
is a permutation in order, since the place of each element counts what comes before
it; `TwoArrangements` shows, by the pigeonhole principle, that two arrangements of
the same hits under one comparator agree but for ties (else the first k of one would
lie among the first k - 1 of the other); and ties are equal hits, because the ranks of identifiers tell them apart.

`CompilerStagesProofs` proves, for any request of the shape its schemas admit, any
tokenizer and any answers of the renderer, six properties of the pipeline. Its
invariant is about what the stages hand on (`StagesHandOn`): `OutputInv` says that each
output is a function of the request, of the verdicts of the tokenizer and of nothing
else, `CheckedInv` what a stage that has run did not refuse, and `FailureInv` that
a failed compilation reports what the stage named by `failedAt` refuses of what the
earlier ones handed on. What is left of each property is then about those functions.

* `DuplicatesMeet`: two wrappers of one content have the same fields in the order of
  the merge, hence meet in one group.
* `EarlyEvidenceCheckIsComplete`: the components that need evidence read nothing that
  the early check did not look at, and a group has the fields of its members.
* `RepetitionDoesNotScore`: each component of a group is that of one of its wrappers
  (`Strength`, `Worth`), so a group of equal wrappers scores as one of them does.
* `RequiredSurvives`: a required member makes its group required, a required group is
  not filtered but reported, what is allocated contains the required ones, and what
  is rendered is what was settled on (`SettledInv`).
* `OrderIndependent`: two runs over the same wrappers in another order are compared
  stage by stage. Each stage sorts by an order in which ties are equal wrappers
  (`RetrievalKey` tells them apart), so that two arrangements of the same places agree
  (the pigeonhole argument of `LocalCompilationProofs`), and every sum, group and
  maximum is taken over a set.
* `PipelineTraceAccepted`: the evidence the trace builder sees is what the stages
  handed on and what was rendered of it (`RenderedInv`), so each of its checks has a
  lemma (`GroupsCoherent`, `ScoresCoherent`, `FilteringCoherent`, `AllocationCoherent`,
  `RenderingCoherent`): a later stage restates what the earlier ones decided, and no
  stage names a group twice. The totals are sums over finite sets (`SumUnion`,
  `SumRenamed`, `SumMonotone`): the groups are parted into filtered, not allocated and
  included, and the canonical blocks weigh at most what the batch weighs
  (`CanonicalWithinBatch`), so that no sum overflows unless the sum of the batch does.
  `TracedInv` carries what the builder found to the end, and that what was stored is
  the settlement of some admissible selection; `SettledAccepted` then goes through the
  validator's conditions on it, so that `persistence` never fails on what was settled.

Assumptions: the named `ASSUME`s of `CandidateBatch` and `RenderCorrection`
(finite sets of natural identifiers, non-empty limits), of `RescueEnumeration` (a
policy names finitely many categories), of `StoreData` and
`SqliteStore` (a missing or unreadable row is no row of another kind; a file that
records the current version has its tables, since both are written in one
transaction), of `ApiServer` (finitely many requests, at least one slot) and of
`FileReader` (a positive limit; entries lead to inodes that exist), of
`SourcePreparation` (`PreparationAssumption`: a chunker gives every content a finite
sequence of blocks) and of `LocalCompilation` (`RegistrationAssumption`: finite
registries with known types and orderable names; `DigestAssumption`: the digests of
documents and of blocks do not collide; `RetrievalAssumption`: a positive limit,
scores that compare). For the stages: `ContentAssumption` of `CandidateIntake` (texts are
compared as code units are, so their order is that of numbers), `UnitAssumption` of
`CandidateScoring` (a positive unit of scores) and `StagesAssumption` of `CompilerStages`,
by which every request has `RequestShape`. That shape is what the parsers let through:
the schemas of a block and of a candidate (`context-block.ts`, `candidate-block.ts`,
`source-location.ts`), of a scoring policy (`candidate-scorer.ts:511`), of a filtering
policy (`candidate-filter.ts:334`), of the budget (`token-budget.ts:28`: what is available
is a safe integer) and of the request itself (`compilation-request.ts:194`). It also says
that a batch has no more wrappers than there are safe integers, which no array exceeds;
`StagesAssumption` adds that the verdicts of a tokenizer on a rendering are a count, an
exception or an unusable value, as the code tells them apart. TLC evaluates them all in every run of those
modules.

Only model-checked. `CompilationEnds`, `CallsAnswered`, `ShutdownCompletes`,
`AbandonedRequestsEnd` and `SuitesEnd` are liveness, which is out of the prover's
reach, and `PassiveWalkExact` says what a recursive function computes for every value,
which is induction over data. `ReportsAreHonest` and `BlocksCoverTheSource` are not
proved either: what they say of a report and of a source is for the larger part what
folds, flattened and sorted sequences and the recursive cutting of a range compute for
every input. The clock of a report is the part of them that an invariant over the
steps would give.

## 5. Not modelled, and why

* The command line: one process, one command, argument parsing and printing
  around the services modelled here. Its effect on a shared database is that of
  the stores, which any number of connections open.
* Benchmarks, release evidence and the scripts of the repository: sequential
  tooling over text and the TypeScript compiler, not part of the running system.
* The tokenizer adapter and the testing doubles: a third-party encoder behind one
  call, replaced by an arbitrary tokenizer everywhere.
* The grammars of text: regular expressions of the chunkers, JSON, canonical
  serialization, schemas of strings, wording of errors and reports. Where the
  control depends on them the answer is an input of the model.
* The floating-point kernel of the scorer (exponential decay, rounding) and the
  means of the reports: integers over a unit and ratios stand for them.

## 6. Plan

1. done: allocator, correction, generators, with their proofs.
2. done: `StoreContract` and `SqliteStore`, refinement checked and proved.
3. done: `ApiServer`, safety proved.
4. done: the stages of the compiler with the trace, `CompilerStages`.
5. done: `LocalCompilation` with preparation, retrieval and persistence.
6. done: `FileReader`, proved; `ModelCalls` and `Evaluation`; `Chunking`.
7. done: the rest of the allocator and of the correction, `LocalCompilation`, the
   two generators and the stages of the compiler, proved.
8. Proofs left, in this order: the clock of `ReportsAreHonest`;
   `BlocksCoverTheSource`.

New properties should state what crosses two components (a registry that changes
under a compilation, a trace that one build writes and another reads) rather
than add to the ones above.
