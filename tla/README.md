# A verification development for TokenOpt

TokenOpt compiles the transcript of an LLM agent into a shorter one before each
model call. It parses the messages into typed blocks, runs a pipeline of
transforms over them (moving old tool results to cold storage, dropping,
summarising, reordering), asks a sufficiency oracle whether enough is left, and
answers with the compiled messages or, on a failed check, with an error or the
input. An HTTP server, two native bindings and a command line call this core;
an orchestrator runs it for several agents at once under one token budget.

This directory holds TLA+ models of that core, TLC configurations that check
them on small instances, and TLAPS proofs of what matters most for every
instance. Paths are relative to `crates/tokenopt-core/src/` unless they start
with a directory of the repository.

## 1. The system

| component | state it keeps | operations | in module |
|---|---|---|---|
| cold store (`store.rs`) | payload per `ref://session/key`; a map, or files | `put`, `get` | `Session`, `Vault`, `FileStore` |
| compile requests (`compile.rs`, `transform.rs`, `middleware.rs`) | blocks of the running request; the agents' transcripts around it | `compile_context`, `on_before_model` | `Session` |
| representation (`ir.rs`, `tokens.rs`) | blocks of one call | `parse_transcript`, `mark_failed_tool_results`, `extract_referents`, `blocks_to_messages`, `validate_blocks`, estimates | `Blocks` |
| transforms and their order (`transform.rs`, `extended_transforms.rs`, `bacm.rs`, `pipeline.rs`, `guideline.rs`, `fold.rs`, `fold_policy.rs`) | blocks of one call | sixteen `Transform::apply` | `Transforms` |
| gate (`compile.rs`, `oracle.rs`, `llm.rs`, `routing.rs`) | slots and verdicts of the running call | `infer_subgoals_from_blocks`, `RuleOracle`, `CompositeOracle`, `LlmSufficiencyOracle`, soft and hard answers, `compute_routing_hint` | `Compile`, `Gate` |
| rehydration (`rehydrate.rs`, `compile.rs`) | messages of one call | `rehydrate_messages`, `auto_rehydrate_refs` | `Rehydrate`, `Relay` |
| handoffs (`fold.rs`, `fold_runtime.rs`, `orchestrator.rs`) | the record an agent works from | `collapse_branch_messages`, `compress_handoff_for_consumer`, `to_context_block` | `Handoff`, `Gate` |
| orchestrator (`orchestrator.rs`) | agents' working messages, the shared session, the ledger | `compile_multi_agent`, `dedup_across_agents`, `allocate_budgets` | `Orchestrator`, `Allocate` |
| metrics (`metrics.rs`) | process-wide relaxed atomics | `record_compile_success`, `record_compile_error`, `record_rehydrate` | `Metrics` |
| HTTP server, bindings, clients, command line, simulations, `path_util.rs`, `trace.rs`, `error.rs` | none, or none beyond a call | see section 8 | not modelled |

How they meet: every request runs on tokio and suspends at each `store.put`,
`store.get` and oracle call, so requests of different agents interleave there
and nowhere else, except that the metrics are atomics that threads touch at any
time. Requests share the cold store and the metrics and nothing else. Agents
keep their own transcripts: the middleware hands back a compiled list and the
agent either continues with it ("adopts" it) or keeps its originals and
compiles again next turn. That choice lies outside the code and decides
whether cold storage stays true.

What is hard here:

* keys of cold storage are the session and the `tool_call_id` (or the place of
  the message), and `put` overwrites: interleaved, repeated and colliding puts;
* the order of sixteen transforms, each of which slices or rewrites what the
  one before left;
* failures between two puts, retries that make them again, and a soft answer
  instead of an error;
* file writes in place: overlapping writers, dropped requests, crashes;
* two levels of references, when the orchestrator shares a result and the
  agent's own compile then masks the stub;
* stubs that nest, when a compile first expands references and then masks the
  expanded text under the same key, while a retry of it does the same;
* a verdict put together from several oracles, one of which is a language model
  that answers in any form, late or never;
* contracts: a handoff is cut down for each consumer, whose own gate then looks
  for what was promised;
* boundaries: keep-recent windows, trim loops, a bisection with rounding;
* a compare-and-swap loop and counters updated one after the other.

`PROJECT.json` lists every such hazard with its line and the property that
would catch it.

What makes each component correct: a reference given out yields the tool
output it replaced and is never rebound (store, session, orchestrator); the
newest results, the system messages, the referents of recent turns and the
latest handoffs reach the model, in their order, within the budget (compile);
rehydration serves what is stored and stops (rehydrate), and outputs stay
reachable however often they are masked and expanded (relay); what is vouched
for is there, and a handoff keeps what its consumers asked for (gate); budgets add up, are
optimal and follow feedback (allocate); counters are exact (metrics); whatever
is started ends.

## 2. The modules

Each module has one action per operation or per step between two suspension
points. "Mutant" definitions next to an operator or action are plausible bugs:
each property of a passing run is violated when one of them takes its place.

### Session, Vault, MCSession, SessionProofs

Several agents (`Clients`) compile against one store. Actions `ToolResult` and
`Speak` extend a transcript; `BeginCompile` parses it; `CompactError` and
`MaskResult` are one iteration, up to the next put, of the loops in
`ErrorCompactionTransform` and `ConsumedResultMaskTransform`, the transforms
that write to the store; `EndTransform` goes to the next one; `Accept`,
`PassThrough` and `Reject` are what follows the oracle, `PutFails` the error of
a put. `Adopters` are the agents that continue with compiled messages.
`BlockId` is the name under which `parse_transcript` makes the key. A content
says what it stands for (output, stub of an output under a reference) instead
of its text. The other transforms do not write to the store; they are in
`Compile`.

`Vault` says what cold storage promises, with no compiler in it: a reference is
bound once, and a client only gets references bound to what they stand for.
`ImplementsVault` states, and `Implementation` proves, that a session refines
it under the mapping `Vaulted`, `Owed`.

### Blocks, Transforms, Compile, MCCompile, CompileProofs

One call of `compile_context` from parse to answer. `Blocks` has the
representation, `Transforms` every transform as an operator from blocks to
blocks together with what it puts, `Compile` the machine: `Start` (parse,
validate, infer slots), one `Transform` step for each entry of
`PipelineOrder`, `PutFails`, then `Sufficient`, `PassThrough` or `Reject`. A
text is a size, the set of facts that can be read in it, and the facts its
first lines (what a stub previews) keep. Truncations are what they do to those
three. `referential_keep` and `fold_policy` set only a flag nothing reads, and
`external_compress` without its feature returns its input: they have no
operator. The loops of the code that carry a value from block to block (what is
kept so far, the tokens so far, the store after so many puts) are functions
defined by recursion along the numbers (`AtUpTo`, `SizeUpTo`, `StoreAfter`), so
that they can be reasoned about; the trim loop, which removes the first block it
may until the rest fits, is the shortest prefix of removable blocks whose removal
makes it fit (`LeftAt`, `BudgetTrim`).

### FileStore, MCFileStore, SessionProofs

`FileColdStore::put` as the operations the file system sees: `Open` (create or
truncate), `WriteChunk` at the task's own offset, `Finish`, or `Fail`; `Abandon`
drops the request while its blocking write goes on; `Crash` ends all writes and
keeps the files. A payload is a number of chunks, and all puts of a key write
the same payload: what different payloads under one key do is `Session`'s
subject. `Whole` is what `get` needs. `cut` remembers which files an
interrupted write may have torn until one writes them alone and anew.

### Rehydrate, MCRehydrate, RehydrateProofs

`rehydrate_messages`: `Call` collects the target references, `Skip` and `Expand`
are one iteration with a failed and a successful `get`, `Answer` ends it. `Add`
and `Put` are the agent and other requests. A message is the references its
text holds, whether it already has the `[rehydrated` mark, and the payloads it
holds; `Inside` says which reference is a substring of which other one,
`Mentioned` which references a payload itself holds, `Long` which payloads
exceed `max_bytes_per_ref`. `InOrder` lists a set of references in the order of
their URIs.

### Relay, MCRelay, RelayProofs

`Rehydrate` composed with the masking of the compile that called it
(`auto_rehydrate_refs`), for an agent that goes on with compiled messages. A
text is a sequence of pieces: those of the tool's output, and the three the
compiler writes (the frame of a stub, a URI, the rehydration mark). `Request`
sends a compile, maybe while an earlier one still runs; `Expand` and `PassOver`
are an iteration of the rehydration loop whose `get` succeeds or fails; `Mask` is
an iteration of `ConsumedResultMaskTransform`; `EndLoop` goes on; `Answer` gives
back the compiled texts or the expanded input; `Fail` is any error, or the
runtime dropping a request whose client left. The agent takes an answer only of
the request it waits for. No other transform runs here, and every message is a
tool result. Each message mentions only its own reference, so the loop over
references and the loop over messages are one; two references in one message
are `Rehydrate`'s subject.

### Handoff, Gate, MCGate, GateProofs

`Handoff` has the fold record, `matches_any_slot`,
`compress_handoff_for_consumer` and `collapse_branch_messages`, over texts that
are the slots they contain and the slots they are a part of. `Gate` is an agent
that works from such a record. `Leave`, `Collapse`, `Return` and `Hand` are how a
record comes to it: left by branches, collapsed, returned by a worker, compressed
for one consumer after another. `Ask` starts a compile; `Pipeline` keeps any part
of the transcript and the whole injected record, unless the request `rewrites`
blocks (`llm_summarization`, `external_compress`): then any text may be left
(`MayLeave`). Which part exactly is `Compile`'s subject, and that the record stays
whole without a model is its theorem `RecordsStay`. With one it does not: the
record stands right behind the system blocks, and is the first that
`LlmSummarizeTransform` replaces. The composite oracle asks its inner oracles in turn:
`CheckRules`, `CheckOwn` (an oracle of the caller's, which answers anything),
`AskNothing`, `AskModel` and `Hears` (the language model, which answers anything
in any form); `Conclude` and `Alone` make the verdict; `GiveUp` is an error or a
time limit; `Decide` is the soft or hard answer with its routing hint.

### Orchestrator, MCOrchestrator, OrchestratorProofs

`compile_multi_agent`. `Begin` starts a round with or without deduplication;
`Share` is the next replacement of `dedup_across_agents`, with its put when the
round has not stored that output yet; `DedupNext` goes to the next agent;
`Mask` and `CompileNext` are an agent's compile (only
`ConsumedResultMaskTransform` of it) and its oracle; `Answer`, `PutFails` and
`AgentFails` end the round. `MaskAlone` is a put by an agent's own compile
outside a round, which may fall between any two steps of one. Outputs stand for
their hashes, so collisions of the 128-bit hash are outside the model.
`ImplementsVault` maps a round to `Vault`: the references of the agents' sessions
and of the shared one are bound to what they stand for, and an answer hands an
agent only references that are.

### Allocate, MCAllocate, LedgerProofs

`effective_weight`, `water_fill` and `allocate_budgets`: `Uniform`; `Outright`,
the two early returns; `Search`, `Bisect` and `Fill`, the bisection on the
multiplier; `Feedback`, a caller that asks again with more signals. The code
computes in `f64`; the model's weights are integers (twentieths of priority,
tenths of role, quarters of boost) and its multiplier an integer on a grid of
`Scale` to the unit, so shares are exact fractions over the multiplier and the
comparison with the budget is exact. The loop stops when the bracket is one
grid step (in the code, 1e-9 of its value) or after `MaxSteps` iterations. The
rounding of `f64` itself is not modelled; the properties allow for one token of
rounding, more than it can cause at the grid's precision. `FineGrid` says when
that is so: one step of the grid moves no share by a token. `EnoughSteps` says
that `MaxSteps` halvings bring the widest bracket (`Widths`) down to one step.
Both hold of the code, whose multiplier is a float with fifty bits below the
first and whose loop may halve 200 times.

### Metrics, MCMetrics, LedgerProofs

Every relaxed access of `record_compile_success` is a step: `CountRequest`,
`AddTotal`, `StoreLast`, `CountLatency`, then the loop on the maximum: `LoadMax`,
which may read a value that is no longer the newest, and the exchange, the strong
`compare_exchange`, which succeeds (`SwapMax`) or finds that another call came
first (`RetryMax`). `RecordError` and `RecordRehydrate` are single increments. Each
counter is one memory location, whose accesses are totally ordered even when
relaxed; no property relates two counters in the middle of a call.

## 3. The runs

| run | expected | what it shows |
|---|---|---|
| `session_own` | pass | `Recoverable`, `RecentVerbatim`: agents with a session each, results with and without ids |
| `session_shared` | pass | `ImplementsVault` with one session and disjoint ids, and `CompileEnds` |
| `session_adopt` | violation | adopted stubs are stored over outputs (`Recoverable`) |
| `compile_all` | pass | `ReferentsDelivered`, `ColdBacked`, `BudgetHonoured`, `SurvivorsInOrder`, `OldestFirst`, `SystemKept`, `FoldsDelivered` |
| `filestore_quiet` | pass | `QuietWhole` under overlap, abandonment, failures and crashes |
| `rehydrate_plain` | pass | `SoleRefServed`, `Settled` |
| `relay_retry` | pass | `Reachable`, `Linear`: nested stubs, overlapping retries, dropped requests, reads that fail |
| `gate_all` | pass | `Vouched`, `HandoffSuffices`, `LackingGoesToFull`, `RequestEnds` |
| `orchestrator_two` | pass | `Recoverable`, `OneLiveCopy`, `WorkingSetLive`, `RoundEnds`, `ImplementsVault` |
| `orchestrator_abort` | violation | one failing agent aborts the round (`AgentsCannotAbort`) |
| `allocate_rounds` | pass | `Spent`, `EvenMargins`, `RegretPays` |
| `metrics` | pass | `MaxExact`, `CountsExact`, `TotalExact`, `RecordingEnds` |

Every passing run also checks its module's `TypeOK`, but for `session_shared`,
which has `Session` in common with `session_own`, and `metrics`, whose types are
proved.

Properties that take a word of explanation:

* `Recoverable` (Session): for every stub in a client's last answer the store
  has the output itself under the stub's reference. It fails when any later put
  of anybody overwrites that key with something else.
* `ReferentsDelivered` (Compile): the paths that recent user and assistant turns
  of the *input* name can be read in what the *client gets*. It joins the
  inference of slots, sixteen transforms, the check and the conversion back.
* `BudgetHonoured`: the answer is over its budget only if nothing trimmable is
  left; the code raises no error in that case.
* `FoldsDelivered`: two promises about handoffs. A record given with the options
  is in the compiled context as it was injected, in whatever combination the later
  transforms drop, replace, move and trim (`RecordsDelivered`); and of the folds in
  the transcript the latest of each branch is there and no other
  (`LatestFoldKept`). The first excludes `llm_summarization`, which spares system and
  tool-schema blocks only (`MCCompile_record.cfg`); the second both summarisers,
  which replace what stands in the middle.
* `QuietWhole`: a file is whole unless somebody is writing it or an interrupted
  write may have torn it. Overlapping writers of one payload are harmless in the
  end because each writes every chunk at its own offset; `Pending` is the reason.
* `Reachable`: the output is in the message, or stored under the one reference
  the message mentions. The stub is what gets stored over the output without
  `auto_rehydrate_refs` (`session_adopt`); with it the expanded text is, which has
  the stub *and* the output. The property ends where it must: when the nested
  text exceeds `max_bytes_per_ref`, and when a read fails and the unexpanded stub is
  masked (`MCRelay_reads.cfg`).
* `Linear`: what nests is a stub for each request, not a copy of all there was.
* `Vouched`: the composite recomputes its verdict from the slots collected over
  its inner oracles; no oracle's objection is lost on the way.
* `HandoffSuffices`: what a record said when it was made, of slots that every
  consumer on the way declared, is in the compiled context when the oracles look,
  if the request lets no model and no service rewrite blocks. One that does may
  leave a text without the slot, and nothing in the code promises otherwise.
  `matches_any_slot` and the oracle compare in different ways (a text may also be
  a part of a slot), and the oracle reads JSON: a slot with a character that JSON
  escapes is in `Escaped`, and the promise is not about it.
* `LackingGoesToFull`: the routing hint never sees the verdict, only the missing
  slots. With a single oracle of the caller's, which may be dissatisfied without
  naming a slot, the two can differ; with a composite they cannot.
* `Recoverable` (Orchestrator): from a masked content the agent goes to its own
  session, and from a deduplicated one to the shared session, so a result that
  was first shared and then masked takes two steps, and both must hold.
* `EvenMargins`: water-filling solves for the maximum of `sum w ln(1 + b)` in
  fractions of a token and rounds each share down. The property is what is left of
  the optimality condition then: of an agent below its demand and one above its
  floor, what a token *beyond the one that rounding may have kept* adds to the sum
  for the first is less than what the last one adds for the second. It does not
  say that no single token could be moved to advantage: with weights
  640, 1200, 640 (two memory agents, a supervisor), demands 9 and budget 16 the
  ledger is 3, 8, 3, and moving one token from the supervisor to a memory agent
  gains 142.8 for 141.3.
* `Spent`: when the demands exceed the budget the ledger leaves at most a token per
  agent, what rounding down can keep.
* `RegretPays`: compares two rounds' ledgers; the agent whose feedback grew
  loses at most a token of rounding and the others gain nothing. That is weaker than
  `docs/MULTI_AGENT_RESEARCH.md:198`, "regret signals strictly increase an agent's
  share", which does not hold of the code where the boost is capped, the share is at
  the agent's floor or demand, or the increase is less than a token.

`CHECK_DEADLOCK FALSE` is set where the system may stop: an agent whose bounded
transcript is full, a compile that answered, recorded calls, the last round of
`Allocate`. The other runs check for deadlock.

## 4. Bounds

* `session_*`: two clients with at most three and two messages, two payloads of
  which one fails, `KeepRecent` 1, `ErrorTurns` 2 (1 in `MCSession_collide.cfg`). A
  conflict needs two clients and one key; a rebinding needs two compiles of the
  same message; both transforms fire within three messages. In `session_shared`
  (two messages) only masking does: a failed result is never two turns old there.
* `compile_*`: transcripts of nine messages with three free places, each of which
  takes any of seven kinds of message, so every adjacency of kinds occurs before,
  after and between stored results; 12 option sets, each transform on in one and
  off in another. `Window` is 6 instead of 12 (the slots' horizon), `SummaryLines` 2
  instead of 8, `StubSize` 2: within nine messages each boundary is then crossed.
* `filestore_quiet`: three tasks, a key of three chunks and one of one, two crashes:
  overlap of a third writer with two that overlap, and a crash during the repair
  of a torn file.
* `rehydrate_*`: three references, chained through payloads, one nested in another
  in `MCRehydrate_prefix.cfg`; three messages.
* `relay_*`: three outputs, of one, six and one piece, with previews of four: one
  is quoted whole by its stub, one is cut; a cap of 24 pieces, which nesting
  exceeds within the five requests; two requests at once.
* `gate_*`: two slots, so that a text can say one, the other, both or none, and
  can be a part of a slot without saying it; records with an artifact whose type
  says what its path does not; two fold messages, one with a slot behind what a
  collapse keeps; composites of rule and model, of a caller's oracle and the rule,
  of the rule alone, and no composite.
* `orchestrator_*`: two agents of up to three messages, one of which may be empty;
  one output above and one below the size threshold. With two agents a canonical
  copy, a duplicate, a duplicate inside one agent and a protected duplicate all
  occur.
* `allocate_rounds`: three agents over all five roles, priorities 0 and 20
  (twentieths; 0 is lifted to the minimum), demands 1 and 9, budgets 5 (below the
  floors), 8, 16 and 30 (above the demands), 2 or 10 signals (below and above the
  cap). `Scale` 9 makes the grid fine (`FineGrid`) and 200 halvings enough for it
  (`EnoughSteps`): TLC evaluates both as an assumption of the instance.
* `metrics`: two calls with durations in three buckets, one above the last bound:
  two calls are what a lost exchange takes, and the proofs are for any number.

`MaxLen`, `MaxMessages`, `MaxCrashes`, `MaxRequests`, `MaxFolds` and `MaxRounds` bound the models only; the
proofs are for every value of them. `MaxSteps` is the code's 200.

## 5. Fairness

* `Session`: `WF_vars(Compile(c))` for each client: tokio keeps polling a request
  it has started, and every suspension of it (a put, the oracle) returns, with a
  result or an error. Nothing is assumed of agents.
* `Orchestrator`: `WF_vars(Round)` for the same reason; that a single compile puts
  something (`MaskAlone`) is under no fairness and cannot keep a round from going on.
* `Gate`: `WF_vars(Compiler)`, the steps of a request itself, among them `GiveUp`
  while it waits: all HTTP calls have a time limit (45 and 60 s for the model, 30 s for
  `external_compress`), and an oracle of the caller's returns. That the language
  model answers (`Hears`) is under no fairness.
* `Metrics`: weak fairness of each call's steps, since a thread that runs keeps
  running. The exchange is the strong one and fails only when another call came
  first, which happens finitely often since the maximum only rises: the run shows
  that the loop then ends.

`FileStore`, `Rehydrate`, `Relay`, `Compile` and `Allocate` claim no liveness.

## 6. What is proved

All proofs are for any value of the constants that satisfies the modules' `ASSUME`s.

* `SessionProofs`. `TypeCorrect` needs nothing more. `Recovery`, `Stability` and
  `Implementation` assume `Separated` (clients of one session label their results
  with disjoint ids, and label all of them) and `Adopters = {}`: `MCSession_collide.cfg` and
  `session_adopt` are what happens without each. `Recoverable` is not inductive: a store that
  is right for the views now can be overwritten by a running compile. The
  invariant adds that every key belongs to one message of one client
  (`WellNamed`, `Unique`), that the store holds nothing but the raw output of
  that message (`StoreTrue`), and that running blocks and views stand for the
  messages they came from (`WorkTrue`, `ViewTrue`). A put then writes what is
  there or to an unbound key, which gives all three theorems. `Recent` needs no
  assumption: transcripts, running blocks and views all keep masked contents out of
  the newest results (`OldMasked`), and hiding or appending takes no result away
  from behind a message.
* `OrchestratorProofs`. `TypeCorrect`, `Recovery`, `NewestLive` and `CopyStays`. Sharing adds two levels:
  `ColdTrue` (an agent's session holds each message's output, raw or as a shared
  stub whose output is in the pool), `WorkTrue`, `Unmasked` (the loop has masked
  nothing from its position on), `Pooled` (what a round has put is in the pool)
  and `ViewTrue`. For `NewestLive` a round's contents share nothing of the working
  set (`SharedOld`); for `CopyStays` it leaves all but duplicates verbatim
  (`OthersRaw`), and of all copies of an output the first one of the first agent
  that holds it is no duplicate (`Canonical`, from the well-foundedness of `<`).
  `Implementation` derives the refinement of `Vault` from the same invariant: every
  put writes what its key already holds, or binds a free key.
* `RelayProofs`. `TypeCorrect`, `Growth` and `Reaching`, for any outputs, previews,
  caps and any finite number of requests at once. `Linear` becomes inductive when a
  request is charged for a message only after it has looked at it (`Allowed`), and
  with the fact that an open text is a fresh stub (`Short`). For `Reachable`
  (`Faithful`) it is not enough that messages show an output or a bound
  reference: a message that shows the mark is not extended but is masked, so it
  must keep the output (`Sound`, second conjunct); the mark may survive in the
  preview of a stub, so the *beginning* up to the mark must keep it (third);
  and that holds because in front of the mark stands a whole stub so short that
  it quotes all of the text it replaced (fourth). `Shift` carries "keeps" from a
  text to every text it is a part of.
* `RehydrateProofs`. `TypeCorrect` and `Honest`; `Served` and `SettledOnce` under
  `Inside = {}` (no URI is a part of another; `MCRehydrate_prefix.cfg` is what happens
  otherwise). The invariant (`Awaiting`) says
  that a text nobody has extended yet still awaits every stored reference it
  mentions, so the loop has not passed one over.
* `GateProofs`. `TypeCorrect`, `Vouching`, `Handover` and `Routing`, for any slots,
  records, opinions and replies. `Handover` rests on what compression does to one
  text: a text that says a declared slot matches it (`Matches`), so it passes every
  consumer that declared the slot (`contract`), and the injected block says it. That
  this block reaches the oracles is `MayLeave` for requests without `rewrites`, the
  condition of `HandoffSuffices`, and proved of the sixteen transforms in
  `CompileProofs` (`RecordsStay`).
* `SessionProofs`, on `FileStore`. `FilesTypeCorrect` and `Quiet`, from `Pending` (a
  chunk missing from an untorn file is still to be written by one of its writers)
  and `HandedExist`. When the last writer finishes nobody is left to owe a chunk,
  so none is missing.
* `CompileProofs`. Every safety property of the compiler, for any transcripts,
  options, sizes and windows: `CompileTypeCorrect`, `ReferentsReadable`, `BudgetKept`,
  `SystemsKept`, `RecordsStay`, and, of transcripts with `DistinctIds`, `FoldsReach`,
  `LatestFoldsKept`, `OldestGoFirst`, `SurvivorsOrdered` and `ColdStaysBacked`. None of them is
  inductive, since each speaks of the input and the answer and sixteen steps lie
  between. The invariant (`CompileInv`) says that the blocks are *midway*: there
  is a `Trace`, a function that tells of every block which block of the input it
  comes from, or that a transform made it, under which no block is doubled and no
  two of the conversation have changed places (`Origin`). What the trace must also
  say depends on which transforms have run and which are still to come
  (`Midway`): system messages are all there (`Keeps`), of each branch all folds
  while `fold_collapse` is to come and the latest one after it (`Folded`), whatever
  is behind a survivor (`Aged`), the packed prefix before the window rolls
  (`PackedBefore`), a budget that fits once `budget_trim` is through (`TrimLast`).
  A lemma for each transform gives the trace of its output in its input, and
  `TraceTwice` composes two traces. For `ColdBacked` the invariant adds `ColdInv`:
  every block is either as it was in the input or names a reference behind which
  the store has that text (`Held`). For `RecordsStay` it adds `RecordInv`: an injected
  record stands *in front*, with nothing but system blocks, tool schemas and
  summaries before it (`InFront`). Each later transform picks by kind, and spares
  these (`PickFront`), rewrites tool results only (`MapFront`), replaces blocks that
  start behind the prefix (`ReplaceFront`), or moves the prefix to the front
  (`PackFront`); `guideline_bank`, which may rewrite anything, comes before.
  Why `DistinctIds`: two results that answer one `tool_call_id` have one id, hence
  one reference, and overwrite each other in the store; and "the same block" in the
  answer is found by its id. The instances of `MCCompile` satisfy it.
* `LedgerProofs`, on `Metrics`. `CountersTyped`, `MaximumExact`, `Exact` and
  `Monotone`, from `LoopInv` (what a call has read of the maximum is no more than the
  maximum); `Totalled`, which is about a sum over the calls that are past a step.
* `LedgerProofs`, on `Allocate`. The invariant says of a running search that the
  lower end of its bracket gives too much, the upper one does not, and the bracket
  is no wider than its halvings make it (`Searching`); and of the ledger that it is
  the answer to the weights of the last request, which only an agent with more
  feedback since then has outgrown (`Remembered`, `Reply`). A search's answer is
  `Balanced`: its tokens are the shares at *one* multiplier, which is the least of
  the grid that does not give too much.
  `Between`, `TypeCorrect`, `Bracketing` and `NeverOverdrawn` follow at once.
  `Optimality` cancels the multiplier between the inequality of an agent below its
  demand and that of one above its floor (`WaterLine`). `Spending` compares each
  share with that one step of the grid below, where the sum exceeds the budget
  (`OneStepBelow`, `LittleLeft`). `FeedbackPays` compares two answers: heavier
  agents cannot lower the multiplier (`MultiplierRises`); when it rises the others'
  shares fall (`ShareFalls`), and since the sum one step below it still exceeds the
  budget, the agent that got heavier must have made up for that
  (`HeavierLosesLittle`). Both assume `FineGrid` and `EnoughSteps`, and need
  `HighLine`: where demands exceed the budget the multiplier is large.
* `Lemmas`. What several of these need and the library cannot give, because its
  induction theorems take an operator: induction with a *set* for the predicate
  (`Least`, `UpTo`, `Subsets`), functions defined by recursion (`Recursion`), and
  sums. A sum of `Functions` is a fold, a `CHOOSE` of a function on subsets: such
  functions exist (`FoldsExist`) and agree (`FoldsAgree`), by induction on the
  cardinality, and from there on sums behave (`SumTake`, `SumAdd`, `SumAtMost`,
  `SumLinear`).

Assumptions on constants that these proofs rest on, besides the types of the
constants: of `Compile`, that messages, calls, folds, guidelines and policies come in
sequences, and that every text has a size and shows in its first lines no more than
it says (`InputsAssumption`, `OptionsAssumption`); that the option counts are natural
numbers; and that the value for "no reference" is not the reference of a block
(`ReferenceAssumption`). Which transforms a policy or an answer names is not assumed.
Of `Allocate`, that the first multiplier, 1e-9 in the code, is below what any demand
can reach (`AllocateAssumption`), and `FineGrid` and `EnoughSteps` where named above.

Only model-checked: the liveness properties (`CompileEnds`, `RecordingEnds`,
`RoundEnds`, `RequestEnds`), which this prover cannot do. Every safety invariant and
action property of the passing runs is proved. `StableReference`, `Pending`, `NeverBack`,
`Bounded`, `Bracketed` and `CountHonest` are proved and in no run: the first follows from
`ImplementsVault`, the others from, or on the way to, properties that are.

## 7. Findings

Two runs show the code doing other than the repository says; `PROJECT.json`
quotes the lines.

* `session_adopt`: an agent that follows the documentation and continues with the
  compiled messages loses outputs at its second compile: the stub is masked like
  a result and stored over the output.
* `orchestrator_abort`: an agent without messages ends the round for all, next to
  the comment that one failing agent must not.

Other statements of the documentation that the code does not keep are written
down in the modules too, with a configuration each for whoever wants the
counterexample. They are not among the runs.

| statement | configuration | behaviour |
|---|---|---|
| `PinnedKept` (`ir.rs:86`) | `MCCompile_pinned.cfg` | a block marked "never mask or drop" is dropped by the budget trim, the window or a summariser |
| `AllExpanded` (`rehydrate.rs:15`) | `MCRehydrate_all.cfg` | of a message with two references one is expanded, because one mark stands for both |
| `ReadsMayFail` (`rehydrate.rs:76`) | `MCRelay_reads.cfg` | a read that fails during `auto_rehydrate_refs` is passed over, and the unexpanded stub is then stored over the output |
| `ListedHeard` (`llm.rs:178`) | `MCGate_llm.cfg` | a model that lists missing slots in prose or in a code fence is heard as naming them present |
| `StableReference` with colliding ids (`store.rs:9`) | `MCSession_collide.cfg` | two agents of one session that number their calls alike rebind each other's references |
| `AlwaysReadable` (`store.rs:9`) | `MCFileStore_stable.cfg` | a reference handed out reads empty while a later compile puts it again, or for good after a crash |
| `RecordsAlwaysDelivered` (`extended_transforms.rs:14`) | `MCCompile_record.cfg` | a model's summary replaces the injected record, of which at most the first line stays |
| `OmittedRecoverable` (`transform.rs:291`) | `MCCompile_rolled.cfg` | the window drops the stubs, and the references its marker points to |
| `OriginalsReturned` (`compile.rs:96`) | `MCCompile_soft.cfg` | a soft answer has lost tool calls and roles |
| `UntouchedAccepted` (`oracle.rs:33`) | `MCCompile_branch.cfg` | a branch named in words is a slot no text satisfies |
| `FullOutputBehindRefs` (`docs/TESTING.md:237`) | `MCCompile_guideline.cfg` | a guideline cuts an output before masking stores it |
| `OwnPayloads` (`rehydrate.rs:1`) | `MCRehydrate_prefix.cfg` | a reference matches inside a longer one |
| `CanonicalInline` (`docs/MULTI_AGENT_RESEARCH.md:92`) | `MCOrchestrator_inline.cfg` | the owner's own compile masks the canonical copy |
| `OriginalsKept` (`orchestrator.rs:557`) | `MCOrchestrator_originals.cfg` | a failed agent gets back deduplicated messages |
| `LedgerWithinBudget` (`docs/MULTI_AGENT_RESEARCH.md:77`) | `MCAllocate_budget.cfg` | the floors win over the global budget |

## 8. Not modelled

* HTTP, keys and prompts of the language model. Its answers are arbitrary in `Gate`,
  and so is what a summary of its making leaves there. `LlmSummarize` in `Transforms`
  is the build without the feature `llm-http`, whose summary is the first lines of
  the middle (`llm.rs:48-57`); of a build with it `compile_all` says nothing where
  `llm_summarization` is on.
* Two agents with one `agent_id` in a round: agents are known by their position.
  The two passes of deduplication, which finds the canonical copies and then
  replaces the others, are one here: `HeldBefore` decides at each result what the
  first pass has recorded.
* `auto_rehydrate_refs` together with transforms that drop messages, and messages
  with several references or none: `Relay` has masking only.
* Adopting agents whose answers lost blocks: the place of a result without
  `tool_call_id`, and with it its key, then shifts (a hazard listed without a property).
* Text below what a property tells apart: regular expressions, previews, token
  estimates by model, JSON. Statistics and reports.
* The HTTP server (routing, JSON, defaults of budget and session id), the bindings,
  clients and command line: they call the core once and keep nothing.
* `orchestrator_sim.rs`, `simulate.rs`, `compare.rs`: drivers with made-up input.
* `analyze_trace`, `snapshot`, `prometheus_text`: they only read.

## 9. Plan

Written so far, most important first: `Vault`/`Session` (cold storage under
concurrent compiles), `Blocks`/`Transforms`/`Compile` (what one answer keeps),
`Metrics`, `FileStore`, `Rehydrate`, `Orchestrator`, `Allocate`, `Relay`,
`Handoff`/`Gate`, and the theorems of section 6. Left:

1. Session with dropping transforms: results without `tool_call_id` whose place,
   and with it key, shifts.
2. `Relay` with several references in a message and other agents in the session.
3. The server's defaults in front of `Compile`.
