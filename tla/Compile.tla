------------------------------ MODULE Compile ------------------------------
(***************************************************************************)
(* One call of compile_context: parse, run the pipeline transform by       *)
(* transform against the cold store, ask the sufficiency oracle, answer.   *)
(***************************************************************************)
EXTENDS Transforms

CONSTANTS Inputs,    \* transcripts a client may send
          Options    \* the CompileOptions it may send with them

Texts(texts) == \A t \in texts : t.size \in Nat /\ t.head \subseteq t.facts

\* A list is a sequence, a number is not negative, and a text shows its own facts.
ASSUME InputsAssumption ==
    \A ms \in Inputs :
        /\ ms \in Seq(Range(ms))
        /\ Texts({ms[i].text : i \in DOMAIN ms})
        /\ \A i \in DOMAIN ms : ms[i].calls \in Seq(Range(ms[i].calls))
ASSUME OptionsAssumption ==
    \A o \in Options :
        /\ {o.budget, o.keepRecent, o.rollingTail, o.summarizeKeep} \subseteq Nat
        /\ o.folds \in Seq(Range(o.folds)) /\ Texts(Range(o.folds))
        /\ o.bank \in Seq(Range(o.bank)) /\ o.policy \in Seq(Range(o.policy))

\* A block has no reference or one of its own.
ASSUME ReferenceAssumption ==
    \A ms \in Inputs : \A b \in Range(ParseTranscript(ms)) :
        NoRef \notin {<<"err", b.id>>, <<"tool", b.id>>}

\* No two blocks of a transcript share an id: its tool results answer calls of
\* their own. Several promises hold of such transcripts only.
DistinctIds ==
    \A ms \in Inputs : \A i, j \in DOMAIN ParseTranscript(ms) :
        ParseTranscript(ms)[i].id = ParseTranscript(ms)[j].id => i = j

VARIABLES messages,  \* the transcript of this call
          opts,      \* its options
          blocksIn,  \* the transcript as blocks
          blocks,    \* the blocks so far
          todo,      \* names of the transforms still to run
          stored,    \* cold storage: reference -> text, of this session
          pc,        \* "parse", "run" or "done"
          answer     \* [status, blocks] once pc = "done"

vars == <<messages, opts, blocksIn, blocks, todo, stored, pc, answer>>

NoAnswer == [status |-> "none", blocks |-> <<>>]

Init == /\ messages \in Inputs
        /\ opts \in Options
        /\ blocksIn = <<>> /\ blocks = <<>> /\ todo = <<>>
        /\ stored = <<>>
        /\ pc = "parse"
        /\ answer = NoAnswer

\* Fold records come with the options; a fold policy adds its own.
Records(bs) ==
    opts.folds \o (IF "fold_policy" \in opts.on
                   THEN DeriveFoldRecords(opts.policy, bs) ELSE <<>>)

Slots == IF opts.slots = {} /\ opts.infer THEN InferSlots(blocksIn) ELSE opts.slots

\* Mutant: the oracle reads the input instead of the compiled blocks.
MissingFromInput == IF opts.check THEN Slots \ Corpus(blocksIn) ELSE {}

Missing == IF opts.check THEN Slots \ Corpus(blocks) ELSE {}

Answer(status, bs) == /\ pc' = "done"
                      /\ answer' = [status |-> status, blocks |-> bs]
-----------------------------------------------------------------------------
Start ==
    /\ pc = "parse"
    /\ ParseTranscript(messages) # <<>>
    /\ blocksIn' = ParseTranscript(messages)
    /\ blocks' = blocksIn'
    /\ todo' = BuildPipeline(opts, Records(ParseTranscript(messages)))
    /\ pc' = "run"
    /\ UNCHANGED <<messages, opts, stored, answer>>

\* validate_blocks: a transcript without blocks is an invalid trace.
Invalid ==
    /\ pc = "parse"
    /\ ParseTranscript(messages) = <<>>
    /\ Answer("error", <<>>)
    /\ UNCHANGED <<messages, opts, blocksIn, blocks, todo, stored>>

\* The store after the first n puts of a transform; a later put to a
\* reference replaces an earlier one.
StoreAfter(puts, n) ==
    [r \in DOMAIN stored \cup {puts[k][1] : k \in 1 .. n} |->
        LET to == {k \in 1 .. n : puts[k][1] = r}
        IN IF to = {} THEN stored[r] ELSE puts[Max(to)][2]]

Transform ==
    /\ pc = "run" /\ todo # <<>>
    /\ blocks' = Apply(Head(todo), blocks, opts, Records(blocksIn))
    /\ LET puts == Puts(Head(todo), blocks, opts)
       IN stored' = StoreAfter(puts, Len(puts))
    /\ todo' = Tail(todo)
    /\ UNCHANGED <<messages, opts, blocksIn, pc, answer>>

\* A put fails: the call ends, what was stored before stays.
PutFails ==
    /\ pc = "run" /\ todo # <<>>
    /\ LET puts == Puts(Head(todo), blocks, opts)
       IN \E n \in 0 .. Len(puts) - 1 : stored' = StoreAfter(puts, n)
    /\ Answer("error", <<>>)
    /\ UNCHANGED <<messages, opts, blocksIn, blocks, todo>>

Sufficient ==
    /\ pc = "run" /\ todo = <<>>
    /\ Missing = {}
    /\ Answer("sufficient", blocks)
    /\ UNCHANGED <<messages, opts, blocksIn, blocks, todo, stored>>

\* soft_sufficiency: the input goes back as it was parsed.
PassThrough ==
    /\ pc = "run" /\ todo = <<>>
    /\ Missing # {} /\ opts.soft
    /\ Answer("insufficient", blocksIn)
    /\ UNCHANGED <<messages, opts, blocksIn, blocks, todo, stored>>

Reject ==
    /\ pc = "run" /\ todo = <<>>
    /\ Missing # {} /\ ~opts.soft
    /\ Answer("error", <<>>)
    /\ UNCHANGED <<messages, opts, blocksIn, blocks, todo, stored>>

Next == Start \/ Invalid \/ Transform \/ PutFails \/ Sufficient \/ PassThrough \/ Reject

Spec == Init /\ [][Next]_vars
-----------------------------------------------------------------------------
Answered == answer.status \in {"sufficient", "insufficient"}
Compiled == answer.status = "sufficient"

\* The messages of the answer, and what can be read in a list of messages.
Delivered == BlocksToMessages(answer.blocks)
Readable(ms) == UNION {ms[i].text.facts : i \in DOMAIN ms}

Ids(bs) == [i \in DOMAIN bs |-> bs[i].id]
Survives(b) == \E i \in DOMAIN answer.blocks : answer.blocks[i].id = b.id

\* Every variable has its type, and the answer is there when the call is done.
TypeOK ==
    /\ messages \in Inputs /\ opts \in Options
    /\ pc \in {"parse", "run", "done"}
    /\ Range(todo) \subseteq Range(PipelineOrder)
    /\ answer.status \in {"none", "error", "sufficient", "insufficient"}
    /\ (pc = "done") <=> (answer.status # "none")
    /\ \A i \in DOMAIN blocks : blocks[i].text.head \subseteq blocks[i].text.facts

\* Every path the recent user and assistant turns of the input name can be
\* read in the messages the client gets, whichever transforms ran and whether
\* the answer is the compiled context or the passed-through input.
ReferentsDelivered ==
    (Answered /\ opts.check /\ opts.slots = {} /\ opts.infer) =>
        InferSlots(blocksIn) \cap Paths \subseteq Readable(Delivered)

Backed(b) ==
    /\ b.ref \in b.text.facts
    /\ b.ref \in DOMAIN stored
    /\ \E j \in DOMAIN blocksIn : blocksIn[j].id = b.id /\ stored[b.ref] = blocksIn[j].text

\* A block that was moved out still says where, and there the store has the
\* whole text the transcript held: no transform that runs before or between the
\* two that store may have rewritten it (guideline summaries do, and are off here).
ColdBacked ==
    (Answered /\ opts.bank = <<>>) =>
        \A i \in DOMAIN answer.blocks : answer.blocks[i].ref # NoRef => Backed(answer.blocks[i])

\* What the pipeline could do about the budget it did: over it, nothing is
\* left but protected blocks and stubs.
BudgetHonoured ==
    (Compiled /\ "budget_trim" \in opts.on) =>
        \/ Size(answer.blocks) <= opts.budget
        \/ \A i \in DOMAIN answer.blocks : ~Trimmable(answer.blocks[i])

\* Dropping, summarising, packing and folding never duplicate a block and
\* never reorder the conversation, the blocks of other kinds than the prefix.
SurvivorsInOrder ==
    Answered =>
        LET Talk(bs) == {i \in DOMAIN bs : bs[i].kind \notin Protected}
        IN Ids(At(answer.blocks, Talk(answer.blocks)))
             = Ids(At(blocksIn, {i \in Talk(blocksIn) : Survives(blocksIn[i])}))

\* Room is made from the old end: when a block of the conversation survives as
\* it was, so does every later one, but for fillers and stale tool results.
OldestFirst ==
    (Compiled /\ "bacm" \notin opts.on) =>
        \A i, j \in DOMAIN blocksIn :
            /\ i < j
            /\ \E k \in DOMAIN answer.blocks : answer.blocks[k].id = blocksIn[i].id
                                               /\ Trimmable(answer.blocks[k])
            /\ blocksIn[j].kind \notin Protected
            /\ Filler \notin blocksIn[j].text.facts
            /\ "memory_prune" \in opts.on => blocksIn[j].kind # "ToolResult"
            => Survives(blocksIn[j])

\* With the cache packer in front of the rolling window, and no summariser, every
\* system message of the input reaches the model, wherever it stood.
SystemKept ==
    (/\ Compiled
     /\ "cache_packer" \in opts.on
     /\ opts.on \cap {"summarization", "llm_summarization"} = {}) =>
        \A i \in DOMAIN blocksIn : blocksIn[i].kind = "System" => Survives(blocksIn[i])

\* Of the handoffs of a branch the client gets the latest and no other, when the
\* middle is not summarised away.
LatestFoldKept ==
    (/\ Compiled
     /\ {"fold_collapse", "cache_packer"} \subseteq opts.on
     /\ opts.on \cap {"summarization", "llm_summarization"} = {}) =>
        \A i \in DOMAIN blocksIn : blocksIn[i].branch # NoName =>
            (Survives(blocksIn[i]) <=>
               \A j \in DOMAIN blocksIn : blocksIn[j].branch = blocksIn[i].branch => j <= i)

\* A handoff record given with the options stands in the compiled context as it
\* was injected, whatever the transforms behind fold_inject drop, replace, move
\* and trim, unless a model summarises: that one spares system blocks only.
RecordsDelivered ==
    (Compiled /\ "llm_summarization" \notin opts.on) =>
        \A k \in DOMAIN Records(blocksIn) :
            NewSummary(<<"fold_record", k>>, Records(blocksIn)[k]) \in Range(answer.blocks)

\* Handoffs reach the client, records and the latest fold of each branch.
FoldsDelivered == RecordsDelivered /\ LatestFoldKept
-----------------------------------------------------------------------------
(* What the documentation says of the same calls.                          *)

\* extended_transforms.rs, of FoldInjectTransform: "Inject structured fold handoff
\* blocks after system prefix". The record is in the compiled context whoever
\* summarises.
RecordsAlwaysDelivered ==
    Compiled =>
        \A k \in DOMAIN Records(blocksIn) :
            NewSummary(<<"fold_record", k>>, Records(blocksIn)[k]) \in Range(answer.blocks)

\* ir.rs, of a pinned block: "never mask or drop this block".
PinnedKept ==
    Compiled =>
        \A i \in DOMAIN blocksIn :
            MatchingAction(opts.bank, blocksIn[i].text) = "keep"
                /\ "guideline_bank" \in opts.on
            => \E k \in DOMAIN answer.blocks : answer.blocks[k].id = blocksIn[i].id
                                               /\ answer.blocks[k].ref = NoRef

\* transform.rs, in the marker of the rolling window: "use cold-store refs to
\* recover". A tool result left out can be read at a reference the answer names.
OmittedRecoverable ==
    (Compiled /\ \E k \in DOMAIN answer.blocks : answer.blocks[k].id = <<"rolled", 0>>) =>
        \A i \in DOMAIN blocksIn :
            (blocksIn[i].kind = "ToolResult" /\ ~Survives(blocksIn[i])) =>
                \E r \in Readable(Delivered) \cap DOMAIN stored : stored[r] = blocksIn[i].text

\* docs/TESTING.md: "agent can `read` cold-store refs when it needs full tool
\* output". Whatever guidelines there are, a reference leads to the whole output.
FullOutputBehindRefs ==
    Answered =>
        \A i \in DOMAIN answer.blocks : answer.blocks[i].ref # NoRef => Backed(answer.blocks[i])

\* compile.rs: a failed check with soft_sufficiency "returns original messages".
OriginalsReturned ==
    answer.status = "insufficient" => Delivered = messages

\* oracle.rs: the inferred subgoal is to "preserve referents from recent turns".
\* Blocks nothing was taken from pass.
UntouchedAccepted ==
    (pc = "run" /\ todo = <<>> /\ blocks = blocksIn /\ opts.slots = {}) => Missing = {}
=============================================================================
