----------------------------- MODULE Transforms -----------------------------
(***************************************************************************)
(* The transforms of the pipeline as operators from blocks to blocks, and  *)
(* what each of them puts into cold storage.                               *)
(*                                                                         *)
(* o is CompileOptions: on (the toggles set), budget, keepRecent,          *)
(* errorTurns, rollingTail, summarizeKeep, folds (texts of FoldRecords),   *)
(* bank and policy (rules of the guideline bank and of the fold policy),   *)
(* mask (enable_consumed_masking), check, slots, infer and soft (the gate).*)
(*                                                                         *)
(* Two transforms change nothing and have no operator: referential_keep    *)
(* and fold_policy set only `consumed`, which no code reads, and           *)
(* external_compress returns its blocks unless the llm-http feature is on. *)
(***************************************************************************)
EXTENDS Blocks

CONSTANTS StubSize,      \* tokens of a stub or marker
          SummaryLines   \* lines a summary shows, 8 in the code

ASSUME SummaryAssumption == StubSize \in Nat /\ SummaryLines \in Nat

\* Mutant: the cache packer runs after the budget is fitted.
PipelineOrderPackLast ==
    <<"referential_keep", "guideline_bank", "fold_policy", "fold_inject",
      "fold_collapse", "error_compaction", "consumed_result_mask", "agent_omit",
      "memory_prune", "llm_summarization", "summarization", "bacm",
      "external_compress", "rolling_window", "budget_trim", "cache_packer">>

PipelineOrder ==
    <<"referential_keep", "guideline_bank", "fold_policy", "fold_inject",
      "fold_collapse", "error_compaction", "consumed_result_mask", "agent_omit",
      "memory_prune", "llm_summarization", "summarization", "bacm",
      "external_compress", "cache_packer", "rolling_window", "budget_trim">>

\* llm_summarization, in o.on when its configuration is enabled as well, replaces
\* summarization; fold_inject needs records.
BuildPipeline(o, records) ==
    LET Runs(t) == CASE t = "fold_inject" -> records # <<>>
                     [] t = "consumed_result_mask" -> t \in o.on /\ o.mask
                     [] t = "summarization" -> t \in o.on /\ "llm_summarization" \notin o.on
                     [] OTHER -> t \in o.on
    IN At(PipelineOrder, {k \in DOMAIN PipelineOrder : Runs(PipelineOrder[k])})

(* Guidelines and folds.                                                   *)

\* The rule of highest priority decides, the earliest among equals.
MatchingAction(bank, text) ==
    LET hits == {i \in DOMAIN bank : bank[i].pattern \in text.facts}
        Beats(i, j) == \/ bank[i].priority > bank[j].priority
                       \/ bank[i].priority = bank[j].priority /\ i <= j
    IN IF hits = {} THEN "none"
       ELSE bank[CHOOSE i \in hits : \A j \in hits : Beats(i, j)].action

\* Summarising keeps the first lines of a long tool result and stores nothing.
GuidelinePin(bs, o) ==
    [i \in DOMAIN bs |->
        LET action == MatchingAction(o.bank, bs[i].text)
        IN CASE action = "keep" -> [bs[i] EXCEPT !.pinned = TRUE]
             [] action = "summarize" /\ bs[i].kind = "ToolResult" /\ bs[i].text.size > StubSize ->
                  [bs[i] EXCEPT !.text = [size |-> StubSize, facts |-> @.head, head |-> @.head]]
             [] OTHER -> bs[i]]

\* One record per inject rule that matches, highest priority first.
DeriveFoldRecords(policy, bs) ==
    LET matching == {i \in DOMAIN policy : policy[i].action = "inject_fold"
                                           /\ policy[i].pattern \in Corpus(bs) \cup {NoName}}
        Before(i, j) == \/ policy[i].priority > policy[j].priority
                        \/ policy[i].priority = policy[j].priority /\ i < j
        Rank(i) == Cardinality({j \in matching : Before(j, i)}) + 1
    IN [k \in 1 .. Cardinality(matching) |->
          LET i == CHOOSE i \in matching : Rank(i) = k
          IN [size |-> StubSize, facts |-> {policy[i].pattern} \ {NoName}, head |-> {}]]

FoldInject(bs, records) ==
    LET n == PrefixEnd(bs, {"System", "ToolSchema"})
    IN SubSeq(bs, 1, n)
       \o [k \in DOMAIN records |-> NewSummary(<<"fold_record", k>>, records[k])]
       \o SubSeq(bs, n + 1, Len(bs))

\* Mutant: the first fold of a branch stays.
FoldCollapseFirst(bs) ==
    LET Earliest(i) == \A j \in DOMAIN bs : bs[j].branch = bs[i].branch => i <= j
    IN At(bs, {i \in DOMAIN bs : bs[i].branch = NoName \/ Earliest(i)})

\* Of the folds of a branch only the latest stays.
FoldCollapse(bs) ==
    LET Latest(i) == \A j \in DOMAIN bs : bs[j].branch = bs[i].branch => j <= i
    IN At(bs, {i \in DOMAIN bs : bs[i].branch = NoName \/ Latest(i)})

(* Cold storage.                                                           *)

CompactsAt(bs, i, o) == /\ bs[i].failed
                        /\ MaxTurn(bs) - bs[i].turn >= o.errorTurns
                        /\ bs[i].ref = NoRef

\* Mutant: what error compaction moved out is moved out again.
MasksAtAgain(bs, i, o) ==
    /\ bs[i].kind = "ToolResult"
    /\ Cardinality({j \in DOMAIN bs : j > i /\ bs[j].kind = "ToolResult"}) >= o.keepRecent
    /\ ~bs[i].pinned

MasksAt(bs, i, o) ==
    /\ bs[i].kind = "ToolResult"
    /\ Cardinality({j \in DOMAIN bs : j > i /\ bs[j].kind = "ToolResult"}) >= o.keepRecent
    /\ bs[i].ref = NoRef
    /\ ~bs[i].pinned

\* Mutant: the stub loses the preview.
StubWithoutPreview(text, ref, marks) ==
    [size |-> StubSize, facts |-> marks \cup {ref}, head |-> text.head \cup marks]

Stub(text, ref, marks) == [size |-> StubSize, facts |-> text.head \cup marks \cup {ref},
                           head |-> text.head \cup marks]

ErrorCompaction(bs, o) ==
    [i \in DOMAIN bs |->
        IF CompactsAt(bs, i, o)
        THEN [bs[i] EXCEPT !.text = Stub(@, <<"err", bs[i].id>>, {Error}),
                           !.ref = <<"err", bs[i].id>>]
        ELSE bs[i]]

ConsumedResultMask(bs, o) ==
    [i \in DOMAIN bs |->
        IF MasksAt(bs, i, o)
        THEN [bs[i] EXCEPT !.text = Stub(@, <<"tool", bs[i].id>>, {}),
                           !.ref = <<"tool", bs[i].id>>]
        ELSE bs[i]]

(* Dropping and summarising.                                               *)

Keep(bs, Test(_)) == At(bs, {i \in DOMAIN bs : Test(i)})

AgentOmit(bs) ==
    Keep(bs, LAMBDA i : ~ /\ bs[i].kind = "Assistant"
                          /\ ~bs[i].pinned
                          /\ i < Len(bs)
                          /\ bs[i + 1].kind = "ToolResult"
                          /\ Filler \in bs[i].text.facts)

MemoryPrune(bs, o) ==
    Keep(bs, LAMBDA i : \/ bs[i].kind # "ToolResult"
                        \/ bs[i].pinned
                        \/ bs[i].ref # NoRef
                        \/ MaxTurn(bs) - bs[i].turn <= o.keepRecent + 4)

NoMiddle == <<1, 0>>

SummaryTail(o) == Max({o.summarizeKeep, o.keepRecent + 4})

\* The middle both summarisers replace; NoMiddle when there is none.
Middle(bs, o, kinds) ==
    LET first == PrefixEnd(bs, kinds) + 1
        last == Len(bs) - SummaryTail(o)
    IN IF Len(bs) <= SummaryTail(o) + 3 \/ last <= first THEN NoMiddle ELSE <<first, last>>

Lines(bs, mid) == At(bs, {i \in mid[1] .. mid[2] : ~bs[i].pinned})

\* What a summary has room for.
Shown(lines) == SubSeq(lines, 1, Min({SummaryLines, Len(lines)}))

Heads(bs) == UNION {bs[i].text.head : i \in DOMAIN bs}

ReplaceMiddle(bs, mid, block) ==
    SubSeq(bs, 1, mid[1] - 1) \o <<block>> \o SubSeq(bs, mid[2] + 1, Len(bs))

SummaryRef == <<"summary", <<"sum", 0>>>>

Summarized(bs, mid, shown) ==
    IF mid = NoMiddle THEN bs
    ELSE ReplaceMiddle(bs, mid, NewSummary(<<"sum", 0>>,
           [size |-> StubSize + Len(shown), facts |-> Heads(shown) \cup {SummaryRef},
            head |-> {}]))

\* Mutant: the rules summarise behind the system blocks, as the model does.
RuleSummarizeSummaries(bs, o) ==
    LET mid == Middle(bs, o, {"System", "ToolSchema"})
        lines == Lines(bs, mid)
    IN IF lines = <<>> THEN bs ELSE Summarized(bs, mid, Shown(lines))

RuleSummarize(bs, o) ==
    LET mid == Middle(bs, o, Protected)
        lines == Lines(bs, mid)
    IN IF lines = <<>> THEN bs ELSE Summarized(bs, mid, Shown(lines))

LlmPrefix == {"System", "ToolSchema"}

\* With nothing but prefix the search finds no end and starts at the front.
LlmRange(bs, o) ==
    Middle(bs, o, IF PrefixEnd(bs, LlmPrefix) = Len(bs) THEN {} ELSE LlmPrefix)

\* Without the llm-http feature the summary is the first lines, cut short.
LlmSummarize(bs, o) ==
    Summarized(bs, LlmRange(bs, o), Shown(Lines(bs, LlmRange(bs, o))))

Bacm(bs, o) ==
    LET cutoff == IF MaxTurn(bs) >= 6 THEN MaxTurn(bs) - 6 ELSE 0
    IN IF Size(bs) <= o.budget THEN bs
       ELSE Keep(bs, LAMBDA i : \/ bs[i].pinned
                                \/ bs[i].kind \in Protected \cup {"User"}
                                \/ bs[i].failed
                                \/ bs[i].turn >= cutoff)

\* Mutant: tool results are packed after the rest.
CachePackToolsLast(bs) ==
    LET Of(kinds) == Keep(bs, LAMBDA i : bs[i].kind \in kinds)
    IN Of({"System"}) \o Of({"ToolSchema"}) \o Of({"Summary"})
       \o Keep(bs, LAMBDA i : bs[i].kind \notin Protected \cup {"ToolResult"})
       \o Of({"ToolResult"})

CachePack(bs) ==
    LET Of(kinds) == Keep(bs, LAMBDA i : bs[i].kind \in kinds)
    IN Of({"System"}) \o Of({"ToolSchema"}) \o Of({"Summary"})
       \o Keep(bs, LAMBDA i : bs[i].kind \notin Protected)

(* Fitting the budget.                                                     *)

RollingWindow(bs, o) ==
    LET tail == Max({o.rollingTail, 4})
        first == PrefixEnd(bs, Protected) + 1
        last == Len(bs) - tail
    IN IF Size(bs) <= o.budget \/ Len(bs) <= tail + 2 \/ last < first THEN bs
       ELSE ReplaceMiddle(bs, <<first, last>>, NewSummary(<<"rolled", 0>>,
              [size |-> StubSize, facts |-> {}, head |-> {}]))

Trimmable(b) == b.kind \notin Protected /\ b.ref = NoRef

\* What is left of the blocks once every trimmable one before place i is gone.
LeftAt(bs, i) == Size(bs) - Size(At(bs, {j \in 1 .. i - 1 : Trimmable(bs[j])}))

\* Mutant: one token over the budget is let through.
BudgetTrimOneOver(bs, o) ==
    Keep(bs, LAMBDA i : ~Trimmable(bs[i]) \/ LeftAt(bs, i) <= o.budget + 1)

\* Mutant: trims from the recent end.
BudgetTrimNewest(bs, o) ==
    Keep(bs, LAMBDA i : \/ ~Trimmable(bs[i])
                        \/ Size(bs) - Size(At(bs, {j \in i + 1 .. Len(bs) : Trimmable(bs[j])}))
                              <= o.budget)

\* From the front, until the rest fits.
BudgetTrim(bs, o) == Keep(bs, LAMBDA i : ~Trimmable(bs[i]) \/ LeftAt(bs, i) <= o.budget)
-----------------------------------------------------------------------------
Apply(t, bs, o, records) ==
    CASE t = "guideline_bank"       -> GuidelinePin(bs, o)
      [] t = "fold_inject"          -> FoldInject(bs, records)
      [] t = "fold_collapse"        -> FoldCollapse(bs)
      [] t = "error_compaction"     -> ErrorCompaction(bs, o)
      [] t = "consumed_result_mask" -> ConsumedResultMask(bs, o)
      [] t = "agent_omit"           -> AgentOmit(bs)
      [] t = "memory_prune"         -> MemoryPrune(bs, o)
      [] t = "llm_summarization"    -> LlmSummarize(bs, o)
      [] t = "summarization"        -> RuleSummarize(bs, o)
      [] t = "bacm"                 -> Bacm(bs, o)
      [] t = "cache_packer"         -> CachePack(bs)
      [] t = "rolling_window"       -> RollingWindow(bs, o)
      [] t = "budget_trim"          -> BudgetTrim(bs, o)
      [] OTHER                      -> bs

\* What a transform stores, in order: <<reference, text>> pairs.
Puts(t, bs, o) ==
    LET Stored(places, dir) ==
            LET moved == At(bs, places)
            IN [k \in DOMAIN moved |-> <<<<dir, moved[k].id>>, moved[k].text>>]
        Summary(lines) == <<<<SummaryRef, [size |-> Len(lines), facts |-> Heads(lines),
                                           head |-> {}]>>>>
    IN CASE t = "error_compaction" ->
              Stored({i \in DOMAIN bs : CompactsAt(bs, i, o)}, "err")
         [] t = "consumed_result_mask" ->
              Stored({i \in DOMAIN bs : MasksAt(bs, i, o)}, "tool")
         [] t = "summarization" /\ RuleSummarize(bs, o) # bs ->
              Summary(Lines(bs, Middle(bs, o, Protected)))
         [] t = "llm_summarization" /\ LlmSummarize(bs, o) # bs ->
              Summary(Shown(Lines(bs, LlmRange(bs, o))))
         [] OTHER -> <<>>
=============================================================================
