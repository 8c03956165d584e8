----------------------------- MODULE MCCompile -----------------------------
(***************************************************************************)
(* Transcripts of nine messages around three free places, and the sets of  *)
(* options each run compiles them with.                                    *)
(***************************************************************************)
EXTENDS Compile

CONSTANTS readme, app, system, failure, goal, filler, spaced, tight, noref, none,
          call_a, call_b, call_c, call_d, call_e, branch

Text(size, facts, head) == [size |-> size, facts |-> facts, head |-> head]
Message(role, text, calls, name) ==
    [role |-> role, text |-> text, calls |-> calls, name |-> name]

Ask(facts) == Message("user", Text(1, facts, facts), <<>>, none)
Say(facts) == Message("assistant", Text(1, facts, facts), <<>>, none)
Tool(call, facts, head) == Message("tool", Text(4, facts, head), <<>>, call)

\* What may stand at the free place p. The call of a tool result is its place,
\* so that two results never share one; a result may also come without.
At_(p) ==
    {Message("assistant", Text(1, {filler}, {filler}), <<>>, none),
     Message("assistant", Text(0, {}, {}), <<p>>, none),
     Tool(p, {app, readme}, {app}),
     Tool(none, {failure, goal}, {}),
     Message("system", Text(1, {system}, {system}), <<>>, none),
     Message("fold", Text(1, {app}, {app}), <<>>, branch),
     Ask({app})}

Around(a, b, c, last) ==
    <<Message("system", Text(1, {}, {}), <<>>, none), Ask({goal}), a,
      Tool(call_d, {failure, app}, {failure}), b, c,
      Say({}), Tool(call_e, {}, {}), last>>

MCInputs ==
    {Around(a, b, c, Ask({})) : a \in At_(call_a), b \in At_(call_b), c \in At_(call_c)}
      \cup {<<Message("assistant", Text(0, {}, {}), <<>>, none)>>}
BranchInputs ==
    {Around(a, b, c, Ask({spaced})) : a \in At_(call_a), b \in At_(call_b), c \in At_(call_c)}

Rule(pattern, action, priority) ==
    [pattern |-> pattern, action |-> action, priority |-> priority]

DefaultToggles ==
    {"referential_keep", "error_compaction", "consumed_result_mask", "rolling_window",
     "budget_trim", "fold_collapse", "agent_omit", "summarization", "external_compress",
     "cache_packer"}

Defaults ==
    [on |-> DefaultToggles, budget |-> 100, keepRecent |-> 1, errorTurns |-> 2,
     rollingTail |-> 4, summarizeKeep |-> 0, folds |-> <<>>, bank |-> <<>>, policy |-> <<>>,
     mask |-> TRUE, check |-> TRUE, slots |-> {}, infer |-> TRUE, soft |-> FALSE]

Tight_ == [Defaults EXCEPT !.budget = 9]
Unsummarized(o) == [o EXCEPT !.on = @ \ {"summarization"}]
With(o, ts) == [o EXCEPT !.on = @ \cup ts]

SharedOptions ==
    {Defaults, Tight_, [Tight_ EXCEPT !.soft = TRUE],
     Unsummarized(Tight_), [Unsummarized(Tight_) EXCEPT !.check = FALSE],
     [Unsummarized(Tight_) EXCEPT !.mask = FALSE, !.soft = TRUE],
     [Tight_ EXCEPT !.slots = {system}, !.soft = TRUE]}
ExtraOptions ==
    {With(Tight_, {"llm_summarization", "memory_prune"}),
     With(Unsummarized(Tight_), {"bacm"}),
     [Tight_ EXCEPT !.folds = <<Text(1, {goal}, {}), Text(1, {}, {})>>, !.check = FALSE],
     [With(Unsummarized(Defaults), {"fold_policy", "memory_prune"}) EXCEPT
        !.folds = <<Text(1, {goal}, {})>>, !.keepRecent = 0,
        !.policy = <<Rule(failure, "inject_fold", 1), Rule(app, "skip", 3),
                     Rule(none, "inject_fold", 2)>>],
     [With(Tight_, {"guideline_bank"}) EXCEPT
        !.bank = <<Rule(readme, "keep", 2), Rule(failure, "summarize", 1)>>, !.soft = TRUE]}
MCOptions == SharedOptions \cup ExtraOptions

PinOptions == {[With(Tight_, {"guideline_bank"}) EXCEPT
                 !.bank = <<Rule(readme, "keep", 1)>>, !.check = FALSE]}
GuideOptions == {[With(Unsummarized(Defaults), {"guideline_bank"}) EXCEPT
                 !.bank = <<Rule(readme, "summarize", 1)>>]}
RollOptions == {[Tight_ EXCEPT !.on = {"consumed_result_mask", "rolling_window"}]}
RecordOptions == {[With(Tight_, {"llm_summarization"}) EXCEPT
                     !.folds = <<Text(1, {goal}, {})>>, !.check = FALSE]}
SoftOptions == {[Tight_ EXCEPT !.soft = TRUE]}
RoomyOptions == {[Defaults EXCEPT !.keepRecent = 3, !.errorTurns = 9, !.summarizeKeep = 12]}

\* The transcripts of the runs are such that every promise applies to them.
ASSUME InputsDistinct == DistinctIds
=============================================================================
