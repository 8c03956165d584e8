-------------------------------- MODULE Gate --------------------------------
(***************************************************************************)
(* The sufficiency gate of a compile, for an agent that works from a       *)
(* handoff: the oracles look for the required slots in what the pipeline   *)
(* left, and the answer, its routing hint or the error follow from them.   *)
(* The language model an oracle asks is outside: it answers anything, late *)
(* or not at all.                                                          *)
(*                                                                         *)
(* The transcript is the slots its blocks say.  Which blocks the pipeline  *)
(* keeps is module Compile's; here it is any.  The fold record it injects  *)
(* stays (Compile's RecordsDelivered) unless a model or a service rewrites *)
(* blocks: a summary of theirs says anything, and the record may be among  *)
(* the blocks it stands for.                                               *)
(***************************************************************************)
EXTENDS Handoff

CONSTANTS
    Requests,    \* options of the compiles the agent asks for
    Records,     \* records workers return
    Folds,       \* fold messages branches leave
    MaxFolds,    \* bound on the fold messages not collapsed yet
    Oracles,     \* lists of inner oracles of a composite; <<>> for one's own
    Opinions     \* answers an oracle of the caller's may give

ASSUME InputTypes == Records \subseteq Record /\ Folds \subseteq FoldMessage
ASSUME MaxFoldsType == MaxFolds \in Nat
ASSUME OraclesType == Oracles \subseteq Seq({"rule", "llm", "own"})

Verdict == [sufficient : BOOLEAN, missing : SUBSET Slots]
ASSUME OpinionsType == Opinions \subseteq Verdict

\* What a chat completion says is missing, and how: as the JSON asked for, on
\* its own or as the message of a choice, or as other text that mentions slots
\* (prose, JSON in a code fence, an error).
Reply == [form : {"json", "choice", "text"}, named : SUBSET Slots, mentions : SUBSET Slots]

\* rewrites: llm_summarization or external_compress is on.
Options == [required : SUBSET Slots, soft : BOOLEAN, check : BOOLEAN,
            oracles : Oracles, deep : BOOLEAN, rewrites : BOOLEAN]
ASSUME RequestsType == Requests \subseteq Options

VARIABLES
    talk,      \* slots the transcript's blocks say
    folds,     \* fold messages in the transcript
    record,    \* the handoff the agent works from
    promised,  \* slots its texts said when it was made
    contract,  \* slots every agent it passed declared
    stage,     \* where the agent or its request is
    request,   \* options of the running compile
    corpus,    \* slots the compiled blocks say
    heavy,     \* they take over half of the budget
    todo,      \* inner oracles to ask
    missing,   \* all_missing
    verdict,   \* the oracle's result
    faulted,   \* slots an oracle that was not satisfied has named
    said,      \* what the language model's answer called missing
    answer     \* what the caller got last

handoff == <<talk, folds, record, promised, contract>>
gate == <<request, corpus, heavy, todo, missing, verdict, faulted, said>>
vars == <<handoff, stage, gate, answer>>

NoRequest == [required |-> {}, soft |-> FALSE, check |-> FALSE, oracles |-> <<>>,
              deep |-> FALSE, rewrites |-> FALSE]
Satisfied == [sufficient |-> TRUE, missing |-> {}]
NoAnswer == [status |-> "none", sufficient |-> FALSE, says |-> {}, tier |-> "none"]

Init == /\ talk = {}
        /\ folds = <<>>
        /\ record = NoRecord
        /\ promised = {}
        /\ contract = Slots
        /\ stage = "idle"
        /\ request = NoRequest
        /\ corpus = {}
        /\ heavy = FALSE
        /\ todo = <<>>
        /\ missing = {}
        /\ verdict = Satisfied
        /\ faulted = {}
        /\ said = {}
        /\ answer = NoAnswer

\* Records, requests and verdicts have the right shape.
TypeOK ==
    /\ talk \subseteq Slots
    /\ folds \in Seq(Folds) /\ Len(folds) <= MaxFolds
    /\ record \in Record
    /\ promised \subseteq Slots /\ contract \subseteq Slots
    /\ stage \in {"idle", "pipeline", "oracles", "waiting", "decide", "answered"}
    /\ request \in Requests \cup {NoRequest}
    /\ corpus \subseteq Slots
    /\ heavy \in BOOLEAN
    /\ todo \in Seq({"rule", "llm", "own"})
    /\ missing \subseteq Slots
    /\ verdict \in Verdict
    /\ faulted \subseteq Slots /\ said \subseteq Slots
    /\ answer \in [status : {"none", "ok", "error"}, sufficient : BOOLEAN,
                   says : SUBSET Slots, tier : {"none", "fast", "full"}]
-----------------------------------------------------------------------------
(* The agent before its model call.                                        *)

Speak(says) == /\ stage = "idle"
               /\ talk' = talk \cup says
               /\ UNCHANGED <<folds, record, promised, contract, stage, gate, answer>>

\* A branch ends and leaves a fold message.
Leave(f) == /\ stage = "idle"
            /\ Len(folds) < MaxFolds
            /\ folds' = Append(folds, f)
            /\ UNCHANGED <<talk, record, promised, contract, stage, gate, answer>>

Take(r) == /\ record' = r
           /\ promised' = Pledged(r)
           /\ contract' = Slots

\* The fold messages become one record, and leave the transcript.
Collapse == /\ stage = "idle"
            /\ folds # <<>>
            /\ folds' = <<>>
            /\ Take(Collapsed(folds))
            /\ UNCHANGED <<talk, stage, gate, answer>>

\* A worker returns a record.
Return(r) == /\ stage = "idle"
             /\ Take(r)
             /\ UNCHANGED <<talk, folds, stage, gate, answer>>

\* The record goes to an agent that declares slots.
Hand(slots) == /\ stage = "idle"
               /\ record' = Compress(record, slots)
               /\ contract' = IF slots = {} THEN contract ELSE contract \cap slots
               /\ UNCHANGED <<talk, folds, promised, stage, gate, answer>>

(* One compile.                                                            *)

Ask(r) == /\ stage = "idle"
          /\ stage' = "pipeline"
          /\ request' = r
          /\ UNCHANGED <<handoff, corpus, heavy, todo, missing, verdict, faulted, said, answer>>

InTranscript == talk \cup UNION {folds[i].says : i \in DOMAIN folds}

\* What the compiled blocks may say: any part of the transcript and the whole
\* record, or anything once blocks have been rewritten, the record's with them.
MayLeave(left) ==
    request.rewrites \/ \E kept \in SUBSET InTranscript : left = kept \cup ReadIn(record)

Pipeline(left, h) ==
    /\ stage = "pipeline"
    /\ MayLeave(left)
    /\ corpus' = left
    /\ heavy' = h
    /\ todo' = IF request.check THEN request.oracles ELSE <<>>
    /\ verdict' = Satisfied
    /\ stage' = IF request.check THEN "oracles" ELSE "decide"
    /\ UNCHANGED <<handoff, request, missing, faulted, said, answer>>

Asking(oracle) == stage = "oracles" /\ todo # <<>> /\ Head(todo) = oracle

\* Mutant: each answer replaces those before.
HearLast(v) == /\ missing' = v.missing
               /\ faulted' = IF v.sufficient THEN faulted ELSE faulted \cup v.missing
               /\ todo' = Tail(todo)
               /\ stage' = "oracles"

\* The composite goes on to its next inner oracle.
Hear(v) == /\ missing' = IF v.sufficient THEN missing ELSE missing \cup v.missing
           /\ faulted' = IF v.sufficient THEN faulted ELSE faulted \cup v.missing
           /\ todo' = Tail(todo)
           /\ stage' = "oracles"

\* RuleOracle: the slots that no block says.
CheckRules == /\ Asking("rule")
              /\ LET lacking == request.required \ corpus
                 IN Hear([sufficient |-> lacking = {}, missing |-> lacking])
              /\ UNCHANGED <<handoff, request, corpus, heavy, verdict, said, answer>>

\* An oracle of the caller's answers the composite.
CheckOwn(v) == /\ Asking("own")
               /\ Hear(v)
               /\ UNCHANGED <<handoff, request, corpus, heavy, verdict, said, answer>>

\* LlmSufficiencyOracle: nothing is asked when nothing is required.
AskNothing == /\ Asking("llm")
              /\ request.required = {}
              /\ Hear(Satisfied)
              /\ UNCHANGED <<handoff, request, corpus, heavy, verdict, said, answer>>

\* The request goes out.
AskModel == /\ Asking("llm")
            /\ request.required # {}
            /\ stage' = "waiting"
            /\ UNCHANGED <<handoff, gate, answer>>

\* parse_missing_slots: a list that can be read is taken as it is; otherwise
\* the required slots the text does not mention are missing.
Parsed(reply) == IF reply.form = "text" THEN request.required \ reply.mentions ELSE reply.named

\* Whatever the status, the body is read.
Hears(reply) == /\ stage = "waiting"
                /\ Hear([sufficient |-> Parsed(reply) = {}, missing |-> Parsed(reply)])
                /\ said' = reply.named
                /\ UNCHANGED <<handoff, request, corpus, heavy, verdict, answer>>

\* The inner oracles are through, or the caller's own oracle stands alone.
Conclude == /\ stage = "oracles"
            /\ request.oracles # <<>>
            /\ todo = <<>>
            /\ verdict' = [sufficient |-> missing = {}, missing |-> missing]
            /\ stage' = "decide"
            /\ UNCHANGED <<handoff, request, corpus, heavy, todo, missing, faulted, said, answer>>

Alone(v) == /\ stage = "oracles"
            /\ request.oracles = <<>>
            /\ verdict' = v
            /\ faulted' = IF v.sufficient THEN {} ELSE v.missing
            /\ stage' = "decide"
            /\ UNCHANGED <<handoff, request, corpus, heavy, todo, missing, said, answer>>

End(a) == /\ stage' = "answered"
          /\ answer' = a
          /\ UNCHANGED <<handoff, gate>>

\* Mutant: the call to the model has no timeout.
GiveUpUnlessWaiting == /\ \/ stage = "pipeline"
                          \/ Asking("llm") \/ Asking("own")
                          \/ stage = "oracles" /\ request.oracles = <<>>
                       /\ End([NoAnswer EXCEPT !.status = "error"])

\* A transform fails, or an oracle (no key, no connection, no answer within
\* the timeout): an error, soft_sufficiency or not.
GiveUp == /\ \/ stage \in {"pipeline", "waiting"}
             \/ Asking("llm") \/ Asking("own")
             \/ stage = "oracles" /\ request.oracles = <<>>
          /\ End([NoAnswer EXCEPT !.status = "error"])

\* Mutant: the hint goes by size and depth only.
TierBySize == IF heavy \/ request.deep THEN "full" ELSE "fast"

\* compute_routing_hint.
Tier == IF verdict.missing # {} \/ heavy \/ request.deep THEN "full" ELSE "fast"

\* Compiled context, the input, or an error.
Decide ==
    /\ stage = "decide"
    /\ \/ /\ verdict.sufficient
          /\ End([status |-> "ok", sufficient |-> TRUE, says |-> corpus, tier |-> Tier])
       \/ /\ ~verdict.sufficient /\ request.soft
          /\ End([status |-> "ok", sufficient |-> FALSE, says |-> InTranscript, tier |-> Tier])
       \/ /\ ~verdict.sufficient /\ ~request.soft
          /\ End([NoAnswer EXCEPT !.status = "error"])

\* The agent has read the answer; of the request nothing is left.
Continue == /\ stage = "answered"
            /\ stage' = "idle"
            /\ request' = NoRequest
            /\ corpus' = {}
            /\ heavy' = FALSE
            /\ todo' = <<>>
            /\ missing' = {}
            /\ verdict' = Satisfied
            /\ faulted' = {}
            /\ said' = {}
            /\ answer' = NoAnswer
            /\ UNCHANGED handoff

\* What the compiler does of its own; the model's answer comes from outside.
Compiler == \/ \E left \in SUBSET Slots, h \in BOOLEAN : Pipeline(left, h)
            \/ CheckRules \/ AskNothing \/ AskModel
            \/ \E v \in Opinions : CheckOwn(v) \/ Alone(v)
            \/ Conclude \/ GiveUp \/ Decide

Next == \/ \E says \in SUBSET Slots : Speak(says)
        \/ \E f \in Folds : Leave(f)
        \/ Collapse
        \/ \E r \in Records : Return(r)
        \/ \E slots \in SUBSET Slots : Hand(slots)
        \/ \E r \in Requests : Ask(r)
        \/ \E reply \in Reply : Hears(reply)
        \/ Compiler
        \/ Continue

Spec == Init /\ [][Next]_vars

\* The runtime keeps polling a request, and every call out has a timeout.
FairSpec == Spec /\ WF_vars(Compiler)
-----------------------------------------------------------------------------
Composite == request.check /\ request.oracles # <<>>

\* Compiled context is vouched for only if every required slot can be read in
\* it and no inner oracle, asked before or after the others, named one it
\* misses (CompositeOracle).
Vouched ==
    answer.sufficient /\ Composite =>
        /\ faulted = {}
        /\ "rule" \in {request.oracles[i] : i \in DOMAIN request.oracles}
              => request.required \subseteq answer.says

\* What a handoff said of a slot every agent on its way declared, the compile
\* still says when the oracles look for it, if no model and no service rewrites
\* its blocks: compressing a record for its consumers never makes their own
\* checks fail (matches_any_slot, FoldInjectTransform, RuleOracle).
HandoffSuffices ==
    stage \in {"oracles", "waiting", "decide"} /\ ~request.rewrites =>
        promised \cap contract \subseteq corpus

\* An answer a composite found lacking is never routed to the fast model: the
\* hint reads the missing slots, not the verdict (compute_routing_hint).
LackingGoesToFull ==
    (/\ Composite
     /\ answer.status = "ok" /\ ~answer.sufficient) => answer.tier = "full"

\* Every request is answered or refused, whether or not the model replies.
RequestEnds == stage = "pipeline" ~> stage = "answered"

\* llm.rs asks the model to "list which required slots are MISSING from this
\* list": a slot the reply lists is not taken for present.
ListedHeard ==
    answer.sufficient /\ Composite => said \cap request.required = {}
=============================================================================
