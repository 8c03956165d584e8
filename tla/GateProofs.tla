----------------------------- MODULE GateProofs -----------------------------
(***************************************************************************)
(* What an answer of the sufficiency gate may be relied on for, for any    *)
(* slots, records, fold messages, lists of oracles and replies.            *)
(***************************************************************************)
EXTENDS Gate, TLAPS

\* The elements of a list.
Among(x, list) == \E i \in 1 .. Len(list) : list[i] = x

\* What every agent on its way declared, the record still says.
Kept == promised \cap contract \subseteq Pledged(record)

\* Nothing is answered before a request is, and a request starts afresh.
Fresh == /\ stage # "answered" => answer = NoAnswer
         /\ stage \in {"idle", "pipeline"} => missing = {} /\ faulted = {}

\* The language model is waited for while its oracle is the next to answer.
Waiting == stage = "waiting" => todo # <<>> /\ Head(todo) = "llm"

\* While the inner oracles are asked, what those asked so far found missing has
\* been collected.
Collected ==
    stage \in {"oracles", "waiting"} /\ request.oracles # <<>> =>
        /\ faulted \subseteq missing
        /\ Among("rule", request.oracles) =>
              Among("rule", todo) \/ request.required \ corpus \subseteq missing

\* The composite's verdict stands for all of its oracles.
Concluded ==
    stage = "decide" /\ Composite =>
        /\ verdict.sufficient <=> verdict.missing = {}
        /\ faulted \subseteq verdict.missing
        /\ Among("rule", request.oracles) => request.required \ corpus \subseteq verdict.missing

Safe == /\ Waiting /\ Kept /\ Fresh /\ Collected /\ Concluded
        /\ HandoffSuffices /\ Vouched /\ LackingGoesToFull

IInv == TypeOK /\ Safe
-----------------------------------------------------------------------------
(* Fold records.                                                           *)

\* A record says what one of its texts does.
LEMMA PledgedIff ==
    ASSUME NEW r, NEW x
    PROVE  x \in Pledged(r) <=> x \notin Escaped /\ \E t \in Texts(r) : x \in t.says
  BY DEF Pledged

\* What a record's texts say, and what can be read of it, are slots.
LEMMA RecordSlots ==
    ASSUME NEW r \in Record
    PROVE  Pledged(r) \subseteq Slots /\ ReadIn(r) \subseteq Slots /\ Pledged(r) \subseteq ReadIn(r)
<1>1. \A t \in Texts(r) : t \in Text
  BY DEF Texts, Record, Artifact
<1>2. Pledged(r) \subseteq Slots
  BY <1>1 DEF Pledged, Text
<1>3. \A a \in r.artifacts : a.rest \subseteq Slots
  BY DEF Record, Artifact
<1> QED
  BY <1>2, <1>3 DEF ReadIn

\* Compressing a record leaves a record.
LEMMA CompressType ==
    ASSUME NEW r \in Record, NEW slots \in SUBSET Slots
    PROVE  Compress(r, slots) \in Record
  BY DEF Compress, Record

\* What a text of the record says of a declared slot is still said when the
\* record has been compressed.
LEMMA CompressKeeps ==
    ASSUME NEW r \in Record, NEW slots \in SUBSET Slots, slots # {}
    PROVE  Pledged(r) \cap slots \subseteq Pledged(Compress(r, slots))
<1> SUFFICES ASSUME NEW x \in Pledged(r), x \in slots
             PROVE  x \in Pledged(Compress(r, slots))
  OBVIOUS
<1> DEFINE c == Compress(r, slots)
<1>1. PICK t \in Texts(r) : x \in t.says /\ x \notin Escaped
  BY PledgedIff
<1>2. Matches(t, slots)
  BY <1>1 DEF Matches
<1>3. /\ c.subgoal = r.subgoal
      /\ c.artifacts = {a \in r.artifacts : Matches(a.path, slots)}
      /\ c.preconditions_preserved = {p \in r.preconditions_preserved : Matches(p, slots)}
      /\ c.decisions = {d \in r.decisions : Matches(d, slots)}
      /\ c.open_issues = {o \in r.open_issues : Matches(o, slots)}
  BY DEF Compress, Record
<1> HIDE DEF c
<1>4. t \in Texts(c)
  BY <1>2, <1>3 DEF Texts
<1> QED
  BY <1>1, <1>4, PledgedIff DEF c

\* The empty record is a record.
LEMMA NoRecordType == NoRecord \in Record
  BY DEF NoRecord, Record, Text

\* Collapsing fold messages makes a record.
LEMMA CollapsedType ==
    ASSUME NEW fs \in Seq(Folds), fs # <<>>
    PROVE  Collapsed(fs) \in Record
<1>1. \A i \in 1 .. Len(fs) : fs[i] \in FoldMessage
  BY InputTypes
<1>2. 1 \in 1 .. Len(fs)
  OBVIOUS
<1>3. fs[1].opening \in Text /\ {fs[i].brief : i \in DOMAIN fs} \subseteq Text
  BY <1>1, <1>2 DEF FoldMessage
<1> QED
  BY <1>3, NoRecordType DEF Collapsed, Record
-----------------------------------------------------------------------------
(* Type correctness.                                                       *)

\* Requests are options.
LEMMA RequestShape ==
    ASSUME TypeOK
    PROVE  /\ request.required \subseteq Slots
           /\ request.oracles \in Seq({"rule", "llm", "own"})
<1>1. CASE request \in Requests
  BY <1>1, RequestsType, OraclesType DEF Options
<1>2. CASE request = NoRequest
  BY <1>2 DEF NoRequest
<1> QED
  BY <1>1, <1>2 DEF TypeOK

\* Hearing an oracle keeps the types.
LEMMA HearType ==
    ASSUME TypeOK, NEW v \in Verdict, todo # <<>>, Hear(v),
           UNCHANGED <<handoff, request, corpus, heavy, verdict, answer>>,
           said' \subseteq Slots
    PROVE  TypeOK'
  BY DEF Hear, Verdict, TypeOK, handoff

\* An answer keeps the types.
LEMMA EndType ==
    ASSUME TypeOK, NEW a, End(a),
           a \in [status : {"none", "ok", "error"}, sufficient : BOOLEAN,
                  says : SUBSET Slots, tier : {"none", "fast", "full"}]
    PROVE  TypeOK'
  BY DEF End, TypeOK, handoff, gate

\* Every step preserves the types.
LEMMA TypeStep == TypeOK /\ Waiting /\ [Next]_vars => TypeOK'
<1> SUFFICES ASSUME TypeOK, Waiting, [Next]_vars PROVE TypeOK'
  OBVIOUS
<1>1. CASE UNCHANGED vars
  BY <1>1 DEF vars, handoff, gate, TypeOK
<1>2. ASSUME NEW says \in SUBSET Slots, Speak(says) PROVE TypeOK'
  BY <1>2 DEF Speak, gate, TypeOK
<1>3. ASSUME NEW f \in Folds, Leave(f) PROVE TypeOK'
  <2>1. folds' \in Seq(Folds) /\ Len(folds') <= MaxFolds
    <3>1. Len(folds) \in Nat /\ Len(Append(folds, f)) = Len(folds) + 1
      BY DEF TypeOK
    <3> QED
      BY <1>3, <3>1, MaxFoldsType DEF Leave, TypeOK
  <2> QED
    BY <1>3, <2>1 DEF Leave, gate, TypeOK
<1>4. CASE Collapse
  <2>1. Collapsed(folds) \in Record
    BY <1>4, CollapsedType DEF Collapse, TypeOK
  <2>2. Pledged(Collapsed(folds)) \subseteq Slots
    BY <2>1, RecordSlots
  <2>3. folds' \in Seq(Folds) /\ Len(folds') <= MaxFolds
    BY <1>4, MaxFoldsType DEF Collapse, TypeOK
  <2> QED
    BY <1>4, <2>1, <2>2, <2>3 DEF Collapse, Take, gate, TypeOK
<1>5. ASSUME NEW r \in Records, Return(r) PROVE TypeOK'
  <2>1. r \in Record /\ Pledged(r) \subseteq Slots
    BY InputTypes, RecordSlots
  <2> QED
    BY <1>5, <2>1 DEF Return, Take, gate, TypeOK
<1>6. ASSUME NEW slots \in SUBSET Slots, Hand(slots) PROVE TypeOK'
  BY <1>6, CompressType DEF Hand, gate, TypeOK
<1>7. ASSUME NEW r \in Requests, Ask(r) PROVE TypeOK'
  BY <1>7 DEF Ask, handoff, TypeOK
<1>8. ASSUME NEW reply \in Reply, Hears(reply) PROVE TypeOK'
  <2>1. Parsed(reply) \subseteq Slots
    BY RequestShape DEF Parsed, Reply
  <2>2. [sufficient |-> Parsed(reply) = {}, missing |-> Parsed(reply)] \in Verdict
    BY <2>1 DEF Verdict
  <2>3. said' \subseteq Slots
    BY <1>8 DEF Hears, Reply
  <2>4. stage' = "oracles" /\ missing' \subseteq Slots /\ faulted' \subseteq Slots
    BY <1>8, <2>2 DEF Hears, Hear, TypeOK, Verdict
  <2>5. todo' \in Seq({"rule", "llm", "own"})
    BY <1>8 DEF Hears, Hear, TypeOK, Waiting
  <2> QED
    BY <1>8, <2>3, <2>4, <2>5 DEF Hears, handoff, TypeOK
<1>9. ASSUME NEW left \in SUBSET Slots, NEW h \in BOOLEAN, Pipeline(left, h) PROVE TypeOK'
  <2>1. Satisfied \in Verdict
    BY DEF Satisfied, Verdict
  <2> QED
    BY <1>9, <2>1, RequestShape DEF Pipeline, handoff, TypeOK
<1>10. CASE CheckRules
  <2>1. [sufficient |-> request.required \ corpus = {},
         missing |-> request.required \ corpus] \in Verdict
    BY RequestShape DEF Verdict
  <2> QED
    BY <1>10, <2>1, HearType DEF CheckRules, Asking, TypeOK
<1>11. CASE AskNothing
  <2>1. Satisfied \in Verdict
    BY DEF Satisfied, Verdict
  <2> QED
    BY <1>11, <2>1, HearType DEF AskNothing, Asking, TypeOK
<1>12. CASE AskModel
  BY <1>12 DEF AskModel, handoff, gate, TypeOK
<1>13. ASSUME NEW v \in Opinions, CheckOwn(v) PROVE TypeOK'
  BY <1>13, OpinionsType, HearType DEF CheckOwn, Asking, TypeOK
<1>14. ASSUME NEW v \in Opinions, Alone(v) PROVE TypeOK'
  <2>1. v \in Verdict /\ v.missing \subseteq Slots
    BY OpinionsType DEF Verdict
  <2> QED
    BY <1>14, <2>1 DEF Alone, handoff, TypeOK
<1>15. CASE Conclude
  <2>1. [sufficient |-> missing = {}, missing |-> missing] \in Verdict
    BY DEF Verdict, TypeOK
  <2> QED
    BY <1>15, <2>1 DEF Conclude, handoff, TypeOK
<1>16. CASE GiveUp
  BY <1>16, EndType DEF GiveUp, NoAnswer
<1>17. CASE Decide
  <2>1. Tier \in {"none", "fast", "full"} /\ InTranscript \subseteq Slots
    <3>1. \A i \in DOMAIN folds : folds[i].says \subseteq Slots
      BY InputTypes DEF TypeOK, FoldMessage
    <3> QED
      BY <3>1 DEF Tier, InTranscript, TypeOK
  <2> QED
    BY <1>17, <2>1, EndType DEF Decide, NoAnswer, TypeOK
<1>18. CASE Continue
  <2>1. Satisfied \in Verdict
    BY DEF Satisfied, Verdict
  <2>2. NoAnswer \in [status : {"none", "ok", "error"}, sufficient : BOOLEAN,
                      says : SUBSET Slots, tier : {"none", "fast", "full"}]
    BY DEF NoAnswer
  <2>3. <<>> \in Seq({"rule", "llm", "own"})
    OBVIOUS
  <2> QED
    BY <1>18, <2>1, <2>2, <2>3 DEF Continue, handoff, TypeOK
<1>19. CASE Compiler
  BY <1>9, <1>10, <1>11, <1>12, <1>13, <1>14, <1>15, <1>16, <1>17, <1>19 DEF Compiler
<1> QED
  BY <1>1, <1>2, <1>3, <1>4, <1>5, <1>6, <1>7, <1>8, <1>18, <1>19 DEF Next
-----------------------------------------------------------------------------
(* The handoff and the verdict.                                            *)

\* What is among the rest of a list is not lost when the head is taken.
LEMMA RestKeeps ==
    ASSUME NEW S, NEW list \in Seq(S), list # <<>>, NEW x, Among(x, list), Head(list) # x
    PROVE  Among(x, Tail(list))
<1>1. PICK i \in 1 .. Len(list) : list[i] = x
  BY DEF Among
<1>2. i # 1 /\ i - 1 \in 1 .. Len(Tail(list)) /\ Tail(list)[i - 1] = x
  BY <1>1
<1> QED
  BY <1>2 DEF Among

\* The initial state satisfies the invariant.
LEMMA Start == Init => IInv
<1> SUFFICES ASSUME Init PROVE IInv
  OBVIOUS
<1>1. TypeOK
  <2>1. Satisfied \in Verdict
    BY DEF Satisfied, Verdict
  <2>2. NoAnswer \in [status : {"none", "ok", "error"}, sufficient : BOOLEAN,
                      says : SUBSET Slots, tier : {"none", "fast", "full"}]
    BY DEF NoAnswer
  <2>3. <<>> \in Seq({"rule", "llm", "own"}) /\ <<>> \in Seq(Folds) /\ Len(<<>>) <= MaxFolds
    BY MaxFoldsType
  <2> QED
    BY <2>1, <2>2, <2>3, NoRecordType DEF Init, TypeOK
<1>2. stage = "idle" /\ promised = {} /\ missing = {} /\ faulted = {} /\ answer = NoAnswer
  BY DEF Init
<1> QED
  BY <1>1, <1>2 DEF IInv, Safe, Waiting, Kept, Fresh, Collected, Concluded, HandoffSuffices,
                    Vouched, LackingGoesToFull, NoAnswer

\* The agent's own steps keep what its record says, and touch no request.
LEMMA AgentStep ==
    ASSUME IInv, stage = "idle",
           \/ \E says \in SUBSET Slots : Speak(says)
           \/ \E f \in Folds : Leave(f)
           \/ Collapse
           \/ \E r \in Records : Return(r)
           \/ \E slots \in SUBSET Slots : Hand(slots)
    PROVE  Kept' /\ UNCHANGED <<stage, gate, answer>>
<1>1. ASSUME NEW says \in SUBSET Slots, Speak(says)
      PROVE  Kept' /\ UNCHANGED <<stage, gate, answer>>
  BY <1>1 DEF Speak, IInv, Safe, Kept
<1>2. ASSUME NEW f \in Folds, Leave(f)
      PROVE  Kept' /\ UNCHANGED <<stage, gate, answer>>
  BY <1>2 DEF Leave, IInv, Safe, Kept
<1>3. CASE Collapse
  BY <1>3 DEF Collapse, Take, Kept
<1>4. ASSUME NEW r \in Records, Return(r)
      PROVE  Kept' /\ UNCHANGED <<stage, gate, answer>>
  BY <1>4 DEF Return, Take, Kept
<1>5. ASSUME NEW slots \in SUBSET Slots, Hand(slots)
      PROVE  Kept' /\ UNCHANGED <<stage, gate, answer>>
  <2>1. CASE slots = {}
    BY <1>5, <2>1 DEF Hand, Compress, IInv, Safe, Kept
  <2>2. CASE slots # {}
    <3>1. record \in Record
      BY DEF IInv, Safe, TypeOK
    <3>2. Pledged(record) \cap slots \subseteq Pledged(Compress(record, slots))
      BY <2>2, <3>1, CompressKeeps
    <3>3. /\ record' = Compress(record, slots) /\ promised' = promised
          /\ contract' = contract \cap slots
      BY <1>5, <2>2 DEF Hand
    <3>4. Pledged(record)' = Pledged(Compress(record, slots))
      BY <3>3 DEF Pledged, Texts
    <3>5. Kept'
      BY <3>2, <3>3, <3>4 DEF IInv, Safe, Kept
    <3> QED
      BY <1>5, <3>5 DEF Hand
  <2> QED
    BY <2>1, <2>2
<1> QED
  BY <1>1, <1>2, <1>3, <1>4, <1>5

\* Hearing the next inner oracle keeps what was collected, if a rule oracle
\* reports every required slot the corpus lacks.
LEMMA HearStep ==
    ASSUME IInv, stage \in {"oracles", "waiting"}, todo # <<>>, NEW v \in Verdict, Hear(v),
           Head(todo) = "rule" => /\ v.sufficient <=> request.required \ corpus = {}
                                  /\ v.missing = request.required \ corpus,
           UNCHANGED <<handoff, request, corpus, answer>>
    PROVE  Safe'
<1>1. stage' = "oracles" /\ answer = NoAnswer /\ answer' = NoAnswer
  BY DEF Hear, IInv, Safe, Fresh
<1>2. Kept' /\ HandoffSuffices'
  BY <1>1 DEF IInv, Safe, Kept, HandoffSuffices, handoff
<1>3. Fresh' /\ Waiting' /\ Concluded' /\ Vouched' /\ LackingGoesToFull'
  BY <1>1 DEF Fresh, Waiting, Concluded, Vouched, LackingGoesToFull, NoAnswer
<1>4. ASSUME request.oracles # <<>> PROVE faulted' \subseteq missing'
  BY <1>4 DEF Hear, IInv, Safe, Collected
<1>5. ASSUME request.oracles # <<>>, Among("rule", request.oracles)
      PROVE  Among("rule", todo') \/ request.required \ corpus \subseteq missing'
  <2>1. missing \subseteq missing'
    BY DEF Hear
  <2>2. CASE request.required \ corpus \subseteq missing
    BY <2>1, <2>2
  <2>3. CASE Among("rule", todo) /\ Head(todo) = "rule"
    <3>1. /\ v.sufficient <=> request.required \ corpus = {}
          /\ v.missing = request.required \ corpus
      BY <2>3
    <3>2. missing' = IF v.sufficient THEN missing ELSE missing \cup v.missing
      BY DEF Hear
    <3> QED
      BY <3>1, <3>2
  <2>4. CASE Among("rule", todo) /\ Head(todo) # "rule"
    <3>1. todo \in Seq({"rule", "llm", "own"})
      BY DEF IInv, Safe, TypeOK
    <3>2. Among("rule", Tail(todo))
      BY <2>4, <3>1, RestKeeps
    <3> QED
      BY <3>2 DEF Hear
  <2> QED
    BY <1>5, <2>2, <2>3, <2>4 DEF IInv, Safe, Collected
<1>6. Collected'
  BY <1>4, <1>5 DEF Collected, Among
<1> QED
  BY <1>2, <1>3, <1>6 DEF Safe

\* Every step preserves the invariant.
LEMMA Step == IInv /\ [Next]_vars => IInv'
<1> SUFFICES ASSUME IInv, [Next]_vars PROVE IInv'
  OBVIOUS
<1>1. ASSUME UNCHANGED vars PROVE Safe'
  BY <1>1 DEF vars, handoff, gate, IInv, Safe, Waiting, Kept, Fresh, Collected, Concluded,
              HandoffSuffices, Vouched, LackingGoesToFull, Composite, Among
<1>2. ASSUME stage = "idle", Kept', UNCHANGED <<stage, gate, answer>> PROVE Safe'
  <2>1. answer = NoAnswer /\ missing = {} /\ faulted = {}
    BY <1>2 DEF IInv, Safe, Fresh
  <2> QED
    BY <1>2, <2>1 DEF gate, Safe, Waiting, Fresh, Collected, Concluded, HandoffSuffices, Vouched,
                      LackingGoesToFull, NoAnswer
<1>3. ASSUME \/ \E says \in SUBSET Slots : Speak(says)
             \/ \E f \in Folds : Leave(f)
             \/ Collapse
             \/ \E r \in Records : Return(r)
             \/ \E slots \in SUBSET Slots : Hand(slots)
      PROVE  Safe'
  <2>1. stage = "idle"
    BY <1>3 DEF Speak, Leave, Collapse, Return, Hand
  <2> QED
    BY <1>2, <1>3, <2>1, AgentStep
<1>4. ASSUME NEW r \in Requests, Ask(r) PROVE Safe'
  BY <1>4 DEF Ask, handoff, IInv, Safe, Waiting, Kept, Fresh, Collected, Concluded,
              HandoffSuffices, Vouched, LackingGoesToFull, NoAnswer
<1>5. ASSUME NEW left \in SUBSET Slots, NEW h \in BOOLEAN, Pipeline(left, h) PROVE Safe'
  <2>1. /\ missing = {} /\ faulted = {} /\ answer = NoAnswer
        /\ UNCHANGED <<handoff, request, missing, faulted, answer>>
        /\ stage' = IF request.check THEN "oracles" ELSE "decide"
        /\ todo' = IF request.check THEN request.oracles ELSE <<>>
    BY <1>5 DEF Pipeline, IInv, Safe, Fresh
  <2>2. record \in Record /\ (~request.rewrites => ReadIn(record) \subseteq corpus')
    BY <1>5 DEF Pipeline, MayLeave, IInv, Safe, TypeOK
  <2>3. ~request.rewrites => promised \cap contract \subseteq corpus'
    BY <2>2, RecordSlots DEF IInv, Safe, Kept
  <2>4. Kept' /\ HandoffSuffices'
    BY <2>1, <2>3 DEF handoff, IInv, Safe, Kept, HandoffSuffices
  <2>5. Fresh' /\ Waiting' /\ Vouched' /\ LackingGoesToFull'
    BY <2>1 DEF Fresh, Waiting, Vouched, LackingGoesToFull, NoAnswer
  <2>6. Concluded'
    BY <2>1 DEF Concluded, Composite
  <2>7. Collected'
    BY <2>1 DEF Collected, Among
  <2> QED
    BY <2>4, <2>5, <2>6, <2>7 DEF Safe
<1>6. ASSUME NEW reply \in Reply, Hears(reply) PROVE Safe'
  <2>1. [sufficient |-> Parsed(reply) = {}, missing |-> Parsed(reply)] \in Verdict
    BY RequestShape DEF Parsed, Reply, Verdict, IInv, Safe
  <2>2. stage = "waiting" /\ todo # <<>> /\ Head(todo) # "rule"
    BY <1>6 DEF Hears, IInv, Safe, Waiting
  <2> QED
    BY <1>6, <2>1, <2>2, HearStep DEF Hears
<1>7. ASSUME CheckRules PROVE Safe'
  <2>1. [sufficient |-> request.required \ corpus = {},
         missing |-> request.required \ corpus] \in Verdict
    BY RequestShape DEF Verdict, IInv, Safe
  <2>2. /\ [sufficient |-> request.required \ corpus = {},
             missing |-> request.required \ corpus].sufficient <=> request.required \ corpus = {}
        /\ [sufficient |-> request.required \ corpus = {},
             missing |-> request.required \ corpus].missing = request.required \ corpus
    OBVIOUS
  <2> QED
    BY <1>7, <2>1, <2>2, HearStep DEF CheckRules, Asking
<1>8. ASSUME AskNothing PROVE Safe'
  <2>1. Satisfied \in Verdict
    BY DEF Satisfied, Verdict
  <2> QED
    BY <1>8, <2>1, HearStep DEF AskNothing, Asking
<1>9. ASSUME NEW v \in Opinions, CheckOwn(v) PROVE Safe'
  BY <1>9, OpinionsType, HearStep DEF CheckOwn, Asking
<1>10. ASSUME AskModel PROVE Safe'
  BY <1>10 DEF AskModel, Asking, handoff, gate, IInv, Safe, Waiting, Kept, Fresh, Collected, Concluded,
               HandoffSuffices, Vouched, LackingGoesToFull, Composite, NoAnswer, Among
<1>11. ASSUME NEW v \in Opinions, Alone(v) PROVE Safe'
  BY <1>11 DEF Alone, handoff, IInv, Safe, Waiting, Kept, Fresh, Collected, Concluded,
               HandoffSuffices, Vouched, LackingGoesToFull, Composite, NoAnswer
<1>12. ASSUME Conclude PROVE Safe'
  <2>1. /\ stage = "oracles" /\ request.oracles # <<>> /\ todo = <<>>
        /\ stage' = "decide"
        /\ verdict' = [sufficient |-> missing = {}, missing |-> missing]
        /\ UNCHANGED <<handoff, request, corpus, missing, faulted, answer>>
    BY <1>12 DEF Conclude
  <2>2. ~Among("rule", todo)
    BY <2>1 DEF Among
  <2>3. (verdict'.sufficient <=> missing = {}) /\ verdict'.missing = missing
    BY <2>1
  <2>4. Concluded'
    BY <2>1, <2>2, <2>3 DEF Concluded, IInv, Safe, Collected, Among
  <2> QED
    BY <2>1, <2>4 DEF handoff, IInv, Safe, Waiting, Kept, Fresh, Collected, HandoffSuffices, Vouched,
                      LackingGoesToFull, NoAnswer
<1>13. ASSUME NEW a, End(a), stage # "answered", Vouched', LackingGoesToFull' PROVE Safe'
  BY <1>13 DEF End, handoff, gate, IInv, Safe, Waiting, Kept, Fresh, Collected, Concluded, HandoffSuffices
<1>14. ASSUME GiveUp PROVE Safe'
  <2>1. stage # "answered" /\ End([NoAnswer EXCEPT !.status = "error"])
    BY <1>14 DEF GiveUp, Asking
  <2>2. ~answer'.sufficient /\ answer'.status = "error"
    BY <2>1 DEF End, NoAnswer
  <2> QED
    BY <1>13, <2>1, <2>2 DEF Vouched, LackingGoesToFull
<1>15. ASSUME Decide PROVE Safe'
  <2>1. stage = "decide" /\ UNCHANGED gate
    BY <1>15 DEF Decide, End
  <2>2. CASE /\ verdict.sufficient
             /\ End([status |-> "ok", sufficient |-> TRUE, says |-> corpus, tier |-> Tier])
    <3>1. answer'.sufficient /\ answer'.says = corpus
      BY <2>2 DEF End
    <3>2. Composite => /\ faulted = {}
                       /\ Among("rule", request.oracles) => request.required \subseteq corpus
      BY <2>1, <2>2 DEF IInv, Safe, Concluded
    <3>3. Vouched'
      BY <2>1, <3>1, <3>2 DEF gate, Vouched, Composite, Among
    <3> QED
      BY <1>13, <2>1, <2>2, <3>1, <3>3 DEF LackingGoesToFull
  <2>3. CASE /\ ~verdict.sufficient
             /\ End([status |-> "ok", sufficient |-> FALSE, says |-> InTranscript, tier |-> Tier])
    <3>1. ~answer'.sufficient /\ answer'.tier = Tier
      BY <2>3 DEF End
    <3>2. Composite => Tier = "full"
      BY <2>1, <2>3 DEF IInv, Safe, Concluded, Tier
    <3> QED
      BY <1>13, <2>1, <2>3, <3>1, <3>2 DEF gate, Vouched, LackingGoesToFull, Composite
  <2>4. CASE End([NoAnswer EXCEPT !.status = "error"])
    <3>1. ~answer'.sufficient /\ answer'.status = "error"
      BY <2>4 DEF End, NoAnswer
    <3> QED
      BY <1>13, <2>1, <2>4, <3>1 DEF Vouched, LackingGoesToFull
  <2> QED
    BY <1>15, <2>2, <2>3, <2>4 DEF Decide
<1>16. ASSUME Continue PROVE Safe'
  BY <1>16 DEF Continue, handoff, IInv, Safe, Waiting, Kept, Fresh, Collected, Concluded,
               HandoffSuffices, Vouched, LackingGoesToFull, NoAnswer
<1>17. ASSUME Compiler PROVE Safe'
  BY <1>5, <1>7, <1>8, <1>9, <1>10, <1>11, <1>12, <1>14, <1>15, <1>17 DEF Compiler
<1>18. TypeOK'
  BY TypeStep DEF IInv, Safe
<1>19. ASSUME Next PROVE Safe'
  BY <1>3, <1>4, <1>6, <1>16, <1>17, <1>19 DEF Next
<1> QED
  BY <1>1, <1>18, <1>19 DEF IInv

\* The invariant holds always.
LEMMA Invariance == Spec => []IInv
  BY Start, Step, PTL DEF Spec

\* Records, requests and verdicts keep their shape, for any slots and oracles.
THEOREM TypeCorrect == Spec => []TypeOK
<1>1. IInv => TypeOK
  BY DEF IInv, Safe
<1> QED
  BY Invariance, <1>1, PTL

\* Compiled context a composite vouches for lacks no slot one of its oracles
\* named, whatever the order of the oracles (CompositeOracle::check).
THEOREM Vouching == Spec => []Vouched
<1>1. IInv => Vouched
  BY DEF IInv, Safe
<1> QED
  BY Invariance, <1>1, PTL

\* However often a record was compressed on its way, the context compiled without
\* a model or a service that rewrites blocks says what the record said of the
\* slots all its consumers declared (compress_handoff_for_consumer,
\* FoldInjectTransform, RuleOracle::check).
THEOREM Handover == Spec => []HandoffSuffices
<1>1. IInv => HandoffSuffices
  BY DEF IInv, Safe
<1> QED
  BY Invariance, <1>1, PTL

\* An answer a composite found lacking goes to the full model
\* (compute_routing_hint).
THEOREM Routing == Spec => []LackingGoesToFull
<1>1. IInv => LackingGoesToFull
  BY DEF IInv, Safe
<1> QED
  BY Invariance, <1>1, PTL
=============================================================================
