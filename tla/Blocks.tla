------------------------------- MODULE Blocks -------------------------------
(***************************************************************************)
(* Messages and blocks of the compiler, and the conversions between them.  *)
(*                                                                         *)
(* A text is [size, facts, head]: its estimated tokens, the things a later *)
(* reader can find in it (paths, patterns, store references, the mark of a *)
(* failure) and those of them its first characters show, which is what     *)
(* previews, first lines and summaries keep.                               *)
(***************************************************************************)
EXTENDS Naturals, FiniteSets, SequencesExt

CONSTANTS Paths,        \* facts: file paths, which extract_referents takes as they are
          Spaced, Tight,  \* facts: a branch named as "branch name", as "branch:name"
          Error,        \* fact: the text reads like a failure
          Filler,       \* fact: a short text with a filler phrase
          NoRef, NoName,
          Window        \* blocks infer_subgoals_from_blocks looks back, 12 in the code

ASSUME WindowAssumption == Window \in Nat
ASSUME FactsAssumption == Tight \notin Paths

Protected == {"System", "ToolSchema", "Summary"}

\* The estimated tokens of the first n blocks, and of all.
SizeUpTo(bs) ==
    LET sum[n \in 0 .. Len(bs)] == IF n = 0 THEN 0 ELSE sum[n - 1] + bs[n].text.size
    IN sum
Size(bs) == SizeUpTo(bs)[Len(bs)]

Corpus(bs) == UNION {bs[i].text.facts : i \in DOMAIN bs}

\* The blocks at the places of a set, in order.
AtUpTo(bs, places) ==
    LET kept[n \in 0 .. Len(bs)] ==
          IF n = 0 THEN <<>>
          ELSE IF n \in places THEN Append(kept[n - 1], bs[n]) ELSE kept[n - 1]
    IN kept
At(bs, places) == AtUpTo(bs, places)[Len(bs)]

MaxTurn(bs) == Max({bs[i].turn : i \in DOMAIN bs} \cup {0})

\* The number of leading blocks of the given kinds.
PrefixEnd(bs, kinds) ==
    CHOOSE n \in 0 .. Len(bs) : /\ \A i \in 1 .. n : bs[i].kind \in kinds
                                /\ n = Len(bs) \/ bs[n + 1].kind \notin kinds

Block(id, kind, turn, text, branch) ==
    [id |-> id, kind |-> kind, turn |-> turn, text |-> text, branch |-> branch,
     call |-> NoName,
     failed |-> kind = "ToolResult" /\ Error \in text.facts,
     pinned |-> FALSE, ref |-> NoRef]

\* A block a transform makes has default metadata.
NewSummary(id, text) == Block(id, "Summary", 0, text, NoName)

(* A message is [role, text, calls, name]: calls are the ids of the tool   *)
(* calls of an assistant, name the call a tool answers or a fold's branch. *)

MessageBlocks(turn, m) ==
    CASE m.role = "system" -> <<Block(<<"sys", turn>>, "System", turn, m.text, NoName)>>
      [] m.role = "user"   -> <<Block(<<"user", turn>>, "User", turn, m.text, NoName)>>
      [] m.role = "fold"   -> <<Block(<<"fold", turn>>, "Summary", turn, m.text, m.name)>>
      [] m.role = "tool"   ->
            <<[Block(<<"tr", IF m.name = NoName THEN turn ELSE m.name>>,
                     "ToolResult", turn, m.text, NoName) EXCEPT !.call = m.name]>>
      [] m.role = "assistant" ->
            (IF m.text.size = 0 THEN <<>>
             ELSE <<Block(<<"asst", turn>>, "Assistant", turn, m.text, NoName)>>)
            \o [k \in DOMAIN m.calls |->
                  Block(<<"tc", m.calls[k]>>, "ToolCall", turn,
                        [size |-> 1, facts |-> {}, head |-> {}], NoName)]
      [] OTHER -> <<Block(<<"other", turn>>, "Other", turn, m.text, NoName)>>

ParseTranscript(ms) == FlattenSeq([i \in DOMAIN ms |-> MessageBlocks(i - 1, ms[i])])

RoleOf(kind) == CASE kind \in {"System", "ToolSchema"} -> "system"
                  [] kind \in {"User", "Other"}        -> "user"
                  [] kind = "ToolResult"               -> "tool"
                  [] OTHER                             -> "assistant"

BlocksToMessages(bs) ==
    [i \in DOMAIN bs |->
        [role |-> RoleOf(bs[i].kind), text |-> bs[i].text, calls |-> <<>>,
         name |-> IF bs[i].kind = "ToolResult" THEN bs[i].call ELSE NoName]]

\* A branch is looked for as "branch:name", however the text spells it.
Referents(b) ==
    LET named == IF b.text.facts \cap {Spaced, Tight} = {} THEN {} ELSE {Tight}
    IN IF b.kind \in {"User", "Assistant"} THEN (b.text.facts \cap Paths) \cup named ELSE {}

\* The slots the recent turns of the input make the oracle look for.
InferSlots(bs) == UNION {Referents(bs[i]) : i \in {j \in DOMAIN bs : j + Window > Len(bs)}}
=============================================================================
