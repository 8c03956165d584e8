------------------------------ MODULE Session ------------------------------
(***************************************************************************)
(* Clients that call the context compiler before each model call, and the  *)
(* cold store the compiled transcripts refer to.  Of the pipeline only the *)
(* two transforms that write a tool result to the store run here (the      *)
(* toggles error_compaction and consumed_result_mask).  A compile suspends *)
(* at every store.put, so the puts of concurrent requests interleave.      *)
(*                                                                         *)
(* Every transcript message makes one block, so block i has turn_index     *)
(* i - 1.  A message is [name, content]; name is its tool_call_id.         *)
(***************************************************************************)
EXTENDS Naturals, Sequences, FiniteSets

CONSTANTS
    Clients,      \* agents that call the compiler
    Sessions,     \* session ids
    SessionOf,    \* the session id each client sends
    Names,        \* tool_call_ids
    NoName,       \* a message without tool_call_id
    NamesOf,      \* tool_call_ids (or NoName) each client's model produces
    Payloads,     \* outputs of tools
    NoPayload,    \* content of a message that is no tool result
    Failing,      \* payloads whose text says "error"
    NoRef,        \* content that mentions no reference
    KeepRecent,   \* keep_recent_tool_results
    ErrorTurns,   \* error_compaction_after_turns
    Adopters,     \* clients that continue with the compiled messages
    MaxLen        \* bound on the length of each client's transcript

ASSUME SessionOfType == SessionOf \in [Clients -> Sessions]
ASSUME NamesOfType == NamesOf \in [Clients -> SUBSET (Names \cup {NoName})]
ASSUME NameTypes == /\ NoName \notin Names
                    /\ Names \cap Nat = {}
                    /\ NoName \notin Nat
ASSUME PayloadTypes == NoPayload \notin Payloads /\ Failing \subseteq Payloads
ASSUME NumberTypes == KeepRecent \in Nat /\ ErrorTurns \in Nat /\ MaxLen \in [Clients -> Nat]
ASSUME AdoptersType == Adopters \subseteq Clients

Ids == Names \cup UNION {1 .. MaxLen[c] : c \in Clients}
Refs == Sessions \X {"err", "tool"} \X Ids
ASSUME NoRefType == NoRef \notin Refs

Content == [form : {"other", "raw", "compacted", "masked"},
            payload : Payloads \cup {NoPayload}, ref : Refs \cup {NoRef}]
Nothing == [form |-> "none", payload |-> NoPayload, ref |-> NoRef]

Other  == [form |-> "other", payload |-> NoPayload, ref |-> NoRef]
Raw(p) == [form |-> "raw", payload |-> p, ref |-> NoRef]
Stub(form, p, r) == [form |-> form, payload |-> p, ref |-> r]

Message == [name : Names \cup {NoName}, content : Content]
Block == [name : Names \cup {NoName}, content : Content, cold : BOOLEAN]
-----------------------------------------------------------------------------
VARIABLES
    transcript,   \* per client: the messages it will send next
    store,        \* content stored under each reference
    stage,        \* per client: where its compile request is
    at,           \* per client: next block the running transform looks at
    work,         \* per client: blocks of the running compile
    view          \* per client: messages of the last compile response

vars == <<transcript, store, stage, at, work, view>>

Init == /\ transcript = [c \in Clients |-> <<>>]
        /\ store = [r \in Refs |-> Nothing]
        /\ stage = [c \in Clients |-> "idle"]
        /\ at = [c \in Clients |-> 1]
        /\ work = [c \in Clients |-> <<>>]
        /\ view = [c \in Clients |-> <<>>]

\* The variables hold transcripts, blocks and store contents of the right shape.
TypeOK ==
    /\ transcript \in [Clients -> Seq(Message)]
    /\ store \in [Refs -> Content \cup {Nothing}]
    /\ stage \in [Clients -> {"idle", "compact", "mask", "gate"}]
    /\ at \in [Clients -> Nat \ {0}]
    /\ work \in [Clients -> Seq(Block)]
    /\ view \in [Clients -> Seq(Message)]
-----------------------------------------------------------------------------
(* Helpers over a sequence of messages or blocks.                          *)

IsTool(m) == m.content.form # "other"

\* Mutant: every result is named by its position.
BlockIdByTurn(ms, i) == i

\* A tool result without tool_call_id is named by its position.
BlockId(ms, i) == IF ms[i].name = NoName THEN i ELSE ms[i].name

\* The words that mark a failure survive in the stub's own text.
Failed(m) == \/ m.content.form = "compacted"
             \/ m.content.form \in {"raw", "masked"} /\ m.content.payload \in Failing

Parse(ms) == [i \in 1 .. Len(ms) |->
                [name |-> ms[i].name, content |-> ms[i].content, cold |-> FALSE]]

ToMessages(bs) == [i \in 1 .. Len(bs) |->
                     [name |-> bs[i].name, content |-> bs[i].content]]

CanCompact(bs, i) == /\ Failed(bs[i])
                     /\ Len(bs) - i >= ErrorTurns
                     /\ ~bs[i].cold

\* Mutants: one recent result too few is kept; stubs are masked again.
CanMaskOneMore(bs, i) ==
    /\ IsTool(bs[i])
    /\ Cardinality({j \in 1 .. Len(bs) : j > i /\ IsTool(bs[j])}) + 1 >= KeepRecent
    /\ ~bs[i].cold
CanMaskAgain(bs, i) ==
    /\ IsTool(bs[i])
    /\ Cardinality({j \in 1 .. Len(bs) : j > i /\ IsTool(bs[j])}) >= KeepRecent

CanMask(bs, i) ==
    /\ IsTool(bs[i])
    /\ Cardinality({j \in 1 .. Len(bs) : j > i /\ IsTool(bs[j])}) >= KeepRecent
    /\ ~bs[i].cold

Eligible(c, i) == \/ stage[c] = "compact" /\ CanCompact(work[c], i)
                  \/ stage[c] = "mask" /\ CanMask(work[c], i)

\* The block the loop of the running transform writes next.
NextEligible(c, i) == /\ i \in at[c] .. Len(work[c])
                      /\ Eligible(c, i)
                      /\ \A j \in at[c] .. (i - 1) : ~Eligible(c, j)

NoneEligible(c) == \A i \in at[c] .. Len(work[c]) : ~Eligible(c, i)
-----------------------------------------------------------------------------
(* The agent between requests.                                             *)

\* A tool answers.  A conversation never reuses a tool_call_id.
ToolResult(c, n, p) ==
    /\ stage[c] = "idle"
    /\ Len(transcript[c]) < MaxLen[c]
    /\ n = NoName \/ \A i \in 1 .. Len(transcript[c]) : transcript[c][i].name # n
    /\ transcript' = [transcript EXCEPT ![c] = Append(@, [name |-> n, content |-> Raw(p)])]
    /\ UNCHANGED <<store, stage, at, work, view>>

\* A user or assistant message.
Speak(c) ==
    /\ stage[c] = "idle"
    /\ Len(transcript[c]) < MaxLen[c]
    /\ transcript' = [transcript EXCEPT ![c] = Append(@, [name |-> NoName, content |-> Other])]
    /\ UNCHANGED <<store, stage, at, work, view>>

(* One compile request.                                                    *)

BeginCompile(c) ==
    /\ stage[c] = "idle"
    /\ transcript[c] # <<>>
    /\ stage' = [stage EXCEPT ![c] = "compact"]
    /\ at' = [at EXCEPT ![c] = 1]
    /\ work' = [work EXCEPT ![c] = Parse(transcript[c])]
    /\ UNCHANGED <<transcript, store, view>>

\* Store the block's content under its key; a stub with the key replaces it.
Hide(c, i, dir, form) ==
    LET b == work[c][i]
        r == <<SessionOf[c], dir, BlockId(work[c], i)>>
    IN /\ store' = [store EXCEPT ![r] = b.content]
       /\ work' = [work EXCEPT ![c] = [@ EXCEPT ![i] =
                     [b EXCEPT !.content = Stub(form, b.content.payload, r),
                               !.cold = TRUE]]]
       /\ at' = [at EXCEPT ![c] = i + 1]
       /\ UNCHANGED <<transcript, stage, view>>

CompactError(c, i) == /\ stage[c] = "compact"
                      /\ NextEligible(c, i)
                      /\ Hide(c, i, "err", "compacted")

MaskResult(c, i) == /\ stage[c] = "mask"
                    /\ NextEligible(c, i)
                    /\ Hide(c, i, "tool", "masked")

\* Mutant: the pipeline starts over.
EndTransformStartsOver(c) ==
    /\ stage[c] \in {"compact", "mask"}
    /\ NoneEligible(c)
    /\ stage' = [stage EXCEPT ![c] = IF @ = "compact" THEN "mask" ELSE "compact"]
    /\ at' = [at EXCEPT ![c] = 1]
    /\ UNCHANGED <<transcript, store, work, view>>

EndTransform(c) ==
    /\ stage[c] \in {"compact", "mask"}
    /\ NoneEligible(c)
    /\ stage' = [stage EXCEPT ![c] = IF @ = "compact" THEN "mask" ELSE "gate"]
    /\ at' = [at EXCEPT ![c] = 1]
    /\ UNCHANGED <<transcript, store, work, view>>

\* Mutant: the next request would start before the first block.
CloseAtZero(c) == /\ stage' = [stage EXCEPT ![c] = "idle"]
                  /\ at' = [at EXCEPT ![c] = 0]
                  /\ work' = [work EXCEPT ![c] = <<>>]
                  /\ UNCHANGED store

\* A request is over: its blocks are gone, the response (if any) delivered.
Close(c) == /\ stage' = [stage EXCEPT ![c] = "idle"]
            /\ at' = [at EXCEPT ![c] = 1]
            /\ work' = [work EXCEPT ![c] = <<>>]
            /\ UNCHANGED store

\* The oracle finds the compiled blocks sufficient.
Accept(c) ==
    /\ stage[c] = "gate"
    /\ view' = [view EXCEPT ![c] = ToMessages(work[c])]
    /\ transcript' = [transcript EXCEPT ![c] = IF c \in Adopters THEN ToMessages(work[c]) ELSE @]
    /\ Close(c)

\* The oracle does not, and soft_sufficiency returns the parsed input.
PassThrough(c) ==
    /\ stage[c] = "gate"
    /\ view' = [view EXCEPT ![c] = transcript[c]]
    /\ UNCHANGED transcript
    /\ Close(c)

\* The oracle rejects, or it fails: the caller gets an error.
Reject(c) ==
    /\ stage[c] = "gate"
    /\ UNCHANGED <<transcript, view>>
    /\ Close(c)

\* store.put fails: the request ends, what it stored before stays stored.
PutFails(c) ==
    /\ stage[c] \in {"compact", "mask"}
    /\ ~NoneEligible(c)
    /\ UNCHANGED <<transcript, view>>
    /\ Close(c)

Compile(c) == \/ \E i \in 1 .. Len(work[c]) : CompactError(c, i) \/ MaskResult(c, i)
              \/ EndTransform(c)
              \/ Accept(c)
              \/ PassThrough(c)
              \/ Reject(c)
              \/ PutFails(c)

Agent(c) == \/ \E n \in NamesOf[c], p \in Payloads : ToolResult(c, n, p)
            \/ Speak(c)
            \/ BeginCompile(c)

Next == \E c \in Clients : Agent(c) \/ Compile(c)

Spec == Init /\ [][Next]_vars

\* The runtime keeps polling a request it has started.
FairSpec == Spec /\ \A c \in Clients : WF_vars(Compile(c))
-----------------------------------------------------------------------------
(* No two clients write under the same keys: clients of one session label  *)
(* their tool results with disjoint ids, and label all of them.            *)
Separated ==
    \A c, d \in Clients :
        c # d /\ SessionOf[c] = SessionOf[d] =>
            /\ NamesOf[c] \cap NamesOf[d] = {}
            /\ NoName \notin NamesOf[c]

Stubs(ms) == {i \in 1 .. Len(ms) : ms[i].content.form \in {"compacted", "masked"}}

Resolves(m) == store[m.content.ref] = Raw(m.content.payload)

\* Every reference a client was handed yields the tool output it replaced,
\* whatever requests of other clients, retries and failed puts do to the
\* store meanwhile (transform.rs, store.rs: put overwrites).
Recoverable == \A c \in Clients : \A i \in Stubs(view[c]) : Resolves(view[c][i])

\* A reference, once bound, is never bound to different content
\* (store.rs: "Stable reference into cold storage").
StableReference ==
    [][\A r \in Refs : store[r] # Nothing => store'[r] = store[r]]_store

\* The newest KeepRecent tool results reach the model as they were, unless
\* error compaction took them (ConsumedResultMaskTransform, is_recent).
RecentVerbatim ==
    \A c \in Clients : \A i \in 1 .. Len(view[c]) :
        view[c][i].content.form = "masked" =>
            Cardinality({j \in 1 .. Len(view[c]) :
                            j > i /\ IsTool(view[c][j])}) >= KeepRecent

\* A compile request always comes to an end, however its puts interleave
\* with those of other requests (TransformPipeline::run visits each block once).
CompileEnds == \A c \in Clients : stage[c] # "idle" ~> stage[c] = "idle"

\* Cold storage as its readers see it: a reference holds a payload only
\* while it holds the tool's own output.
Vaulted == [r \in Refs |-> IF store[r].form = "raw" THEN store[r].payload ELSE NoPayload]

\* The references each client was handed, with the output they stand for.
Owed == [c \in Clients |->
            {<<view[c][i].content.ref, view[c][i].content.payload>> : i \in Stubs(view[c])}]

V == INSTANCE Vault WITH Nothing <- NoPayload, vault <- Vaulted, owed <- Owed

\* A session implements the vault: each put is a deposit or changes nothing
\* a reader sees, each response hands out bound references only.
ImplementsVault == V!Spec
=============================================================================
