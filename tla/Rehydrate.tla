----------------------------- MODULE Rehydrate -----------------------------
(***************************************************************************)
(* rehydrate_messages: the payloads of cold-store references are appended  *)
(* to the messages that mention them.  A call reads the store once per     *)
(* reference, and suspends there: other requests put meanwhile.            *)
(*                                                                         *)
(* A text is what can be read in it: the references it mentions, the mark  *)
(* "[rehydrated", and the payloads appended to it.                         *)
(***************************************************************************)
EXTENDS Naturals, Sequences, FiniteSets

CONSTANTS
    Refs,         \* the references
    InOrder,      \* the references of a set, sorted by their URIs
    Inside,       \* <<r, s>>: the URI of r is a part of the URI of s
    Mentioned,    \* references each payload mentions
    Long,         \* references whose payload exceeds max_bytes_per_ref
    Shapes,       \* messages the agent adds
    Asked,        \* values of options.refs
    MaxMessages   \* bound on the length of the transcript

ASSUME InOrderType == InOrder \in [SUBSET Refs -> Seq(Refs)]
ASSUME InOrderAll == \A S \in SUBSET Refs : {InOrder[S][i] : i \in 1 .. Len(InOrder[S])} = S
ASSUME InsideType == Inside \subseteq Refs \X Refs
ASSUME MentionedType == Mentioned \in [Refs -> SUBSET Refs]
ASSUME LongType == Long \subseteq Refs /\ \A r \in Long : Mentioned[r] = {}
ASSUME AskedType == Asked \subseteq Seq(Refs)
ASSUME MaxMessagesType == MaxMessages \in Nat

Message == [kind : {"text", "parts"}, mentions : SUBSET Refs, marked : BOOLEAN,
            holds : SUBSET Refs]
ASSUME ShapesType == Shapes \subseteq Message

VARIABLES messages,   \* the agent's transcript
          stored,     \* references the store has a payload for
          stage,      \* "idle" or "loading"
          todo,       \* target_refs still to load
          out,        \* messages of the running call
          expanded,   \* refs_expanded
          everything, \* the last call gave no refs
          had,        \* references stored when the last call began
          given       \* messages the last call began with

vars == <<messages, stored, stage, todo, out, expanded, everything, had, given>>

Init == /\ messages = <<>>
        /\ stored = {}
        /\ stage = "idle"
        /\ todo = <<>>
        /\ out = <<>>
        /\ expanded = 0
        /\ everything = FALSE
        /\ had = {}
        /\ given = <<>>

\* Messages and targets have the right shape.
TypeOK == /\ messages \in Seq(Message)
          /\ stored \subseteq Refs
          /\ stage \in {"idle", "loading"}
          /\ todo \in Seq(Refs)
          /\ out \in Seq(Message)
          /\ expanded \in Nat
          /\ everything \in BOOLEAN
          /\ had \subseteq Refs
          /\ given \in Seq(Message)
-----------------------------------------------------------------------------
\* The references found in messages, sorted and without duplicates.
Found(ms) == InOrder[UNION {ms[i].mentions : i \in DOMAIN ms}]

\* The text contains the URI, as a reference of its own or inside another.
Contains(m, r) == \E s \in m.mentions : s = r \/ <<r, s>> \in Inside

\* Mutant: the mark is not looked for.
OpenToAny(m, r) == Contains(m, r) /\ m.kind = "text"

\* A text is extended once, whatever it was extended with.
OpenTo(m, r) == Contains(m, r) /\ m.kind = "text" /\ ~m.marked

\* The message with the payload of r appended, cut at max_bytes_per_ref.
Appended(m, r) == [m EXCEPT !.mentions = @ \cup {r} \cup Mentioned[r],
                            !.marked = TRUE,
                            !.holds = IF r \in Long THEN @ ELSE @ \cup {r}]

Load(ms, r) == [i \in DOMAIN ms |-> IF OpenTo(ms[i], r) THEN Appended(ms[i], r) ELSE ms[i]]
-----------------------------------------------------------------------------
\* The agent's transcript grows.
Add(m) == /\ stage = "idle"
          /\ Len(messages) < MaxMessages
          /\ messages' = Append(messages, m)
          /\ UNCHANGED <<stored, stage, todo, out, expanded, everything, had, given>>

\* Another request puts a payload; a key always gets the same payload.
Put(r) == /\ r \notin stored
          /\ stored' = stored \cup {r}
          /\ UNCHANGED <<messages, stage, todo, out, expanded, everything, had, given>>

Call(refs) ==
    /\ stage = "idle"
    /\ stage' = "loading"
    /\ todo' = IF refs = <<>> THEN Found(messages) ELSE refs
    /\ out' = messages
    /\ expanded' = 0
    /\ everything' = (refs = <<>>)
    /\ had' = stored
    /\ given' = messages
    /\ UNCHANGED <<messages, stored>>

\* Mutant: a reference that is not there ends the loop.
SkipRest == /\ stage = "loading"
            /\ todo # <<>>
            /\ Head(todo) \notin stored
            /\ todo' = <<>>
            /\ UNCHANGED <<messages, stored, stage, out, expanded, everything, had, given>>

\* store.get fails: the reference is passed over.
Skip == /\ stage = "loading"
        /\ todo # <<>>
        /\ Head(todo) \notin stored
        /\ todo' = Tail(todo)
        /\ UNCHANGED <<messages, stored, stage, out, expanded, everything, had, given>>

\* Mutant: the counter runs down.
ExpandCountsDown ==
    /\ stage = "loading"
    /\ todo # <<>>
    /\ Head(todo) \in stored
    /\ out' = Load(out, Head(todo))
    /\ expanded' = IF \E i \in DOMAIN out : OpenTo(out[i], Head(todo)) THEN expanded - 1 ELSE expanded
    /\ todo' = Tail(todo)
    /\ UNCHANGED <<messages, stored, stage, everything, had, given>>

\* The payload is there: it counts if some message took it.
Expand ==
    /\ stage = "loading"
    /\ todo # <<>>
    /\ Head(todo) \in stored
    /\ out' = Load(out, Head(todo))
    /\ expanded' = IF \E i \in DOMAIN out : OpenTo(out[i], Head(todo)) THEN expanded + 1 ELSE expanded
    /\ todo' = Tail(todo)
    /\ UNCHANGED <<messages, stored, stage, everything, had, given>>

\* The agent goes on with the answer.
Answer == /\ stage = "loading"
          /\ todo = <<>>
          /\ stage' = "idle"
          /\ messages' = out
          /\ UNCHANGED <<stored, todo, out, expanded, everything, had, given>>

Rehydrating == Skip \/ Expand \/ Answer

Next == \/ \E m \in Shapes : Add(m)
        \/ \E r \in Refs : Put(r)
        \/ \E refs \in Asked : Call(refs)
        \/ Rehydrating

Spec == Init /\ [][Next]_vars
-----------------------------------------------------------------------------
Answered == stage = "loading" /\ todo = <<>>

\* A text that mentions one reference gets its payload when everything is
\* expanded, whatever the other messages hold (no URI part of another).
SoleRefServed ==
    Answered /\ everything =>
        \A i \in DOMAIN given : \A r \in had \ Long :
            given[i].kind = "text" /\ ~given[i].marked /\ given[i].mentions = {r}
                => r \in out[i].holds

\* The count the caller sees is no more than the messages that changed, and
\* is zero only if none did (refs may be given twice, or be in no message).
CountHonest ==
    stage = "loading" =>
        LET changed == {i \in DOMAIN given : out[i] # given[i]}
        IN /\ expanded <= Cardinality(changed)
           /\ expanded = 0 => changed = {}

\* Once everything is expanded, expanding everything again changes nothing,
\* although appended payloads bring references with them.
Settled ==
    Answered /\ everything /\ stored = had =>
        \A r \in stored : (\E i \in DOMAIN out : r \in out[i].mentions) => Load(out, r) = out

\* Every reference found in the messages is expanded (rehydrate.rs:
\* "if empty, expand all `ref://` found in messages").
AllExpanded ==
    Answered /\ everything =>
        \A i \in DOMAIN given :
            given[i].kind = "text" /\ ~given[i].marked
                => given[i].mentions \cap had \subseteq out[i].holds \cup Long

\* Expanding everything gives a message payloads of its own references only
\* (rehydrate.rs: "Expand cold-store references back into message content").
OwnPayloads ==
    Answered /\ everything =>
        \A i \in DOMAIN given : out[i].holds \subseteq given[i].holds \cup given[i].mentions
=============================================================================
