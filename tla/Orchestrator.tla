---------------------------- MODULE Orchestrator ----------------------------
(***************************************************************************)
(* compile_multi_agent: a round first replaces tool results that several   *)
(* agents hold by references to one shared copy, then compiles the agents  *)
(* one after the other.  Of the compile only consumed_result_mask runs     *)
(* here, the transform that moves results to cold storage a second time.   *)
(* A round suspends at every store.put; agents that compile alone do so    *)
(* in between.  The budgets of the round are in module Allocate.           *)
(*                                                                         *)
(* A message is a tool output, or Said; message i of an agent has          *)
(* tool_call_id i, and agents have sessions of their own (agent_id).       *)
(* Equal hashes mean equal outputs.                                        *)
(***************************************************************************)
EXTENDS Naturals, Sequences, FiniteSets

CONSTANTS
    Agents,       \* number of agents; they are known by their position
    Big,          \* tool outputs of min_dedup_chars or more
    Small,        \* shorter tool outputs
    Said,         \* a message that is no tool output
    Silent,       \* agents that may have no message yet
    DedupRecent,  \* dedup_keep_recent
    KeepRecent,   \* base.keep_recent_tool_results
    MaxLen        \* bound on the length of each transcript

ASSUME AgentsType == Agents \in Nat /\ Silent \subseteq 1 .. Agents
ASSUME OutputTypes == Big \cap Small = {} /\ Said \notin Big \cup Small
ASSUME NumberTypes == DedupRecent \in Nat /\ KeepRecent \in Nat /\ MaxLen \in Nat \ {0}

Agent == 1 .. Agents
Outputs == Big \cup Small

\* A content is what it shows: the output itself, the stub of the shared copy,
\* or the stub of the agent's own copy, whose preview has lost every other URI.
Content == [form : {"raw", "shared", "masked"}, output : Outputs \cup {Said}]
Raw(m) == [form |-> "raw", output |-> m]
Missing == [form |-> "none", output |-> Said]

VARIABLES
    transcript,  \* per agent: its messages
    pool,        \* outputs the shared session holds
    cold,        \* per agent and tool_call_id: content its session holds
    stage,       \* "idle", "dedup" or "compile"
    dedup,       \* cross_agent_dedup of the round
    turn,        \* the agent the round looks at
    at,          \* its next message
    working,     \* per agent: contents of the running round
    put,         \* outputs this round has put
    lacking,     \* agents whose compiled context the oracle found insufficient
    view,        \* per agent: contents of the last answer
    outcome      \* how the last round ended

round == <<stage, dedup, turn, at, working, put, lacking>>
vars == <<transcript, pool, cold, round, view, outcome>>

Init == /\ transcript \in [Agent -> {<<>>, <<Said>>}]
        /\ \A a \in Agent \ Silent : transcript[a] = <<Said>>
        /\ pool = {}
        /\ cold = [a \in Agent |-> [i \in 1 .. MaxLen |-> Missing]]
        /\ stage = "idle"
        /\ dedup = FALSE
        /\ turn = 1
        /\ at = 1
        /\ working = [a \in Agent |-> <<>>]
        /\ put = {}
        /\ lacking = {}
        /\ view = [a \in Agent |-> <<>>]
        /\ outcome = "none"

\* Contents, positions and stores have the right shape.
TypeOK == /\ transcript \in [Agent -> Seq(Outputs \cup {Said})]
          /\ \A a \in Agent : Len(transcript[a]) <= MaxLen
          /\ pool \subseteq Big
          /\ cold \in [Agent -> [1 .. MaxLen -> Content \cup {Missing}]]
          /\ stage \in {"idle", "dedup", "compile"}
          /\ dedup \in BOOLEAN
          /\ turn \in 1 .. Agents + 1
          /\ at \in Nat \ {0}
          /\ working \in [Agent -> Seq(Content)]
          /\ put \subseteq Big
          /\ lacking \subseteq Agent
          /\ view \in [Agent -> Seq(Content)]
          /\ outcome \in {"none", "answered", "store", "agent"}
-----------------------------------------------------------------------------
\* The number of tool results after message i.
Newer(ms, i) == Cardinality({j \in 1 .. Len(ms) : j > i /\ ms[j] # Said})

AsContents(ms) == [i \in 1 .. Len(ms) |-> Raw(ms[i])]

\* Mutant: every agent that shares an output gives it up.
HeldElsewhere(a, i) ==
    \/ \E b \in Agent \ {a} : \E j \in 1 .. Len(transcript[b]) : transcript[b][j] = transcript[a][i]
    \/ \E j \in 1 .. (i - 1) : transcript[a][j] = transcript[a][i]

\* An agent before this one holds the output, or the agent itself does.
HeldBefore(a, i) ==
    \/ \E b \in 1 .. (a - 1) : \E j \in 1 .. Len(transcript[b]) : transcript[b][j] = transcript[a][i]
    \/ \E j \in 1 .. (i - 1) : transcript[a][j] = transcript[a][i]

\* Mutant: one recent result too few is protected.
DuplicateOneMore(a, i) == /\ transcript[a][i] \in Big
                          /\ HeldBefore(a, i)
                          /\ Newer(transcript[a], i) + 1 >= DedupRecent

\* Not the canonical copy, and not among the agent's newest results.
Duplicate(a, i) == /\ transcript[a][i] \in Big
                   /\ HeldBefore(a, i)
                   /\ Newer(transcript[a], i) >= DedupRecent

CanMask(a, i) == /\ transcript[a][i] # Said
                 /\ Newer(transcript[a], i) >= KeepRecent

Eligible(i) == IF stage = "dedup" THEN Duplicate(turn, i) ELSE CanMask(turn, i)

\* The message the running loop replaces next.
Upcoming(i) == /\ i \in at .. Len(working[turn])
            /\ Eligible(i)
            /\ \A j \in at .. (i - 1) : ~Eligible(j)

NoneLeft == \A i \in at .. Len(working[turn]) : ~Eligible(i)

\* What the agent's compile starts from.
Deduped(a) == [i \in 1 .. Len(transcript[a]) |->
                 [form |-> IF dedup /\ Duplicate(a, i) THEN "shared" ELSE "raw",
                  output |-> transcript[a][i]]]
-----------------------------------------------------------------------------
(* The agents between and during rounds.                                   *)

\* A tool answers, or the agent or its user speaks.
Grow(a, m) == /\ stage = "idle"
              /\ Len(transcript[a]) < MaxLen
              /\ transcript' = [transcript EXCEPT ![a] = Append(@, m)]
              /\ UNCHANGED <<pool, cold, round, view, outcome>>

\* A compile request of one agent alone puts one of its results.
MaskAlone(a, i) == /\ CanMask(a, i)
                   /\ cold' = [cold EXCEPT ![a][i] = Raw(transcript[a][i])]
                   /\ UNCHANGED <<transcript, pool, round, view, outcome>>

(* One round.                                                              *)

Begin(d) == /\ stage = "idle"
            /\ stage' = IF d THEN "dedup" ELSE "compile"
            /\ dedup' = d
            /\ turn' = 1
            /\ at' = 1
            /\ working' = [a \in Agent |-> AsContents(transcript[a])]
            /\ put' = {}
            /\ lacking' = {}
            /\ UNCHANGED <<transcript, pool, cold, view, outcome>>

\* Mutant: the loop goes back.
ReplaceBack(i, form) ==
    /\ working' = [working EXCEPT ![turn][i].form = form]
    /\ at' = i - 1

Replace(i, form) ==
    /\ working' = [working EXCEPT ![turn][i].form = form]
    /\ at' = i + 1

\* A duplicate of an output this round has put, or puts now.
Share(i) == /\ stage = "dedup"
            /\ turn <= Agents
            /\ Upcoming(i)
            /\ Replace(i, "shared")
            /\ put' = put \cup {transcript[turn][i]}
            /\ pool' = IF transcript[turn][i] \in put THEN pool ELSE pool \cup {transcript[turn][i]}
            /\ UNCHANGED <<transcript, cold, stage, dedup, turn, lacking, view, outcome>>

\* The agent's own session gets the content as it is now.
Mask(i) == /\ stage = "compile"
           /\ turn <= Agents
           /\ transcript[turn] # <<>>
           /\ Upcoming(i)
           /\ Replace(i, "masked")
           /\ cold' = [cold EXCEPT ![turn][i] = working[turn][i]]
           /\ UNCHANGED <<transcript, pool, stage, dedup, turn, put, lacking, view, outcome>>

\* Mutant: the second pass starts over.
DedupNextAgain == /\ stage = "dedup"
                  /\ turn <= Agents
                  /\ NoneLeft
                  /\ at' = 1
                  /\ turn' = IF turn = Agents THEN 1 ELSE turn + 1
                  /\ UNCHANGED <<transcript, pool, cold, stage, dedup, working, put, lacking, view, outcome>>

DedupNext == /\ stage = "dedup"
             /\ turn <= Agents
             /\ NoneLeft
             /\ at' = 1
             /\ turn' = IF turn = Agents THEN 1 ELSE turn + 1
             /\ stage' = IF turn = Agents THEN "compile" ELSE stage
             /\ UNCHANGED <<transcript, pool, cold, dedup, working, put, lacking, view, outcome>>

\* The oracle finds the agent's compiled context sufficient, or does not:
\* soft_sufficiency returns the messages the compile was given.
CompileNext(enough) ==
    /\ stage = "compile"
    /\ turn <= Agents
    /\ transcript[turn] # <<>>
    /\ NoneLeft
    /\ at' = 1
    /\ turn' = turn + 1
    /\ working' = IF enough THEN working ELSE [working EXCEPT ![turn] = Deduped(turn)]
    /\ lacking' = IF enough THEN lacking ELSE lacking \cup {turn}
    /\ UNCHANGED <<transcript, pool, cold, stage, dedup, put, view, outcome>>

\* Every agent is compiled, and gets its context.
Answer == /\ stage = "compile"
          /\ turn = Agents + 1
          /\ stage' = "idle"
          /\ turn' = 1
          /\ view' = working
          /\ outcome' = "answered"
          /\ UNCHANGED <<transcript, pool, cold, dedup, at, working, put, lacking>>

\* Mutant: a duplicate is replaced although its output could not be put.
PutFailsSilently == /\ stage = "dedup"
                    /\ turn <= Agents
                    /\ \E i \in 1 .. Len(working[turn]) :
                          /\ Upcoming(i)
                          /\ transcript[turn][i] \notin put
                          /\ Replace(i, "shared")
                          /\ put' = put \cup {transcript[turn][i]}
                    /\ UNCHANGED <<transcript, pool, cold, stage, dedup, turn, lacking, view, outcome>>

Stop(why) == /\ stage' = "idle"
             /\ turn' = 1
             /\ at' = 1
             /\ outcome' = why
             /\ UNCHANGED <<transcript, pool, cold, dedup, working, put, lacking, view>>

\* A put fails: the round ends with the error.
PutFails == /\ stage # "idle"
            /\ turn <= Agents
            /\ \E i \in 1 .. Len(working[turn]) :
                  Upcoming(i) /\ (stage = "dedup" => transcript[turn][i] \notin put)
            /\ Stop("store")

\* An agent without messages cannot be compiled: the round ends with the error.
AgentFails == /\ stage = "compile"
              /\ turn <= Agents
              /\ transcript[turn] = <<>>
              /\ Stop("agent")

Round == \/ \E i \in 1 .. MaxLen : Share(i) \/ Mask(i)
         \/ DedupNext
         \/ \E enough \in BOOLEAN : CompileNext(enough)
         \/ Answer
         \/ PutFails
         \/ AgentFails

Next == \/ \E a \in Agent : \E m \in Outputs \cup {Said} : Grow(a, m)
        \/ \E a \in Agent : \E i \in 1 .. Len(transcript[a]) : MaskAlone(a, i)
        \/ \E d \in BOOLEAN : Begin(d)
        \/ Round

Spec == Init /\ [][Next]_vars

\* The runtime keeps polling a round it has started.
FairSpec == Spec /\ WF_vars(Round)
-----------------------------------------------------------------------------
\* What an agent reaches by following references from a content of its.
Reaches(c, a, i) ==
    \/ c.form = "raw"
    \/ c.form = "shared" /\ c.output \in pool
    \/ /\ c.form = "masked"
       /\ cold[a][i].output = c.output
       /\ \/ cold[a][i].form = "raw"
          \/ cold[a][i].form = "shared" /\ c.output \in pool

\* From every content of its last context an agent reaches the tool output it
\* stands for, through the shared copy, its own, or its own and the shared
\* one, whatever later rounds and compiles of the agent put
\* (dedup_across_agents, ConsumedResultMaskTransform).
Recoverable ==
    \A a \in Agent : \A i \in 1 .. Len(view[a]) :
        view[a][i].output = transcript[a][i] /\ Reaches(view[a][i], a, i)

\* Deduplication leaves every output verbatim with some agent.
OneLiveCopy ==
    stage = "dedup" \/ (stage = "compile" /\ turn = 1 /\ at = 1) =>
        \A a \in Agent : \A i \in 1 .. Len(transcript[a]) :
            \E b \in Agent : \E j \in 1 .. Len(working[b]) : working[b][j] = Raw(transcript[a][i])

\* The newest results of an agent are never replaced by a shared reference
\* ("each agent's newest dedup_keep_recent tool results are never masked").
WorkingSetLive ==
    \A a \in Agent : \A i \in 1 .. Len(view[a]) :
        view[a][i].form = "shared" =>
            Cardinality({j \in 1 .. Len(view[a]) : j > i /\ view[a][j].output # Said}) >= DedupRecent

\* A round always ends.
RoundEnds == stage # "idle" ~> stage = "idle"

\* References: the shared session's (it counts as agent 0), by the hash of the
\* output, and those of the agents' own sessions.
Refs == ({0} \X Big) \cup (Agent \X (1 .. MaxLen))

\* The output a reader ends up with, or Said when there is none.
Shared(m) == IF m \in pool THEN m ELSE Said
Own(c) == IF c.form = "shared" THEN Shared(c.output) ELSE c.output
Vaulted == [r \in Refs |-> IF r[1] = 0 THEN Shared(r[2]) ELSE Own(cold[r[1]][r[2]])]

\* The references in each agent's last context, with the outputs they stand for.
RefOf(a, i) == IF view[a][i].form = "shared" THEN <<0, view[a][i].output>> ELSE <<a, i>>
Owed == [a \in Agent |->
            {<<RefOf(a, i), view[a][i].output>> : i \in {j \in DOMAIN view[a] : view[a][j].form # "raw"}}]

V == INSTANCE Vault WITH Clients <- Agent, Payloads <- Outputs, Nothing <- Said,
                         vault <- Vaulted, owed <- Owed

\* Two tiers of cold storage are one vault to their readers: rounds and single
\* compiles bind a reference once, although an agent's own copy may be a stub
\* of the shared one, and a round hands its agents bound references only.
ImplementsVault == V!Spec

\* A shared reference stands for a copy that stays inline (docs/
\* MULTI_AGENT_RESEARCH.md: "becomes the canonical copy and stays inline").
CanonicalInline ==
    outcome = "answered" /\ stage = "idle" =>
        \A a \in Agent : \A i \in 1 .. Len(view[a]) :
            view[a][i].form = "shared" =>
                \E b \in Agent : \E j \in 1 .. Len(view[b]) : view[b][j] = Raw(view[a][i].output)

\* "Agents that fail the oracle keep their original messages"
\* (orchestrator.rs, compile_multi_agent).
OriginalsKept ==
    outcome = "answered" /\ stage = "idle" =>
        \A a \in lacking : \A i \in 1 .. Len(view[a]) : view[a][i] = Raw(transcript[a][i])

\* "One failing agent must not abort the whole orchestrator round"
\* (orchestrator.rs, compile_multi_agent).
AgentsCannotAbort == outcome # "agent"
=============================================================================
