------------------------------- MODULE Relay -------------------------------
(***************************************************************************)
(* An agent that goes on with the compiled messages while auto_rehydrate_  *)
(* refs is set.  Each compile first appends the stored text of every       *)
(* reference to the message that mentions it, then masks that message      *)
(* again under the same key: stubs nest in the store.  A client that gives *)
(* up waiting sends the compile again; the server may drop the first one   *)
(* at any get or put, or carry on with it.                                 *)
(*                                                                         *)
(* A text is a sequence of pieces.  Piece k > 0 is the k-th of the tool's  *)
(* output; the other pieces are what the compiler writes around it.        *)
(* Of the pipeline only consumed_result_mask runs here.  Result i has      *)
(* tool_call_id i, ids sort as they are numbered, no URI is a part of      *)
(* another, and no output contains a URI or the mark.                      *)
(***************************************************************************)
EXTENDS Integers, Sequences, FiniteSets

CONSTANTS
    Tries,       \* requests that may be under way at once
    Length,      \* pieces of each tool output, in the order of the results
    Preview,     \* pieces a stub quotes of the text it replaces
    Cap,         \* max_bytes_per_ref, in pieces
    KeepRecent,  \* keep_recent_tool_results
    MaxRequests  \* bound on the requests the agent sends

ASSUME LengthType == Length \in Seq(Nat \ {0})
ASSUME NumberTypes == /\ Preview \in Nat /\ Cap \in Nat \ {0}
                      /\ KeepRecent \in Nat /\ MaxRequests \in Nat
ASSUME TriesType == "none" \notin Tries /\ IsFiniteSet(Tries)

Frame == 0   \* "[masked tool result] preview: "
Uri == -1    \* "ref: ref://session/key (n bytes)"
Mark == -2   \* "[rehydrated ref://session/key]"
Piece == Nat \cup {Uri, Mark}

Results == DOMAIN Length
Output(i) == [k \in 1 .. Length[i] |-> k]
Least(a, b) == IF a < b THEN a ELSE b
Take(text, n) == SubSeq(text, 1, Least(n, Len(text)))
Shows(text, piece) == \E k \in DOMAIN text : text[k] = piece

VARIABLES
    transcript,  \* the agent's messages
    store,       \* text stored under each key, <<>> if none
    begun,       \* requests sent
    awaited,     \* the request whose answer the agent waits for, or "none"
    stage,       \* per request: where it is
    at,          \* per request: the next message its loop looks at
    work,        \* per request: its messages
    input,       \* per request: what the transforms were given
    unread       \* results whose reference once could not be read

vars == <<transcript, store, begun, awaited, stage, at, work, input, unread>>

Init == /\ transcript = <<>>
        /\ store = [i \in Results |-> <<>>]
        /\ begun = 0
        /\ awaited = "none"
        /\ stage = [t \in Tries |-> "idle"]
        /\ at = [t \in Tries |-> 1]
        /\ work = [t \in Tries |-> <<>>]
        /\ input = [t \in Tries |-> <<>>]
        /\ unread = {}

\* Texts, positions and requests have the right shape.
TypeOK == /\ transcript \in Seq(Seq(Piece)) /\ Len(transcript) <= Len(Length)
          /\ store \in [Results -> Seq(Piece)]
          /\ begun \in 0 .. MaxRequests
          /\ awaited \in Tries \cup {"none"}
          /\ stage \in [Tries -> {"idle", "expand", "mask", "gate"}]
          /\ at \in [Tries -> Nat \ {0}]
          /\ work \in [Tries -> Seq(Seq(Piece))]
          /\ \A t \in Tries : Len(work[t]) <= Len(transcript)
          /\ input \in [Tries -> Seq(Seq(Piece))]
          /\ unread \subseteq Results
-----------------------------------------------------------------------------
\* Mutant: a text is extended although it already was.
OpenAgain(text) == Shows(text, Uri)

\* The text mentions a reference and was not extended before.
Open(text) == Shows(text, Uri) /\ ~Shows(text, Mark)

\* rehydrate_messages on one text.
Extended(text, payload) == text \o <<Mark>> \o Take(payload, Cap)

\* The text that takes the place of a masked one.
Stub(text) == <<Frame>> \o Take(text, Preview) \o <<Uri>>

CanMask(t, i) == Len(work[t]) - i >= KeepRecent
-----------------------------------------------------------------------------
(* The agent.                                                              *)

\* A tool answers.
ToolResult == /\ awaited = "none"
              /\ Len(transcript) < Len(Length)
              /\ transcript' = Append(transcript, Output(Len(transcript) + 1))
              /\ UNCHANGED <<store, begun, awaited, stage, at, work, input, unread>>

\* The agent asks for a compile, the first time or once more: it waits for the
\* newest request only.
Request(t) == /\ stage[t] = "idle"
              /\ transcript # <<>>
              /\ begun < MaxRequests
              /\ begun' = begun + 1
              /\ awaited' = t
              /\ stage' = [stage EXCEPT ![t] = "expand"]
              /\ at' = [at EXCEPT ![t] = 1]
              /\ work' = [work EXCEPT ![t] = transcript]
              /\ UNCHANGED <<transcript, store, input, unread>>

(* One request.                                                            *)

\* The payload of the reference in message i is there: the message takes it.
Expand(t, i) == /\ stage[t] = "expand"
                /\ i = at[t] /\ i \in DOMAIN work[t]
                /\ work' = IF Open(work[t][i]) /\ store[i] # <<>>
                           THEN [work EXCEPT ![t][i] = Extended(@, store[i])]
                           ELSE work
                /\ at' = [at EXCEPT ![t] = i + 1]
                /\ UNCHANGED <<transcript, store, begun, awaited, stage, input, unread>>

\* It cannot be read: the message stays as it is, and the compile goes on.
PassOver(t, i) == /\ stage[t] = "expand"
                  /\ i = at[t] /\ i \in DOMAIN work[t]
                  /\ Open(work[t][i])
                  /\ unread' = unread \cup {i}
                  /\ at' = [at EXCEPT ![t] = i + 1]
                  /\ UNCHANGED <<transcript, store, begun, awaited, stage, work, input>>

\* Mutant: the stub is made before the put.
MaskStubFirst(t, i) ==
    /\ stage[t] = "mask"
    /\ i = at[t] /\ i \in DOMAIN work[t]
    /\ CanMask(t, i)
    /\ store' = [store EXCEPT ![i] = Stub(work[t][i])]
    /\ work' = [work EXCEPT ![t][i] = Stub(@)]
    /\ at' = [at EXCEPT ![t] = i + 1]
    /\ UNCHANGED <<transcript, begun, awaited, stage, input, unread>>

\* Message i is stored as it is now and replaced.
Mask(t, i) == /\ stage[t] = "mask"
              /\ i = at[t] /\ i \in DOMAIN work[t]
              /\ CanMask(t, i)
              /\ store' = [store EXCEPT ![i] = work[t][i]]
              /\ work' = [work EXCEPT ![t][i] = Stub(@)]
              /\ at' = [at EXCEPT ![t] = i + 1]
              /\ UNCHANGED <<transcript, begun, awaited, stage, input, unread>>

\* The loop is through: the newest results stay as they are.
EndLoop(t) ==
    /\ \/ stage[t] = "expand" /\ at[t] > Len(work[t])
       \/ stage[t] = "mask" /\ (at[t] > Len(work[t]) \/ ~CanMask(t, at[t]))
    /\ stage' = [stage EXCEPT ![t] = IF @ = "expand" THEN "mask" ELSE "gate"]
    /\ at' = [at EXCEPT ![t] = 1]
    /\ input' = IF stage[t] = "expand" THEN [input EXCEPT ![t] = work[t]] ELSE input
    /\ UNCHANGED <<transcript, store, begun, awaited, work, unread>>

\* Mutant: the next request would start before the first message.
CloseAtZero(t) == /\ stage' = [stage EXCEPT ![t] = "idle"]
                  /\ at' = [at EXCEPT ![t] = 0]
                  /\ work' = [work EXCEPT ![t] = <<>>]
                  /\ input' = [input EXCEPT ![t] = <<>>]
                  /\ awaited' = IF awaited = t THEN "none" ELSE awaited
                  /\ UNCHANGED <<store, begun, unread>>

\* A request is over: its texts are gone, nobody waits for it.
Close(t) == /\ stage' = [stage EXCEPT ![t] = "idle"]
            /\ at' = [at EXCEPT ![t] = 1]
            /\ work' = [work EXCEPT ![t] = <<>>]
            /\ input' = [input EXCEPT ![t] = <<>>]
            /\ awaited' = IF awaited = t THEN "none" ELSE awaited
            /\ UNCHANGED <<store, begun, unread>>

\* The oracle accepts the compiled texts, or it does not and soft_sufficiency
\* returns the expanded input.  The agent goes on with the answer, unless it
\* has stopped waiting for it.
Answer(t, texts) == /\ stage[t] = "gate"
                    /\ transcript' = IF awaited = t THEN texts ELSE transcript
                    /\ Close(t)

\* A put fails, the oracle rejects, or the connection is closed.
Fail(t) == /\ stage[t] # "idle"
           /\ UNCHANGED transcript
           /\ Close(t)

Compile(t) == \/ \E i \in Results : Expand(t, i) \/ PassOver(t, i) \/ Mask(t, i)
              \/ EndLoop(t)
              \/ \E texts \in {work[t], input[t]} : Answer(t, texts)
              \/ Fail(t)

Next == \/ ToolResult
        \/ \E t \in Tries : Request(t) \/ Compile(t)

Spec == Init /\ [][Next]_vars
-----------------------------------------------------------------------------
\* The whole output is in the text.
Holds(text, i) == \E k \in 0 .. Len(text) - Length[i] : SubSeq(text, k + 1, k + Length[i]) = Output(i)

\* Every output of the conversation can be read in its message, or behind the
\* reference its message mentions, however often it was masked and expanded,
\* by requests that overlapped or were dropped half-way -- until what is nested
\* around it no longer fits max_bytes_per_ref, or a read of it failed
\* (compile.rs, auto_rehydrate_refs).
Reachable ==
    \A i \in DOMAIN transcript \ unread :
        \/ Holds(transcript[i], i)
        \/ Shows(transcript[i], Uri) /\ Holds(store[i], i)
        \/ Len(store[i]) > Cap

\* The stored text grows by one stub with each request, it does not double: a
\* message is extended once, however often it shows its reference.
Linear == \A i \in Results : Len(store[i]) <= Length[i] + begun * (Preview + 3)

\* A read that fails costs nothing: the text stays behind its reference.
ReadsMayFail ==
    \A i \in DOMAIN transcript :
        \/ Holds(transcript[i], i)
        \/ Shows(transcript[i], Uri) /\ Holds(store[i], i)
        \/ Len(store[i]) > Cap
=============================================================================
