---------------------------- MODULE MCRehydrate ----------------------------
(* Instances of Rehydrate for TLC.                                         *)
EXTENDS Rehydrate, TLC

CONSTANTS call_1, call_10, shared   \* references

AllRefs == {call_1, call_10, shared}
Sorted == [S \in SUBSET AllRefs |-> SelectSeq(<<call_1, call_10, shared>>, LAMBDA r : r \in S)]

\* The stored text of call_10 was a stub that mentions the shared payload.
Chain == call_1 :> {} @@ call_10 :> {shared} @@ shared :> {}

Says(refs) == [kind |-> "text", mentions |-> refs, marked |-> FALSE, holds |-> {}]
Parts(refs) == [kind |-> "parts", mentions |-> refs, marked |-> FALSE, holds |-> {}]
Quotes(refs) == [kind |-> "text", mentions |-> refs, marked |-> TRUE, holds |-> {}]

\* Stubs, a summary that lists two of them, content parts, a quoted answer.
Messages == {Says({call_1}), Says({call_10}), Says({shared}), Says({call_1, shared}),
             Parts({call_10}), Quotes({call_1}), Says({})}
Stubs == {Says({call_1}), Says({call_10})}

Requests == {<<>>, <<shared, call_10>>, <<call_1, call_1>>}

\* URIs none of which is a part of another, and tool_call_ids that count.
Distinct == {}
Counting == {<<call_1, call_10>>}
=============================================================================
