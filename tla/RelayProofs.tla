----------------------------- MODULE RelayProofs -----------------------------
(***************************************************************************)
(* How far the texts of an agent grow that goes on with compiled messages, *)
(* for any outputs, previews and caps, and any number of requests at once. *)
(***************************************************************************)
EXTENDS Relay, FiniteSetTheorems, SequenceTheorems, TLAPS

\* The agent has not grown its transcript since it sent the request it waits
\* for; a request masks as many messages as it was given.
Lengths ==
    \A t \in Tries :
        /\ awaited = t => Len(work[t]) = Len(transcript)
        /\ stage[t] \in {"mask", "gate"} => Len(input[t]) = Len(work[t])

Typed == TypeOK /\ Lengths
-----------------------------------------------------------------------------
(* Texts.                                                                  *)

Text == Seq(Piece)

\* What the compiler makes of texts are texts.
LEMMA TextShapes ==
    /\ \A i \in Results : Output(i) \in Text /\ Len(Output(i)) = Length[i]
    /\ \A x, y \in Text : /\ Extended(x, y) \in Text
                          /\ Len(Extended(x, y)) = Len(x) + 1 + Least(Len(y), Cap)
    /\ \A x \in Text : /\ Stub(x) \in Text
                       /\ Len(Stub(x)) = Least(Preview, Len(x)) + 2
<1>1. ASSUME NEW i \in Results PROVE Output(i) \in Text /\ Len(Output(i)) = Length[i]
  <2>1. Length[i] \in Nat
    BY LengthType DEF Results
  <2> QED
    BY <2>1 DEF Output, Text, Piece
<1>2. ASSUME NEW x \in Text, NEW n \in Nat
      PROVE  Take(x, n) \in Text /\ Len(Take(x, n)) = Least(n, Len(x))
  <2>1. Least(n, Len(x)) \in 0 .. Len(x)
    BY DEF Least, Text
  <2> QED
    BY <2>1 DEF Take, Text
<1>3. ASSUME NEW x \in Text, NEW y \in Text
      PROVE  Extended(x, y) \in Text /\ Len(Extended(x, y)) = Len(x) + 1 + Least(Len(y), Cap)
  <2>1. Take(y, Cap) \in Text /\ Len(Take(y, Cap)) = Least(Len(y), Cap)
    BY <1>2, NumberTypes DEF Least, Text
  <2>2. <<Mark>> \in Text /\ Len(<<Mark>>) = 1
    BY DEF Text, Piece
  <2> QED
    BY <2>1, <2>2 DEF Extended, Text
<1>4. ASSUME NEW x \in Text
      PROVE  Stub(x) \in Text /\ Len(Stub(x)) = Least(Preview, Len(x)) + 2
  <2>1. Take(x, Preview) \in Text /\ Len(Take(x, Preview)) = Least(Preview, Len(x))
    BY <1>2, NumberTypes
  <2>2. <<Frame>> \in Text /\ <<Uri>> \in Text /\ Len(<<Frame>>) = 1 /\ Len(<<Uri>>) = 1
    BY DEF Text, Piece, Frame
  <2> QED
    BY <2>1, <2>2 DEF Stub, Text
<1> QED
  BY <1>1, <1>3, <1>4

\* A request replaces one of its texts by another.
LEMMA WorkEffect ==
    ASSUME Typed, NEW t \in Tries, NEW i \in Results, i \in DOMAIN work[t], NEW x \in Text
    PROVE  /\ [work EXCEPT ![t][i] = x] \in [Tries -> Seq(Text)]
           /\ \A s \in Tries : Len([work EXCEPT ![t][i] = x][s]) = Len(work[s])
           /\ \A s \in Tries : \A j \in DOMAIN work[s] :
                 [work EXCEPT ![t][i] = x][s][j] = IF s = t /\ j = i THEN x ELSE work[s][j]
<1>1. work \in [Tries -> Seq(Text)]
  BY DEF Typed, TypeOK, Text
<1>2. work[t] \in Seq(Text) /\ i \in 1 .. Len(work[t])
  BY <1>1
<1>3. /\ [work[t] EXCEPT ![i] = x] \in Seq(Text)
      /\ Len([work[t] EXCEPT ![i] = x]) = Len(work[t])
  BY <1>2, ExceptSeq
<1>4. \A j \in DOMAIN work[t] : [work[t] EXCEPT ![i] = x][j] = IF j = i THEN x ELSE work[t][j]
  BY <1>2
<1>5. [work EXCEPT ![t][i] = x] = [work EXCEPT ![t] = [work[t] EXCEPT ![i] = x]]
  OBVIOUS
<1> QED
  BY <1>1, <1>3, <1>4, <1>5
-----------------------------------------------------------------------------
(* Type correctness.                                                       *)

\* The initial state satisfies the invariant.
LEMMA TypedStart == Init => Typed
<1> SUFFICES ASSUME Init PROVE Typed
  OBVIOUS
<1>1. <<>> \in Seq(Piece) /\ <<>> \in Seq(Seq(Piece)) /\ Len(<<>>) = 0
  OBVIOUS
<1>2. Len(Length) \in Nat /\ 0 \in 0 .. MaxRequests
  BY LengthType, NumberTypes
<1>3. TypeOK
  BY <1>1, <1>2 DEF Init, TypeOK
<1>4. Lengths
  BY TriesType DEF Init, Lengths
<1> QED
  BY <1>3, <1>4 DEF Typed

\* A request that is over leaves everything in shape.
LEMMA ClosedTyped ==
    ASSUME Typed, NEW t \in Tries, Close(t),
           \/ UNCHANGED transcript
           \/ awaited = t /\ transcript' \in Seq(Text) /\ Len(transcript') = Len(transcript)
    PROVE  Typed'
<1>1. \A s \in Tries : /\ stage'[s] = IF s = t THEN "idle" ELSE stage[s]
                       /\ work'[s] = IF s = t THEN <<>> ELSE work[s]
                       /\ input'[s] = IF s = t THEN <<>> ELSE input[s]
  BY DEF Close, Typed, TypeOK
<1>2. /\ <<>> \in Seq(Text) /\ Len(<<>>) = 0
      /\ Len(transcript') = Len(transcript) /\ Len(transcript) \in Nat
      /\ transcript' \in Seq(Text)
  BY DEF Typed, TypeOK, Text
<1>3. \A s \in Tries : Len(work[s]) <= Len(transcript)
  BY DEF Typed, TypeOK
<1>4. TypeOK'
  <2>1. work' \in [Tries -> Seq(Text)] /\ input' \in [Tries -> Seq(Text)]
    BY <1>2 DEF Close, Typed, TypeOK, Text
  <2>2. \A s \in Tries : Len(work'[s]) <= Len(transcript')
    BY <1>1, <1>2, <1>3
  <2>3. awaited' \in Tries \cup {"none"}
    BY DEF Close, Typed, TypeOK
  <2> QED
    BY <1>2, <2>1, <2>2, <2>3 DEF Close, Typed, TypeOK, Text
<1>5. \A s \in Tries : awaited' = s => s # t /\ awaited = s
  BY TriesType DEF Close
<1>6. Lengths'
  BY <1>1, <1>2, <1>5 DEF Typed, Lengths
<1> QED
  BY <1>4, <1>6 DEF Typed

\* Every step preserves types and lengths.
LEMMA TypedStep == Typed /\ [Next]_vars => Typed'
<1> SUFFICES ASSUME Typed, [Next]_vars PROVE Typed'
  OBVIOUS
<1>1. CASE UNCHANGED vars
  BY <1>1 DEF vars, Typed, TypeOK, Lengths
<1>2. CASE ToolResult
  <2>1. /\ awaited = "none" /\ Len(transcript) < Len(Length)
        /\ transcript' = Append(transcript, Output(Len(transcript) + 1))
    BY <1>2 DEF ToolResult
  <2>2. transcript \in Seq(Text) /\ Len(transcript) \in Nat /\ Len(Length) \in Nat
    BY LengthType DEF Typed, TypeOK, Text
  <2>3. Len(transcript) + 1 \in Results
    BY <2>1, <2>2, LengthType DEF Results
  <2>4. /\ transcript' \in Seq(Text) /\ Len(transcript') = Len(transcript) + 1
        /\ Len(transcript') <= Len(Length)
    BY <2>1, <2>2, <2>3, TextShapes
  <2>5. \A t \in Tries : Len(work'[t]) <= Len(transcript')
    <3>1. \A t \in Tries : Len(work[t]) <= Len(transcript) /\ Len(work[t]) \in Nat
      BY DEF Typed, TypeOK
    <3> QED
      BY <1>2, <2>2, <2>4, <3>1 DEF ToolResult
  <2>6. TypeOK'
    BY <1>2, <2>4, <2>5 DEF ToolResult, Typed, TypeOK, Text
  <2>7. Lengths'
    BY <1>2, <2>1, TriesType DEF ToolResult, Typed, Lengths
  <2> QED
    BY <2>6, <2>7 DEF Typed
<1>3. ASSUME NEW t \in Tries, Request(t) PROVE Typed'
  <2>1. \A s \in Tries : /\ stage'[s] = IF s = t THEN "expand" ELSE stage[s]
                         /\ work'[s] = IF s = t THEN transcript ELSE work[s]
    BY <1>3 DEF Request, Typed, TypeOK
  <2>2. /\ work' \in [Tries -> Seq(Seq(Piece))] /\ begun' \in 0 .. MaxRequests
        /\ Len(transcript) \in Nat
    BY <1>3, NumberTypes DEF Request, Typed, TypeOK
  <2>3. TypeOK'
    BY <1>3, <2>1, <2>2 DEF Request, Typed, TypeOK
  <2>4. Lengths'
    BY <1>3, <2>1 DEF Request, Typed, Lengths
  <2> QED
    BY <2>3, <2>4 DEF Typed
<1>4. ASSUME NEW t \in Tries, NEW i \in Results, NEW x \in Text, i \in DOMAIN work[t],
             work' = work \/ work' = [work EXCEPT ![t][i] = x],
             at' = [at EXCEPT ![t] = i + 1], unread' \subseteq Results,
             store' \in [Results -> Text],
             UNCHANGED <<transcript, begun, awaited, stage, input>>
      PROVE  Typed'
  <2>1. work' \in [Tries -> Seq(Text)] /\ \A s \in Tries : Len(work'[s]) = Len(work[s])
    <3>1. CASE work' = work
      BY <3>1 DEF Typed, TypeOK, Text
    <3>2. CASE work' = [work EXCEPT ![t][i] = x]
      BY <1>4, <3>2, WorkEffect
    <3> QED
      BY <1>4, <3>1, <3>2
  <2>2. i + 1 \in Nat \ {0}
    BY LengthType DEF Results
  <2>3. TypeOK'
    BY <1>4, <2>1, <2>2 DEF Typed, TypeOK, Text
  <2>4. Lengths'
    BY <1>4, <2>1 DEF Typed, Lengths
  <2> QED
    BY <2>3, <2>4 DEF Typed
<1>5. ASSUME NEW t \in Tries, NEW i \in Results, i \in DOMAIN work[t]
      PROVE  work[t][i] \in Text /\ store[i] \in Text
  BY <1>5 DEF Typed, TypeOK, Text
<1>6. ASSUME NEW t \in Tries, NEW i \in Results, Expand(t, i) PROVE Typed'
  <2>1. i \in DOMAIN work[t]
    BY <1>6 DEF Expand
  <2>2. Extended(work[t][i], store[i]) \in Text
    BY <1>5, <2>1, TextShapes
  <2>3. \/ work' = work
        \/ work' = [work EXCEPT ![t][i] = Extended(work[t][i], store[i])]
    BY <1>6, <2>1 DEF Expand, Typed, TypeOK
  <2> QED
    BY <1>4, <1>6, <2>1, <2>2, <2>3 DEF Expand, Typed, TypeOK, Text
<1>7. ASSUME NEW t \in Tries, NEW i \in Results, PassOver(t, i) PROVE Typed'
  <2>1. i \in DOMAIN work[t]
    BY <1>7 DEF PassOver
  <2> QED
    BY <1>4, <1>5, <1>7, <2>1 DEF PassOver, Typed, TypeOK, Text
<1>8. ASSUME NEW t \in Tries, NEW i \in Results, Mask(t, i) PROVE Typed'
  <2>1. i \in DOMAIN work[t]
    BY <1>8 DEF Mask
  <2>2. Stub(work[t][i]) \in Text /\ work[t][i] \in Text
    BY <1>5, <2>1, TextShapes
  <2>3. work' = [work EXCEPT ![t][i] = Stub(work[t][i])]
    BY <1>8, <2>1 DEF Mask, Typed, TypeOK
  <2> QED
    BY <1>4, <1>8, <2>1, <2>2, <2>3 DEF Mask, Typed, TypeOK, Text
<1>9. ASSUME NEW t \in Tries, EndLoop(t) PROVE Typed'
  <2>1. \A s \in Tries : /\ s # t => stage'[s] = stage[s] /\ input'[s] = input[s]
                         /\ stage'[t] = IF stage[t] = "expand" THEN "mask" ELSE "gate"
                         /\ stage[t] \in {"expand", "mask"}
                         /\ input'[t] = IF stage[t] = "expand" THEN work[t] ELSE input[t]
    BY <1>9 DEF EndLoop, Typed, TypeOK
  <2>2. input' \in [Tries -> Seq(Seq(Piece))]
    BY <1>9 DEF EndLoop, Typed, TypeOK
  <2>3. TypeOK'
    BY <1>9, <2>1, <2>2 DEF EndLoop, Typed, TypeOK
  <2>4. Lengths'
    BY <1>9, <2>1 DEF EndLoop, Typed, Lengths
  <2> QED
    BY <2>3, <2>4 DEF Typed
<1>10. ASSUME NEW t \in Tries, NEW texts \in {work[t], input[t]}, Answer(t, texts) PROVE Typed'
  <2>1. /\ texts \in Seq(Text)
        /\ stage[t] = "gate" => Len(texts) = Len(work[t])
        /\ awaited = t => Len(work[t]) = Len(transcript)
    BY DEF Typed, TypeOK, Lengths, Text
  <2> QED
    BY <1>10, <2>1, ClosedTyped DEF Answer
<1>11. ASSUME NEW t \in Tries, Fail(t) PROVE Typed'
  BY <1>11, ClosedTyped DEF Fail
<1>12. ASSUME NEW t \in Tries, Compile(t) PROVE Typed'
  BY <1>6, <1>7, <1>8, <1>9, <1>10, <1>11, <1>12 DEF Compile
<1> QED
  BY <1>1, <1>2, <1>3, <1>12 DEF Next

\* Texts, positions and requests keep their shape, for any outputs and any
\* finite number of requests at once.
THEOREM TypeCorrect == Spec => []TypeOK
<1>1. Typed => TypeOK
  BY DEF Typed
<1> QED
  BY TypedStart, TypedStep, <1>1, PTL DEF Spec
-----------------------------------------------------------------------------
(* Where texts come from.                                                  *)

\* A text of the agent's or of a request's, for result i.
Seen(x, i) == \/ i \in DOMAIN transcript /\ x = transcript[i]
              \/ \E t \in Tries : i \in DOMAIN work[t] /\ x = work[t][i]
              \/ \E t \in Tries : i \in DOMAIN input[t] /\ x = input[t][i]

\* A text is as it was, an output, a stub, or an extended text.
LEMMA Provenance ==
    ASSUME Typed, [Next]_vars, NEW i \in Results, NEW x, Seen(x, i)'
    PROVE  \/ Seen(x, i)
           \/ x = Output(i)
           \/ \E t \in Tries : Mask(t, i) /\ x = Stub(work[t][i])
           \/ \E t \in Tries : /\ Expand(t, i) /\ Open(work[t][i]) /\ store[i] # <<>>
                               /\ x = Extended(work[t][i], store[i])
<1> DEFINE Goal == \/ Seen(x, i)
                   \/ x = Output(i)
                   \/ \E t \in Tries : Mask(t, i) /\ x = Stub(work[t][i])
                   \/ \E t \in Tries : /\ Expand(t, i) /\ Open(work[t][i]) /\ store[i] # <<>>
                                       /\ x = Extended(work[t][i], store[i])
<1>1. CASE UNCHANGED <<transcript, work, input>>
  BY <1>1 DEF Seen
<1>2. ASSUME ToolResult PROVE Goal
  <2>1. /\ transcript \in Seq(Text) /\ Output(Len(transcript) + 1) \in Text
        /\ transcript' = Append(transcript, Output(Len(transcript) + 1))
        /\ UNCHANGED <<work, input>>
    <3>1. Len(transcript) + 1 \in Results
      BY <1>2, LengthType DEF ToolResult, Results, Typed, TypeOK
    <3> QED
      BY <1>2, <3>1, TextShapes DEF ToolResult, Typed, TypeOK, Text
  <2>2. \A j \in DOMAIN transcript' :
           \/ j \in DOMAIN transcript /\ transcript'[j] = transcript[j]
           \/ transcript'[j] = Output(j)
    BY <2>1
  <2> QED
    BY <2>1, <2>2 DEF Seen
<1>3. ASSUME NEW t \in Tries, Request(t) PROVE Goal
  <2>1. \A s \in Tries : work'[s] = IF s = t THEN transcript ELSE work[s]
    BY <1>3 DEF Request, Typed, TypeOK
  <2> QED
    BY <1>3, <2>1 DEF Request, Seen
<1>4. ASSUME NEW t \in Tries, NEW j \in Results, NEW y \in Text, j \in DOMAIN work[t],
             work' = [work EXCEPT ![t][j] = y], UNCHANGED <<transcript, input>>
      PROVE  Seen(x, i) \/ (j = i /\ x = y)
  <2>1. \A s \in Tries : /\ DOMAIN work'[s] = DOMAIN work[s]
                         /\ \A k \in DOMAIN work[s] :
                               work'[s][k] = IF s = t /\ k = j THEN y ELSE work[s][k]
    <3>1. /\ work' \in [Tries -> Seq(Text)]
          /\ \A s \in Tries : Len(work'[s]) = Len(work[s])
      BY <1>4, WorkEffect
    <3>2. work \in [Tries -> Seq(Text)]
      BY DEF Typed, TypeOK, Text
    <3>3. \A s \in Tries : DOMAIN work'[s] = DOMAIN work[s]
      BY <3>1, <3>2
    <3> QED
      BY <1>4, <3>3, WorkEffect
  <2> QED
    BY <1>4, <2>1 DEF Seen
<1>5. ASSUME NEW t \in Tries, NEW j \in Results, Expand(t, j) PROVE Goal
  <2>1. CASE Open(work[t][j]) /\ store[j] # <<>>
    <3>1. /\ j \in DOMAIN work[t] /\ work[t][j] \in Text /\ store[j] \in Text
          /\ UNCHANGED <<transcript, input>>
      BY <1>5 DEF Expand, Typed, TypeOK, Text
    <3>2. /\ Extended(work[t][j], store[j]) \in Text
          /\ work' = [work EXCEPT ![t][j] = Extended(work[t][j], store[j])]
      BY <1>5, <2>1, <3>1, TextShapes DEF Expand, Typed, TypeOK
    <3> QED
      BY <1>4, <1>5, <2>1, <3>1, <3>2
  <2>2. CASE ~(Open(work[t][j]) /\ store[j] # <<>>)
    BY <1>1, <1>5, <2>2 DEF Expand
  <2> QED
    BY <2>1, <2>2
<1>6. ASSUME NEW t \in Tries, NEW j \in Results, Mask(t, j) PROVE Goal
  <2>1. j \in DOMAIN work[t] /\ work[t][j] \in Text /\ UNCHANGED <<transcript, input>>
    BY <1>6 DEF Mask, Typed, TypeOK, Text
  <2>2. /\ Stub(work[t][j]) \in Text
        /\ work' = [work EXCEPT ![t][j] = Stub(work[t][j])]
    BY <1>6, <2>1, TextShapes DEF Mask, Typed, TypeOK
  <2> QED
    BY <1>4, <1>6, <2>1, <2>2
<1>7. ASSUME NEW t \in Tries, EndLoop(t) PROVE Goal
  <2>1. \A s \in Tries : input'[s] = input[s] \/ input'[s] = work[s]
    BY <1>7 DEF EndLoop, Typed, TypeOK
  <2> QED
    BY <1>7, <2>1 DEF EndLoop, Seen
<1>8. ASSUME NEW t \in Tries, Close(t),
             transcript' \in {transcript, work[t], input[t]}
      PROVE  Goal
  <2>1. \A s \in Tries : /\ work'[s] = IF s = t THEN <<>> ELSE work[s]
                         /\ input'[s] = IF s = t THEN <<>> ELSE input[s]
    BY <1>8 DEF Close, Typed, TypeOK
  <2> QED
    BY <1>8, <2>1 DEF Seen
<1>9. ASSUME NEW t \in Tries, Compile(t) PROVE Goal
  <2>1. ASSUME NEW j \in Results, PassOver(t, j) PROVE Goal
    BY <1>1, <2>1 DEF PassOver
  <2>2. ASSUME NEW texts \in {work[t], input[t]}, Answer(t, texts) PROVE Goal
    BY <1>8, <2>2 DEF Answer
  <2>3. ASSUME Fail(t) PROVE Goal
    BY <1>8, <2>3 DEF Fail
  <2> QED
    BY <1>5, <1>6, <1>7, <1>9, <2>1, <2>2, <2>3 DEF Compile
<1> QED
  BY <1>1, <1>2, <1>3, <1>9 DEF Next, vars

\* What is stored is as it was, or a request's text when it masked it.
LEMMA StoreStep ==
    ASSUME Typed, [Next]_vars, NEW i \in Results
    PROVE  \/ store'[i] = store[i]
           \/ \E t \in Tries : Mask(t, i) /\ store'[i] = work[t][i]
<1>1. CASE UNCHANGED store
  BY <1>1
<1>2. ASSUME NEW t \in Tries, NEW j \in Results, Mask(t, j)
      PROVE  store'[i] = store[i] \/ (Mask(t, i) /\ store'[i] = work[t][i])
  BY <1>2 DEF Mask, Typed, TypeOK
<1> QED
  BY <1>1, <1>2 DEF Next, ToolResult, Request, Compile, Expand, PassOver, EndLoop, Answer, Fail,
                    Close, vars

\* What is seen is a text.
LEMMA SeenText == ASSUME Typed, NEW i \in Results, NEW x, Seen(x, i) PROVE x \in Text
  BY DEF Seen, Typed, TypeOK, Text
-----------------------------------------------------------------------------
(* Growth.                                                                 *)

\* Requests that have yet to look at message i, to extend it.
Ahead(i) == {t \in Tries : stage[t] = "expand" /\ at[t] <= i}

Running == {t \in Tries : stage[t] # "idle"}

\* Pieces a text of result i may have by now.
Allowed(i) == Length[i] + (begun - Cardinality(Ahead(i))) * (Preview + 3)

\* A text that is open is a stub, and short.
Short(x) == Open(x) => Len(x) <= Preview + 2

Sized ==
    /\ Cardinality(Running) <= begun
    /\ \A i \in Results :
          /\ Len(store[i]) <= Allowed(i)
          /\ \A x \in Text : Seen(x, i) => Len(x) <= Allowed(i) /\ Short(x)

\* Every request that runs was sent.
LEMMA RunningStep ==
    ASSUME Typed, Sized, [Next]_vars
    PROVE  /\ IsFiniteSet(Running) /\ IsFiniteSet(Running')
           /\ Cardinality(Running') <= begun'
<1>1. IsFiniteSet(Running) /\ IsFiniteSet(Running')
  <2>1. Running \subseteq Tries /\ Running' \subseteq Tries
    BY DEF Running
  <2> QED
    BY <2>1, TriesType, FS_Subset
<1>2. /\ Cardinality(Running) \in Nat /\ Cardinality(Running') \in Nat
      /\ begun \in Nat /\ Cardinality(Running) <= begun
  BY <1>1, FS_CardinalityType, NumberTypes DEF Typed, TypeOK, Sized
<1>3. ASSUME NEW t \in Tries, Request(t) PROVE Cardinality(Running') <= begun'
  <2>1. Running' = Running \cup {t} /\ t \notin Running /\ begun' = begun + 1
    BY <1>3 DEF Request, Running, Typed, TypeOK
  <2>2. Cardinality(Running') = Cardinality(Running) + 1
    BY <1>1, <2>1, FS_AddElement
  <2> QED
    BY <1>2, <2>1, <2>2
<1>4. ASSUME begun' = begun, Running' \subseteq Running PROVE Cardinality(Running') <= begun'
  <2>1. Cardinality(Running') <= Cardinality(Running)
    BY <1>1, <1>4, FS_Subset
  <2> QED
    BY <1>2, <1>4, <2>1
<1>5. ASSUME NEW t \in Tries, Compile(t) PROVE begun' = begun /\ Running' \subseteq Running
  BY <1>5 DEF Compile, Expand, PassOver, Mask, EndLoop, Answer, Fail, Close, Running, Typed, TypeOK
<1>6. ASSUME UNCHANGED <<begun, stage>> PROVE begun' = begun /\ Running' \subseteq Running
  BY <1>6 DEF Running
<1> QED
  BY <1>1, <1>3, <1>4, <1>5, <1>6 DEF Next, ToolResult, vars

\* What may be seen or stored never shrinks; a message that is extended makes
\* room for one more stub.
LEMMA AllowedGrows ==
    ASSUME Typed, Sized, [Next]_vars, NEW i \in Results
    PROVE  /\ Allowed(i) \in Nat /\ Allowed(i)' \in Nat
           /\ Allowed(i) <= Allowed(i)'
           /\ Length[i] <= Allowed(i)'
           /\ \A t \in Tries : Mask(t, i) => Preview + 3 <= Allowed(i)'
           /\ \A t \in Tries : Expand(t, i) => Allowed(i)' >= Allowed(i) + Preview + 3
<1>1. IsFiniteSet(Ahead(i)) /\ IsFiniteSet(Ahead(i)')
  <2>1. Ahead(i) \subseteq Tries /\ Ahead(i)' \subseteq Tries
    BY DEF Ahead
  <2> QED
    BY <2>1, TriesType, FS_Subset
<1>2. /\ Cardinality(Ahead(i)) \in Nat /\ Cardinality(Ahead(i)') \in Nat
      /\ begun \in Nat /\ Length[i] \in Nat /\ Preview \in Nat
      /\ Cardinality(Ahead(i)) <= begun
  <2>1. Cardinality(Ahead(i)) \in Nat /\ Cardinality(Ahead(i)') \in Nat
    BY <1>1, FS_CardinalityType
  <2>2. begun \in Nat /\ Length[i] \in Nat /\ Preview \in Nat /\ Cardinality(Running) <= begun
    BY NumberTypes, LengthType DEF Typed, TypeOK, Sized, Results
  <2>3. Ahead(i) \subseteq Running
    BY DEF Ahead, Running
  <2>4. Cardinality(Ahead(i)) <= Cardinality(Running) /\ Cardinality(Running) \in Nat
    BY <2>3, RunningStep, FS_Subset, FS_CardinalityType
  <2> QED
    BY <2>1, <2>2, <2>4
<1> DEFINE n == begun - Cardinality(Ahead(i))
           m == begun' - Cardinality(Ahead(i)')
<1>3. begun' \in Nat /\ n \in Nat /\ n <= m /\ \A t \in Tries : Expand(t, i) => n + 1 <= m
  <2>1. ASSUME NEW t \in Tries, Request(t) PROVE begun' = begun + 1 /\ n = m
    <3>1. stage[t] # "expand" /\ begun' = begun + 1
      BY <2>1 DEF Request
    <3>2. \A s \in Tries : /\ stage'[s] = IF s = t THEN "expand" ELSE stage[s]
                           /\ at'[s] = IF s = t THEN 1 ELSE at[s]
      BY <2>1 DEF Request, Typed, TypeOK
    <3>3. 1 <= i
      BY LengthType DEF Results
    <3>4. Ahead(i)' = Ahead(i) \cup {t} /\ t \notin Ahead(i)
      BY <3>1, <3>2, <3>3 DEF Ahead
    <3>5. Cardinality(Ahead(i)') = Cardinality(Ahead(i)) + 1
      BY <1>1, <3>4, FS_AddElement
    <3> QED
      BY <1>2, <3>1, <3>5
  <2>2. ASSUME NEW t \in Tries, ~Request(t), Compile(t)
        PROVE  begun' = begun /\ Ahead(i)' \subseteq Ahead(i)
    <3>1. begun' = begun
      BY <2>2 DEF Compile, Expand, PassOver, Mask, EndLoop, Answer, Fail, Close
    <3>2. ASSUME NEW s \in Tries, stage'[s] = "expand" PROVE stage[s] = "expand" /\ at'[s] >= at[s]
      <4>1. at[s] \in Nat
        BY DEF Typed, TypeOK
      <4>2. ASSUME NEW j \in Results, Expand(t, j) \/ PassOver(t, j) \/ Mask(t, j)
            PROVE  stage'[s] = stage[s] /\ at'[s] = IF s = t THEN at[t] + 1 ELSE at[s]
        BY <4>2 DEF Expand, PassOver, Mask, Typed, TypeOK
      <4>3. ASSUME EndLoop(t)
            PROVE  s # t /\ stage'[s] = stage[s] /\ at'[s] = at[s]
        BY <3>2, <4>3 DEF EndLoop, Typed, TypeOK
      <4>4. ASSUME Close(t)
            PROVE  s # t /\ stage'[s] = stage[s] /\ at'[s] = at[s]
        BY <3>2, <4>4 DEF Close, Typed, TypeOK
      <4> QED
        BY <2>2, <3>2, <4>1, <4>2, <4>3, <4>4 DEF Compile, Answer, Fail
    <3>3. \A s \in Tries : at[s] \in Nat /\ at'[s] \in Nat /\ i \in Nat
      <4>1. Typed'
        BY TypedStep
      <4>2. at \in [Tries -> Nat \ {0}] /\ at' \in [Tries -> Nat \ {0}]
        BY <4>1 DEF Typed, TypeOK
      <4> QED
        BY <4>2, LengthType DEF Results
    <3> QED
      BY <3>1, <3>2, <3>3 DEF Ahead
  <2>3. ASSUME NEW t \in Tries, Expand(t, i) PROVE t \in Ahead(i) /\ t \notin Ahead(i)'
    <3>1. stage[t] = "expand" /\ at[t] = i /\ at'[t] = i + 1 /\ i \in Nat
      BY <2>3, LengthType DEF Expand, Typed, TypeOK, Results
    <3> QED
      BY <3>1 DEF Ahead
  <2>4. ASSUME UNCHANGED <<begun, stage, at>> PROVE begun' = begun /\ Ahead(i)' = Ahead(i)
    BY <2>4 DEF Ahead
  <2>5. ASSUME begun' = begun, Ahead(i)' \subseteq Ahead(i)
        PROVE  /\ begun' \in Nat /\ n \in Nat /\ n <= m
               /\ \A t \in Tries : t \in Ahead(i) /\ t \notin Ahead(i)' => n + 1 <= m
    <3>1. Cardinality(Ahead(i)') <= Cardinality(Ahead(i))
      BY <1>1, <2>5, FS_Subset
    <3>2. ASSUME NEW t \in Ahead(i), t \notin Ahead(i)'
          PROVE  Cardinality(Ahead(i)') + 1 <= Cardinality(Ahead(i))
      <4>1. Cardinality(Ahead(i)' \cup {t}) = Cardinality(Ahead(i)') + 1
        BY <1>1, <3>2, FS_AddElement
      <4>2. Cardinality(Ahead(i)' \cup {t}) <= Cardinality(Ahead(i))
        BY <1>1, <2>5, <3>2, FS_Subset
      <4> QED
        BY <4>1, <4>2
    <3> QED
      BY <1>2, <2>5, <3>1, <3>2
  <2>6. ASSUME NEW t \in Tries, Expand(t, i) PROVE ~(\E s \in Tries : Request(s)) /\ Compile(t)
    BY <2>6 DEF Compile, Expand, Request, Typed, TypeOK
  <2>7. CASE \E t \in Tries : Request(t)
    BY <1>2, <2>1, <2>6, <2>7
  <2>8. CASE ~\E t \in Tries : Request(t)
    <3>1. begun' = begun /\ Ahead(i)' \subseteq Ahead(i)
      BY <2>2, <2>4, <2>8 DEF Next, ToolResult, vars
    <3> QED
      BY <2>3, <2>5, <3>1
  <2> QED
    BY <2>7, <2>8
<1>4. Allowed(i) = Length[i] + n * (Preview + 3) /\ Allowed(i)' = Length[i] + m * (Preview + 3)
  BY DEF Allowed
<1>5. m \in Nat
  BY <1>2, <1>3
<1>9. ASSUME NEW t \in Tries, Mask(t, i) PROVE 1 <= m
  <2>1. /\ Running' = Running /\ Ahead(i)' = Ahead(i) /\ begun' = begun
        /\ t \in Running /\ t \notin Ahead(i)
    BY <1>9 DEF Mask, Running, Ahead, Typed, TypeOK
  <2>2. Cardinality(Ahead(i) \cup {t}) = Cardinality(Ahead(i)) + 1
    BY <1>1, <2>1, FS_AddElement
  <2>3. Ahead(i) \cup {t} \subseteq Running
    BY <2>1 DEF Ahead, Running
  <2>4. Cardinality(Ahead(i) \cup {t}) <= Cardinality(Running) /\ Cardinality(Running) \in Nat
    BY <2>3, RunningStep, FS_Subset, FS_CardinalityType
  <2>5. Cardinality(Running) <= begun
    BY DEF Sized
  <2> QED
    BY <1>2, <2>1, <2>2, <2>4, <2>5
<1> HIDE DEF n, m
<1>6. \A a, b \in Nat : a <= b => a * (Preview + 3) <= b * (Preview + 3)
  BY <1>2
<1>7. n + 1 <= m => n * (Preview + 3) + Preview + 3 <= m * (Preview + 3)
  <2>1. (n + 1) * (Preview + 3) = n * (Preview + 3) + Preview + 3
    BY <1>2, <1>3
  <2> QED
    BY <1>3, <1>5, <1>6, <2>1
<1>8. n * (Preview + 3) \in Nat /\ m * (Preview + 3) \in Nat
  BY <1>2, <1>3, <1>5
<1>10. 1 <= m => Preview + 3 <= m * (Preview + 3)
  <2>1. 1 * (Preview + 3) = Preview + 3
    BY <1>2
  <2> QED
    BY <1>5, <1>6, <2>1
<1> QED
  BY <1>2, <1>3, <1>4, <1>5, <1>6, <1>7, <1>8, <1>9, <1>10

\* Stubs and outputs are no longer than what is allowed, extended texts by one
\* stub at most.
LEMMA SizedStep == ASSUME Typed, Sized, [Next]_vars PROVE Sized'
<1>1. Cardinality(Running') <= begun'
  BY RunningStep
<1>2. ASSUME NEW t \in Tries, NEW i \in Results, i \in DOMAIN work[t]
      PROVE  work[t][i] \in Text /\ Len(work[t][i]) <= Allowed(i) /\ Short(work[t][i])
  <2>1. work[t][i] \in Text /\ Seen(work[t][i], i)
    BY <1>2 DEF Seen, Typed, TypeOK, Text
  <2> QED
    BY <2>1 DEF Sized
<1>3. ASSUME NEW i \in Results PROVE Len(store'[i]) <= Allowed(i)'
  <2>1. CASE store'[i] = store[i]
    <3>1. Len(store[i]) \in Nat /\ Len(store[i]) <= Allowed(i)
      BY DEF Sized, Typed, TypeOK
    <3> QED
      BY <2>1, <3>1, AllowedGrows
  <2>2. ASSUME NEW t \in Tries, Mask(t, i), store'[i] = work[t][i] PROVE Len(store'[i]) <= Allowed(i)'
    <3>1. i \in DOMAIN work[t]
      BY <2>2 DEF Mask
    <3>2. Len(work[t][i]) \in Nat /\ Len(work[t][i]) <= Allowed(i)
      BY <1>2, <3>1 DEF Text
    <3> QED
      BY <2>2, <3>2, AllowedGrows
  <2> QED
    BY <2>1, <2>2, StoreStep
<1>4. ASSUME NEW i \in Results, NEW x \in Text, Seen(x, i)'
      PROVE  Len(x) <= Allowed(i)' /\ Short(x)
  <2>1. Len(x) \in Nat /\ Preview \in Nat /\ Cap \in Nat
    BY NumberTypes DEF Text
  <2>2. CASE Seen(x, i)
    BY <2>1, <2>2, AllowedGrows DEF Sized
  <2>3. CASE x = Output(i)
    <3>1. Len(x) = Length[i] /\ ~Shows(x, Uri)
      <4>1. Length[i] \in Nat
        BY LengthType DEF Results
      <4>2. Len(x) = Length[i] /\ x \in Text
        BY <2>3, TextShapes
      <4>3. \A k \in 1 .. Length[i] : x[k] = k
        BY <2>3 DEF Output
      <4>4. DOMAIN x = 1 .. Length[i]
        BY <4>2 DEF Text
      <4> QED
        BY <4>1, <4>2, <4>3, <4>4 DEF Shows, Uri
    <3> QED
      BY <3>1, AllowedGrows DEF Short, Open
  <2>4. ASSUME NEW t \in Tries, Mask(t, i), x = Stub(work[t][i])
        PROVE  Len(x) <= Allowed(i)' /\ Short(x)
    <3>1. work[t][i] \in Text
      BY <1>2, <2>4 DEF Mask
    <3>2. Len(x) <= Preview + 2
      BY <2>1, <2>4, <3>1, TextShapes DEF Least, Text
    <3> QED
      BY <2>1, <2>4, <3>2, AllowedGrows DEF Short
  <2>5. ASSUME NEW t \in Tries, Expand(t, i), Open(work[t][i]), store[i] # <<>>,
               x = Extended(work[t][i], store[i])
        PROVE  Len(x) <= Allowed(i)' /\ Short(x)
    <3>1. /\ work[t][i] \in Text /\ store[i] \in Text
          /\ Len(work[t][i]) <= Preview + 2 /\ Len(store[i]) <= Allowed(i)
      BY <1>2, <2>5 DEF Expand, Short, Sized, Typed, TypeOK, Text
    <3>2. Len(x) = Len(work[t][i]) + 1 + Least(Len(store[i]), Cap)
      BY <2>5, <3>1, TextShapes
    <3>3. Len(work[t][i]) \in Nat /\ Len(store[i]) \in Nat
      BY <3>1 DEF Text
    <3>4. Len(x) <= Allowed(i)'
      <4>1. /\ Allowed(i) \in Nat /\ Allowed(i)' \in Nat
            /\ Allowed(i)' >= Allowed(i) + Preview + 3
        BY <2>5, AllowedGrows
      <4>2. Least(Len(store[i]), Cap) <= Len(store[i]) /\ Least(Len(store[i]), Cap) \in Nat
        BY <2>1, <3>3 DEF Least
      <4>3. Least(Len(store[i]), Cap) <= Allowed(i)
        BY <3>1, <3>3, <4>1, <4>2
      <4>4. Len(x) <= Preview + 3 + Allowed(i)
        BY <2>1, <3>1, <3>2, <3>3, <4>1, <4>2, <4>3
      <4> QED
        BY <2>1, <4>1, <4>4
    <3>5. Shows(x, Mark)
      <4>1. x = (work[t][i] \o <<Mark>>) \o Take(store[i], Cap)
        BY <2>5 DEF Extended
      <4>2. work[t][i] \o <<Mark>> \in Text /\ Take(store[i], Cap) \in Text
        <5>1. Least(Cap, Len(store[i])) \in 0 .. Len(store[i])
          BY <2>1, <3>3 DEF Least
        <5> QED
          BY <3>1, <5>1 DEF Take, Text, Piece
      <4>3. /\ Len(work[t][i]) + 1 \in DOMAIN x
            /\ x[Len(work[t][i]) + 1] = Mark
        <5>1. \A a, b \in Seq(Piece) :
                 /\ Len(a) + 1 \in DOMAIN ((a \o <<Mark>>) \o b)
                 /\ ((a \o <<Mark>>) \o b)[Len(a) + 1] = Mark
          <6> TAKE a, b \in Seq(Piece)
          <6>1. /\ a \o <<Mark>> \in Seq(Piece)
                /\ Len(a \o <<Mark>>) = Len(a) + 1
                /\ (a \o <<Mark>>)[Len(a) + 1] = Mark
            BY DEF Piece
          <6> DEFINE c == a \o <<Mark>>
          <6> HIDE DEF c
          <6>2. c \in Seq(Piece) /\ Len(c) = Len(a) + 1 /\ c[Len(c)] = Mark /\ Len(a) \in Nat
            BY <6>1 DEF c
          <6>3. Len(c) \in DOMAIN (c \o b) /\ (c \o b)[Len(c)] = c[Len(c)]
            BY <6>2
          <6> QED
            BY <6>2, <6>3 DEF c
        <5> QED
          BY <3>1, <4>1, <4>2, <5>1 DEF Text
      <4> QED
        BY <4>3 DEF Shows
    <3> QED
      BY <3>4, <3>5 DEF Short, Open
  <2> QED
    BY <1>4, <2>2, <2>3, <2>4, <2>5, Provenance
<1> QED
  BY <1>1, <1>3, <1>4 DEF Sized

\* Initially nothing runs and nothing is seen.
LEMMA SizedStart == Init => Sized
<1> SUFFICES ASSUME Init PROVE Sized
  OBVIOUS
<1>1. Running = {} /\ \A i \in Results : Ahead(i) = {}
  BY DEF Init, Running, Ahead
<1>2. Cardinality(Running) = 0 /\ \A i \in Results : Cardinality(Ahead(i)) = 0
  BY <1>1, FS_EmptySet
<1>3. \A i \in Results : Allowed(i) \in Nat
  BY <1>2, LengthType, NumberTypes DEF Allowed, Init, Results
<1>4. \A i \in Results : \A x \in Text : ~Seen(x, i)
  BY DEF Init, Seen
<1>5. \A i \in Results : Len(store[i]) = 0
  BY DEF Init
<1> QED
  BY <1>2, <1>3, <1>4, <1>5 DEF Init, Sized

\* However requests overlap, fail or are repeated, a stored text grows by no
\* more than a stub with each of them: a text is extended once (the mark in
\* rehydrate_messages).
THEOREM Growth == Spec => []Linear
<1>1. Init => Typed /\ Sized
  BY TypedStart, SizedStart
<1>2. Typed /\ Sized /\ [Next]_vars => (Typed /\ Sized)'
  BY TypedStep, SizedStep
<1>3. Typed /\ Sized => Linear
  <2> SUFFICES ASSUME Typed, Sized, NEW i \in Results
               PROVE  Len(store[i]) <= Length[i] + begun * (Preview + 3)
    BY DEF Linear
  <2>1. /\ IsFiniteSet(Ahead(i)) /\ Cardinality(Ahead(i)) \in Nat
        /\ IsFiniteSet(Running) /\ Cardinality(Ahead(i)) <= Cardinality(Running)
        /\ Cardinality(Running) \in Nat
    <3>1. Ahead(i) \subseteq Running /\ Running \subseteq Tries
      BY DEF Ahead, Running
    <3> QED
      BY <3>1, TriesType, FS_Subset, FS_CardinalityType
  <2>2. /\ begun \in Nat /\ Length[i] \in Nat /\ Preview + 3 \in Nat /\ Len(store[i]) \in Nat
        /\ Cardinality(Running) <= begun
        /\ Len(store[i]) <= Length[i] + (begun - Cardinality(Ahead(i))) * (Preview + 3)
    BY NumberTypes, LengthType DEF Typed, TypeOK, Sized, Allowed, Results
  <2>3. \A a, b, c \in Nat : a <= b => a * c <= b * c
    OBVIOUS
  <2>4. /\ begun - Cardinality(Ahead(i)) \in Nat
        /\ begun - Cardinality(Ahead(i)) <= begun
    BY <2>1, <2>2
  <2>5. (begun - Cardinality(Ahead(i))) * (Preview + 3) <= begun * (Preview + 3)
    BY <2>2, <2>3, <2>4
  <2>6. /\ (begun - Cardinality(Ahead(i))) * (Preview + 3) \in Nat
        /\ begun * (Preview + 3) \in Nat
    BY <2>2, <2>4
  <2> QED
    BY <2>2, <2>5, <2>6
<1> QED
  BY <1>1, <1>2, <1>3, PTL DEF Spec
-----------------------------------------------------------------------------
(* Reachability.                                                           *)

\* The output of result i is among the first n pieces of a text.
HeldIn(x, n, i) ==
    \E d \in 0 .. n : d + Length[i] <= n /\ \A j \in 1 .. Length[i] : x[d + j] = j

\* It is, or the pieces are more than a compile reads back.
KeptIn(x, n, i) == n > Cap \/ HeldIn(x, n, i)

Kept(x, i) == KeptIn(x, Len(x), i)

\* A text of result i shows the output or a reference that is bound.  It shows
\* the mark only if it keeps the output, even if only its beginning is quoted;
\* and a reference so short that a stub quotes all of it, only if it keeps the
\* output too.
Sound(x, i) ==
    /\ HeldIn(x, Len(x), i) \/ (Shows(x, Uri) /\ store[i] # <<>>)
    /\ Shows(x, Mark) => Kept(x, i)
    /\ \A k \in 1 .. Len(x) : k <= Preview /\ x[k] = Mark => KeptIn(x, k, i)
    /\ Shows(x, Uri) /\ Len(x) < Preview => Kept(x, i)

\* Request t has looked at message i to extend it, and is yet to mask it.
Passed(t, i) == \/ stage[t] = "expand" /\ at[t] > i
                \/ stage[t] = "mask" /\ at[t] <= i

Faithful ==
    \A i \in Results \ unread :
        /\ store[i] # <<>> => Kept(store[i], i)
        /\ \A x \in Text : Seen(x, i) => Sound(x, i)
        /\ \A t \in Tries : i \in DOMAIN work[t] /\ Passed(t, i) => Kept(work[t][i], i)

\* What a text keeps is kept by every text it is a part of.
LEMMA Shift ==
    ASSUME NEW i \in Results, NEW x, NEW y, NEW n \in Nat, NEW m \in Nat, NEW e \in Nat,
           e + n <= m, \A j \in 1 .. n : y[e + j] = x[j]
    PROVE  /\ HeldIn(x, n, i) => HeldIn(y, m, i)
           /\ KeptIn(x, n, i) => KeptIn(y, m, i)
<1>1. Length[i] \in Nat \ {0} /\ Cap \in Nat
  BY LengthType, NumberTypes DEF Results
<1>2. ASSUME HeldIn(x, n, i) PROVE HeldIn(y, m, i)
  <2>1. PICK d \in 0 .. n : d + Length[i] <= n /\ \A j \in 1 .. Length[i] : x[d + j] = j
    BY <1>2 DEF HeldIn
  <2>2. e + d \in 0 .. m /\ (e + d) + Length[i] <= m
    BY <1>1, <2>1
  <2>3. ASSUME NEW j \in 1 .. Length[i] PROVE y[(e + d) + j] = j
    <3>1. d + j \in 1 .. n /\ (e + d) + j = e + (d + j)
      BY <1>1, <2>1
    <3> QED
      BY <2>1, <3>1
  <2> QED
    BY <2>2, <2>3 DEF HeldIn
<1> QED
  BY <1>1, <1>2 DEF KeptIn

\* What the beginning of a text keeps, more of it keeps.
LEMMA Longer ==
    ASSUME NEW i \in Results, NEW x, NEW n \in Nat, NEW m \in Nat, n <= m, KeptIn(x, n, i)
    PROVE  KeptIn(x, m, i)
<1>1. Length[i] \in Nat /\ Cap \in Nat
  BY LengthType, NumberTypes DEF Results
<1>2. CASE n > Cap
  BY <1>1, <1>2 DEF KeptIn
<1>3. CASE HeldIn(x, n, i)
  <2>1. PICK d \in 0 .. n : d + Length[i] <= n /\ \A j \in 1 .. Length[i] : x[d + j] = j
    BY <1>3 DEF HeldIn
  <2>2. d \in 0 .. m /\ d + Length[i] <= m
    BY <1>1, <2>1
  <2> QED
    BY <2>1, <2>2 DEF KeptIn, HeldIn
<1> QED
  BY <1>2, <1>3 DEF KeptIn

\* A text that keeps an output is not empty.
LEMMA KeptNotEmpty == ASSUME NEW i \in Results, NEW x \in Text, Kept(x, i) PROVE x # <<>>
  BY LengthType, NumberTypes DEF Kept, KeptIn, HeldIn, Results

\* Piece by piece, a stub.
LEMMA StubPieces ==
    ASSUME NEW x \in Text
    PROVE  LET n == Least(Preview, Len(x)) IN
           /\ n \in Nat /\ Len(Stub(x)) = n + 2 /\ Stub(x) \in Text
           /\ Stub(x)[1] = Frame /\ Stub(x)[n + 2] = Uri
           /\ \A j \in 1 .. n : Stub(x)[1 + j] = x[j]
<1> DEFINE n == Least(Preview, Len(x))
<1>1. n \in Nat /\ n \in 0 .. Len(x)
  BY NumberTypes DEF Least, Text
<1>2. /\ Take(x, Preview) \in Text /\ Len(Take(x, Preview)) = n
      /\ \A j \in 1 .. n : Take(x, Preview)[j] = x[j]
  BY <1>1 DEF Take, Text
<1>3. Len(Stub(x)) = n + 2 /\ Stub(x) \in Text
  BY TextShapes
<1> DEFINE y == Take(x, Preview)
<1> HIDE DEF n, y
<1>4. /\ (<<Frame>> \o y) \o <<Uri>> \in Text
      /\ ((<<Frame>> \o y) \o <<Uri>>)[1] = Frame
      /\ ((<<Frame>> \o y) \o <<Uri>>)[n + 2] = Uri
      /\ \A j \in 1 .. n : ((<<Frame>> \o y) \o <<Uri>>)[1 + j] = y[j]
  <2>1. <<Frame>> \in Text /\ <<Uri>> \in Text /\ y \in Text /\ Len(y) = n
    BY <1>2 DEF y, Text, Piece, Frame
  <2>2. /\ <<Frame>> \o y \in Text /\ Len(<<Frame>> \o y) = n + 1
        /\ (<<Frame>> \o y)[1] = Frame
        /\ \A j \in 1 .. n : (<<Frame>> \o y)[1 + j] = y[j]
    BY <1>1, <2>1 DEF Text
  <2> DEFINE z == <<Frame>> \o y
  <2> HIDE DEF z
  <2>3. z \in Text /\ Len(z) = n + 1
    BY <2>2 DEF z
  <2>4. /\ z \o <<Uri>> \in Text
        /\ \A j \in 1 .. n + 1 : (z \o <<Uri>>)[j] = z[j]
        /\ (z \o <<Uri>>)[n + 2] = Uri
    BY <1>1, <2>1, <2>3 DEF Text
  <2>5. 1 \in 1 .. n + 1 /\ \A j \in 1 .. n : 1 + j \in 1 .. n + 1
    BY <1>1
  <2> QED
    BY <2>2, <2>4, <2>5 DEF z
<1> QED
  BY <1>1, <1>2, <1>3, <1>4 DEF Stub, n, y

\* Piece by piece, an extended text.
LEMMA ExtendedPieces ==
    ASSUME NEW x \in Text, NEW y \in Text
    PROVE  LET n == Least(Len(y), Cap)
               z == Extended(x, y)
           IN  /\ n \in Nat /\ Len(z) = Len(x) + 1 + n /\ z \in Text
               /\ \A j \in 1 .. Len(x) : z[j] = x[j]
               /\ z[Len(x) + 1] = Mark
               /\ \A j \in 1 .. n : z[(Len(x) + 1) + j] = y[j]
<1> DEFINE n == Least(Len(y), Cap)
           p == Take(y, Cap)
<1>1. n \in Nat /\ n \in 0 .. Len(y) /\ n = Least(Cap, Len(y))
  BY NumberTypes DEF Least, Text
<1>2. p \in Text /\ Len(p) = n /\ \A j \in 1 .. n : p[j] = y[j]
  BY <1>1 DEF Take, Text
<1>3. Len(Extended(x, y)) = Len(x) + 1 + n /\ Extended(x, y) \in Text
  BY TextShapes
<1> HIDE DEF n, p
<1>4. /\ x \o <<Mark>> \in Text /\ Len(x \o <<Mark>>) = Len(x) + 1 /\ Len(x) \in Nat
      /\ (x \o <<Mark>>)[Len(x) + 1] = Mark
      /\ \A j \in 1 .. Len(x) : (x \o <<Mark>>)[j] = x[j]
  <2>1. <<Mark>> \in Text
    BY DEF Text, Piece
  <2> QED
    BY <2>1 DEF Text
<1> DEFINE w == x \o <<Mark>>
<1> HIDE DEF w
<1>5. w \in Text /\ Len(w) = Len(x) + 1
  BY <1>4 DEF w
<1>6. /\ \A j \in 1 .. Len(w) : (w \o p)[j] = w[j]
      /\ \A j \in 1 .. n : (w \o p)[Len(w) + j] = p[j]
  BY <1>1, <1>2, <1>5 DEF Text
<1>7. Len(x) + 1 \in 1 .. Len(w) /\ \A j \in 1 .. Len(x) : j \in 1 .. Len(w)
  BY <1>4, <1>5
<1>8. Extended(x, y) = w \o p
  BY DEF Extended, w, p
<1> QED
  BY <1>1, <1>2, <1>3, <1>4, <1>5, <1>6, <1>7, <1>8 DEF w, n

\* An output keeps itself.
LEMMA OutputSound == ASSUME NEW i \in Results PROVE Sound(Output(i), i)
<1>1. Length[i] \in Nat \ {0}
  BY LengthType DEF Results
<1>2. Len(Output(i)) = Length[i] /\ DOMAIN Output(i) = 1 .. Length[i]
  BY TextShapes DEF Output
<1>3. \A k \in 1 .. Length[i] : Output(i)[k] = k
  BY DEF Output
<1>4. HeldIn(Output(i), Length[i], i)
  <2>1. 0 \in 0 .. Length[i] /\ 0 + Length[i] <= Length[i]
    BY <1>1
  <2>2. \A j \in 1 .. Length[i] : Output(i)[0 + j] = j
    BY <1>1, <1>3
  <2> QED
    BY <2>1, <2>2 DEF HeldIn
<1>5. \A k \in 1 .. Length[i] : Output(i)[k] # Mark /\ Output(i)[k] # Uri
  BY <1>1, <1>3 DEF Mark, Uri
<1> QED
  BY <1>2, <1>4, <1>5 DEF Sound, Shows

\* A stub of a sound text that keeps the output is sound, once that text is
\* stored.
LEMMA StubSound ==
    ASSUME NEW i \in Results, NEW x \in Text, Sound(x, i), Kept(x, i), store'[i] # <<>>
    PROVE  Sound(Stub(x), i)'
<1> DEFINE n == Least(Preview, Len(x))
           y == Stub(x)
<1>1. /\ n \in Nat /\ Len(y) = n + 2 /\ y \in Text
      /\ y[1] = Frame /\ y[n + 2] = Uri /\ \A j \in 1 .. n : y[1 + j] = x[j]
  BY StubPieces
<1>2. Len(x) \in Nat /\ Preview \in Nat /\ n <= Preview /\ n <= Len(x)
  BY NumberTypes DEF Least, Text
<1>3. Len(x) < Preview => n = Len(x)
  BY <1>2 DEF Least
<1>4. DOMAIN y = 1 .. n + 2
  BY <1>1 DEF Text
<1> HIDE DEF n, y
<1>5. Shows(y, Uri)
  BY <1>1, <1>4 DEF Shows
\* A mark of the stub is one of the text's beginning.
<1>6. ASSUME NEW k \in 1 .. n + 2, y[k] = Mark PROVE KeptIn(y, k, i)
  <2>1. k # 1 /\ k # n + 2
    BY <1>1, <1>6 DEF Mark, Frame, Uri
  <2>2. k - 1 \in 1 .. n /\ 1 + (k - 1) = k
    BY <1>1, <2>1
  <2>3. x[k - 1] = Mark
    BY <1>1, <1>6, <2>2
  <2>4. k - 1 \in 1 .. Len(x) /\ k - 1 <= Preview
    BY <1>1, <1>2, <2>2
  <2>5. KeptIn(x, k - 1, i)
    BY <2>3, <2>4 DEF Sound
  <2>6. k \in Nat /\ k - 1 \in Nat /\ 1 + (k - 1) <= k
    BY <1>1, <2>2
  <2>7. \A j \in 1 .. k - 1 : y[1 + j] = x[j]
    BY <1>1, <2>2
  <2> QED
    BY <2>5, <2>6, <2>7, Shift
<1>7. Shows(y, Mark) => Kept(y, i)
  <2> SUFFICES ASSUME NEW k \in 1 .. n + 2, y[k] = Mark PROVE KeptIn(y, n + 2, i)
    BY <1>1, <1>4 DEF Shows, Kept
  <2>1. KeptIn(y, k, i)
    BY <1>6
  <2>2. k \in Nat /\ n + 2 \in Nat /\ k <= n + 2
    BY <1>1
  <2> QED
    BY <2>1, <2>2, Longer
<1>8. Len(y) < Preview => Kept(y, i)
  <2> SUFFICES ASSUME n + 2 < Preview PROVE KeptIn(y, n + 2, i)
    BY <1>1 DEF Kept
  <2>1. n = Len(x)
    BY <1>1, <1>2 DEF n, Least
  <2>2. KeptIn(x, n, i)
    BY <2>1 DEF Kept
  <2>3. PICK m \in Nat : m = n + 2
    BY <1>1
  <2>4. 1 \in Nat /\ n \in Nat /\ 1 + n <= m
    BY <1>1, <2>3
  <2>5. \A j \in 1 .. n : y[1 + j] = x[j]
    BY <1>1
  <2>6. KeptIn(y, m, i)
    BY <2>2, <2>4, <2>5, Shift
  <2> QED
    BY <2>3, <2>6
<1> QED
  BY <1>1, <1>5, <1>6, <1>7, <1>8 DEF Sound, y

\* An open sound text, extended by a stored text that keeps the output, is
\* sound and keeps it.
LEMMA ExtendedSound ==
    ASSUME NEW i \in Results, NEW x \in Text, NEW p \in Text, Open(x), Sound(x, i), Kept(p, i),
           store'[i] # <<>>
    PROVE  Sound(Extended(x, p), i)' /\ Kept(Extended(x, p), i)
<1> DEFINE n == Least(Len(p), Cap)
           y == Extended(x, p)
<1>1. /\ n \in Nat /\ Len(y) = Len(x) + 1 + n /\ y \in Text
      /\ \A j \in 1 .. Len(x) : y[j] = x[j]
      /\ y[Len(x) + 1] = Mark
      /\ \A j \in 1 .. n : y[(Len(x) + 1) + j] = p[j]
  BY ExtendedPieces
<1>2. Len(x) \in Nat /\ Len(p) \in Nat /\ Cap \in Nat /\ Preview \in Nat
  BY NumberTypes DEF Text
<1>3. n = Cap \/ n = Len(p)
  BY DEF Least
<1>4. Len(p) > Cap => n = Cap
  BY <1>2 DEF Least
<1>5. DOMAIN y = 1 .. Len(y) /\ DOMAIN x = 1 .. Len(x)
  BY <1>1 DEF Text
<1> HIDE DEF n, y
<1>6. Kept(y, i)
  <2>1. CASE n = Cap
    BY <1>1, <1>2, <2>1 DEF Kept, KeptIn
  <2>2. CASE n = Len(p)
    <3>1. (Len(x) + 1) + n <= Len(y) /\ Len(x) + 1 \in Nat /\ Len(y) \in Nat
      BY <1>1, <1>2
    <3> QED
      BY <1>1, <2>2, <3>1, Shift DEF Kept
  <2> QED
    BY <1>3, <2>1, <2>2
<1>7. Shows(y, Uri)
  <2>1. PICK k \in 1 .. Len(x) : x[k] = Uri
    BY <1>5 DEF Open, Shows
  <2>2. k \in 1 .. Len(y) /\ y[k] = Uri
    BY <1>1, <1>2, <2>1
  <2> QED
    BY <1>5, <2>2 DEF Shows
\* Marks stand behind the open text.
<1>8. ASSUME NEW k \in 1 .. Len(y), k <= Preview, y[k] = Mark PROVE KeptIn(y, k, i)
  <2>1. k > Len(x)
    <3>1. SUFFICES ASSUME k <= Len(x) PROVE FALSE
      BY <1>1, <1>2
    <3>2. k \in DOMAIN x /\ x[k] = Mark
      BY <1>1, <1>2, <1>5, <1>8, <3>1
    <3> QED
      BY <3>2 DEF Open, Shows
  <2>2. KeptIn(x, Len(x), i)
    BY <1>2, <1>8, <2>1 DEF Sound, Open, Kept
  <2>3. k \in Nat /\ 0 + Len(x) <= k /\ \A j \in 1 .. Len(x) : y[0 + j] = x[j]
    BY <1>1, <1>2, <2>1
  <2> QED
    BY <1>2, <2>2, <2>3, Shift
<1> QED
  BY <1>6, <1>7, <1>8 DEF Sound, y

\* What step a request passes a message in, or changes the message it has
\* passed.
LEMMA PassedStep ==
    ASSUME Typed, [Next]_vars, NEW t \in Tries, NEW i \in Results,
           i \in DOMAIN work'[t], Passed(t, i)', i \notin unread'
    PROVE  /\ i \in DOMAIN work[t]
           /\ \/ Expand(t, i)
              \/ Passed(t, i) /\ work'[t][i] = work[t][i]
<1> DEFINE Goal == /\ i \in DOMAIN work[t]
                   /\ \/ Expand(t, i)
                      \/ Passed(t, i) /\ work'[t][i] = work[t][i]
<1>1. CASE work'[t] = work[t] /\ stage'[t] = stage[t] /\ at'[t] = at[t]
  BY <1>1 DEF Passed
<1>2. i \in Nat \ {0}
  BY LengthType DEF Results
<1>3. ASSUME NEW s \in Tries, Request(s) PROVE Goal
  <2>1. CASE s = t
    BY <1>2, <1>3, <2>1 DEF Request, Passed, Typed, TypeOK
  <2>2. CASE s # t
    BY <1>1, <1>3, <2>2 DEF Request, Typed, TypeOK
  <2> QED
    BY <2>1, <2>2
<1>4. ASSUME NEW s \in Tries, NEW j \in Results, NEW x \in Text, j \in DOMAIN work[s],
             work' = [work EXCEPT ![s][j] = x]
      PROVE  /\ DOMAIN work'[t] = DOMAIN work[t]
             /\ s # t \/ j # i => i \in DOMAIN work[t] /\ work'[t][i] = work[t][i]
             /\ s # t => work'[t] = work[t]
  <2>1. work \in [Tries -> Seq(Text)]
    BY DEF Typed, TypeOK, Text
  <2>2. work'[t] = IF s = t THEN [work[t] EXCEPT ![j] = x] ELSE work[t]
    BY <1>4, <2>1
  <2>3. DOMAIN work'[t] = DOMAIN work[t]
    BY <2>1, <2>2
  <2> QED
    BY <2>2, <2>3
<1>5. ASSUME NEW s \in Tries, NEW j \in Results, Expand(s, j) PROVE Goal
  <2>1. /\ j \in DOMAIN work[s] /\ stage' = stage /\ stage[s] = "expand" /\ j = at[s]
        /\ at'[t] = IF s = t THEN j + 1 ELSE at[t]
    BY <1>5 DEF Expand, Typed, TypeOK
  <2>2. /\ DOMAIN work'[t] = DOMAIN work[t]
        /\ s # t \/ j # i => work'[t][i] = work[t][i]
        /\ s # t => work'[t] = work[t]
    <3>1. CASE work' = work
      BY <3>1
    <3>2. CASE work' = [work EXCEPT ![s][j] = Extended(work[s][j], store[j])]
      <4>1. Extended(work[s][j], store[j]) \in Text
        <5>1. work[s][j] \in Text /\ store[j] \in Text
          BY <2>1 DEF Typed, TypeOK, Text
        <5> QED
          BY <5>1, TextShapes
      <4> QED
        BY <1>4, <2>1, <3>2, <4>1
    <3>3. work' = work \/ work' = [work EXCEPT ![s][j] = Extended(work[s][j], store[j])]
      BY <1>5, <2>1 DEF Expand, Typed, TypeOK
    <3> QED
      BY <3>1, <3>2, <3>3
  <2>3. CASE s = t /\ j = i
    BY <1>5, <2>1, <2>2, <2>3
  <2>4. CASE s = t /\ j # i
    <3>1. j + 1 > i /\ j \in Nat
      BY <2>1, <2>4, LengthType DEF Passed, Results
    <3>2. at[t] > i
      BY <1>2, <2>1, <2>4, <3>1
    <3> QED
      BY <2>1, <2>2, <2>4, <3>2 DEF Passed
  <2>5. CASE s # t
    BY <1>1, <2>1, <2>2, <2>5
  <2> QED
    BY <2>3, <2>4, <2>5
<1>6. ASSUME NEW s \in Tries, NEW j \in Results, PassOver(s, j) PROVE Goal
  <2>1. /\ work' = work /\ stage' = stage /\ stage[s] = "expand" /\ j = at[s] /\ j \in unread'
        /\ at'[t] = IF s = t THEN j + 1 ELSE at[t]
    BY <1>6 DEF PassOver, Typed, TypeOK
  <2>2. j # i
    BY <2>1
  <2>3. CASE s = t
    <3>1. j + 1 > i /\ j \in Nat
      BY <2>1, <2>3, LengthType DEF Passed, Results
    <3>2. at[t] > i
      BY <1>2, <2>1, <2>2, <2>3, <3>1
    <3> QED
      BY <2>1, <2>3, <3>2 DEF Passed
  <2>4. CASE s # t
    BY <1>1, <2>1, <2>4
  <2> QED
    BY <2>3, <2>4
<1>7. ASSUME NEW s \in Tries, NEW j \in Results, Mask(s, j) PROVE Goal
  <2>1. /\ j \in DOMAIN work[s] /\ stage' = stage /\ stage[s] = "mask" /\ j = at[s]
        /\ at'[t] = IF s = t THEN j + 1 ELSE at[t]
        /\ work' = [work EXCEPT ![s][j] = Stub(work[s][j])]
    BY <1>7 DEF Mask, Typed, TypeOK
  <2>2. Stub(work[s][j]) \in Text
    <3>1. work[s][j] \in Text
      BY <2>1 DEF Typed, TypeOK, Text
    <3> QED
      BY <3>1, TextShapes
  <2>3. CASE s = t
    <3>1. j + 1 <= i /\ j \in Nat
      BY <2>1, <2>3, LengthType DEF Passed, Results
    <3>2. at[t] <= i /\ j # i
      BY <1>2, <2>1, <2>3, <3>1
    <3> QED
      BY <1>4, <2>1, <2>2, <2>3, <3>2 DEF Passed
  <2>4. CASE s # t
    BY <1>1, <1>4, <2>1, <2>2, <2>4
  <2> QED
    BY <2>3, <2>4
<1>8. ASSUME NEW s \in Tries, EndLoop(s) PROVE Goal
  <2>1. work' = work
    BY <1>8 DEF EndLoop
  <2>2. CASE s = t
    <3>1. stage[t] = "expand" /\ at[t] > Len(work[t])
      BY <1>8, <2>2 DEF EndLoop, Passed, Typed, TypeOK
    <3>2. i \in 1 .. Len(work[t]) /\ Len(work[t]) \in Nat /\ at[t] \in Nat
      <4>1. i \in DOMAIN work[t] /\ work[t] \in Seq(Text)
        BY <2>1 DEF Typed, TypeOK, Text
      <4>2. at[t] \in Nat
        BY DEF Typed, TypeOK
      <4> QED
        BY <4>1, <4>2
    <3>3. at[t] > i
      BY <1>2, <3>1, <3>2
    <3> QED
      BY <2>1, <3>1, <3>3 DEF Passed
  <2>3. CASE s # t
    BY <1>1, <1>8, <2>3 DEF EndLoop, Typed, TypeOK
  <2> QED
    BY <2>2, <2>3
<1>9. ASSUME NEW s \in Tries, Close(s) PROVE Goal
  <2>1. CASE s = t
    BY <1>9, <2>1 DEF Close, Passed, Typed, TypeOK
  <2>2. CASE s # t
    BY <1>1, <1>9, <2>2 DEF Close, Typed, TypeOK
  <2> QED
    BY <2>1, <2>2
<1> QED
  BY <1>1, <1>3, <1>5, <1>6, <1>7, <1>8, <1>9
  DEF Next, ToolResult, Compile, Answer, Fail, vars

\* Every step keeps texts faithful.
LEMMA FaithfulStep == ASSUME Typed, Faithful, [Next]_vars PROVE Faithful'
<1>1. unread \subseteq unread'
  BY DEF Next, ToolResult, Request, Compile, Expand, PassOver, Mask, EndLoop, Answer, Fail,
         Close, vars
<1> SUFFICES ASSUME NEW i \in Results \ unread'
             PROVE  /\ store'[i] # <<>> => Kept(store'[i], i)
                    /\ \A x \in Text : Seen(x, i)' => Sound(x, i)'
                    /\ \A t \in Tries : i \in DOMAIN work'[t] /\ Passed(t, i)'
                                           => Kept(work'[t][i], i)
  BY DEF Faithful, Kept, KeptIn, HeldIn
<1>2. i \in Results \ unread
  BY <1>1
<1>3. store[i] \in Text /\ \A t \in Tries : i \in DOMAIN work[t] => work[t][i] \in Text
  BY DEF Typed, TypeOK, Text
<1>4. ASSUME NEW t \in Tries, i \in DOMAIN work[t] PROVE Sound(work[t][i], i)
  BY <1>2, <1>3, <1>4 DEF Faithful, Seen
<1>5. ASSUME NEW t \in Tries, Mask(t, i)
      PROVE  /\ i \in DOMAIN work[t] /\ Kept(work[t][i], i)
             /\ store'[i] = work[t][i] /\ store'[i] # <<>>
  <2>1. i \in DOMAIN work[t] /\ stage[t] = "mask" /\ at[t] = i /\ store'[i] = work[t][i]
    BY <1>5 DEF Mask, Typed, TypeOK
  <2>2. Passed(t, i)
    BY <2>1, LengthType DEF Passed, Results
  <2>3. Kept(work[t][i], i)
    BY <1>2, <2>1, <2>2 DEF Faithful
  <2> QED
    BY <1>3, <2>1, <2>3, KeptNotEmpty
<1>6. /\ store'[i] # <<>> => Kept(store'[i], i)
      /\ store[i] # <<>> => store'[i] # <<>>
  BY <1>2, <1>5, StoreStep DEF Faithful
<1>7. ASSUME NEW t \in Tries, Expand(t, i), Open(work[t][i]), store[i] # <<>>,
             NEW x, x = Extended(work[t][i], store[i])
      PROVE  Sound(x, i)' /\ Kept(x, i)
  <2>1. i \in DOMAIN work[t] /\ Kept(store[i], i) /\ store'[i] # <<>>
    BY <1>2, <1>6, <1>7 DEF Expand, Faithful
  <2>2. PICK w \in Text, p \in Text : w = work[t][i] /\ p = store[i]
    BY <1>3, <2>1
  <2>3. Sound(Extended(w, p), i)' /\ Kept(Extended(w, p), i)
    <3>1. Open(w) /\ Sound(w, i) /\ Kept(p, i)
      BY <1>4, <1>7, <2>1, <2>2
    <3> QED
      BY <2>1, <3>1, ExtendedSound
  <2> QED
    BY <1>7, <2>2, <2>3
<1>8. ASSUME NEW x \in Text, Seen(x, i)' PROVE Sound(x, i)'
  <2>1. CASE Seen(x, i)
    <3>1. Sound(x, i)
      BY <1>2, <1>8, <2>1 DEF Faithful
    <3> QED
      BY <1>6, <3>1 DEF Sound, Kept, KeptIn, HeldIn
  <2>2. CASE x = Output(i)
    <3>1. Sound(x, i)
      BY <2>2, OutputSound
    <3> QED
      BY <1>6, <3>1 DEF Sound, Kept, KeptIn, HeldIn
  <2>3. ASSUME NEW t \in Tries, Mask(t, i), x = Stub(work[t][i]) PROVE Sound(x, i)'
    <3>1. PICK w \in Text : w = work[t][i]
      BY <1>3, <1>5, <2>3
    <3>2. Sound(w, i) /\ Kept(w, i) /\ store'[i] # <<>>
      BY <1>4, <1>5, <2>3, <3>1
    <3>3. Sound(Stub(w), i)'
      BY <3>2, StubSound
    <3> QED
      BY <2>3, <3>1, <3>3
  <2>4. ASSUME NEW t \in Tries, Expand(t, i), Open(work[t][i]), store[i] # <<>>,
               x = Extended(work[t][i], store[i])
        PROVE  Sound(x, i)'
    BY <1>7, <2>4
  <2> QED
    BY <1>8, <2>1, <2>2, <2>3, <2>4, Provenance
<1>9. ASSUME NEW t \in Tries, i \in DOMAIN work'[t], Passed(t, i)'
      PROVE  Kept(work'[t][i], i)
  <2>1. CASE Passed(t, i) /\ work'[t][i] = work[t][i] /\ i \in DOMAIN work[t]
    BY <1>2, <2>1 DEF Faithful
  <2>2. CASE Expand(t, i) /\ i \in DOMAIN work[t]
    <3>1. CASE Open(work[t][i]) /\ store[i] # <<>>
      <4>1. /\ Extended(work[t][i], store[i]) \in Text
            /\ work' = [work EXCEPT ![t][i] = Extended(work[t][i], store[i])]
        BY <1>3, <2>2, <3>1, TextShapes DEF Expand, Typed, TypeOK
      <4>2. work'[t][i] = Extended(work[t][i], store[i])
        BY <2>2, <4>1, WorkEffect
      <4> QED
        BY <1>7, <2>2, <3>1, <4>2
    <3>2. CASE ~(Open(work[t][i]) /\ store[i] # <<>>)
      <4>1. work'[t][i] = work[t][i] /\ Sound(work[t][i], i)
        BY <1>4, <2>2, <3>2 DEF Expand
      <4> QED
        BY <3>2, <4>1 DEF Sound, Open, Kept, KeptIn
    <3> QED
      BY <3>1, <3>2
  <2> QED
    BY <1>9, <2>1, <2>2, PassedStep
<1> QED
  BY <1>6, <1>8, <1>9

\* Initially nothing is stored and nothing is seen.
LEMMA FaithfulStart == Init => Faithful
  BY DEF Init, Faithful, Seen

\* What a text keeps can be read in it.
LEMMA HeldHolds ==
    ASSUME NEW i \in Results, NEW x \in Text, HeldIn(x, Len(x), i)
    PROVE  Holds(x, i)
<1>1. Length[i] \in Nat \ {0} /\ Len(x) \in Nat
  BY LengthType DEF Results, Text
<1>2. PICK d \in 0 .. Len(x) : d + Length[i] <= Len(x) /\ \A j \in 1 .. Length[i] : x[d + j] = j
  BY DEF HeldIn
<1>3. d \in 0 .. Len(x) - Length[i]
  BY <1>1, <1>2
<1>4. SubSeq(x, d + 1, d + Length[i]) = Output(i)
  <2>1. /\ SubSeq(x, d + 1, d + Length[i]) \in Text
        /\ Len(SubSeq(x, d + 1, d + Length[i])) = Length[i]
        /\ \A j \in 1 .. Length[i] : SubSeq(x, d + 1, d + Length[i])[j] = x[d + j]
    BY <1>1, <1>2 DEF Text
  <2>2. /\ Output(i) \in Text /\ Len(Output(i)) = Length[i]
        /\ \A j \in 1 .. Length[i] : Output(i)[j] = j
    BY TextShapes DEF Output
  <2> QED
    BY <1>2, <2>1, <2>2, SeqEqual DEF Text
<1> QED
  BY <1>3, <1>4 DEF Holds

\* Every output can be read in its message, or behind the one reference that
\* the message mentions: however many requests overlap, and wherever one is
\* dropped, as long as no read failed and what is nested fits
\* max_bytes_per_ref (rehydrate_messages, ConsumedResultMaskTransform).
THEOREM Reaching == Spec => []Reachable
<1>1. Init => Typed /\ Faithful
  BY TypedStart, FaithfulStart
<1>2. Typed /\ Faithful /\ [Next]_vars => (Typed /\ Faithful)'
  BY TypedStep, FaithfulStep
<1>3. Typed /\ Faithful => Reachable
  <2> SUFFICES ASSUME Typed, Faithful, NEW i \in DOMAIN transcript \ unread
               PROVE  \/ Holds(transcript[i], i)
                      \/ Shows(transcript[i], Uri) /\ Holds(store[i], i)
                      \/ Len(store[i]) > Cap
    BY DEF Reachable
  <2>1. i \in Results \ unread /\ transcript[i] \in Text
    BY LengthType DEF Typed, TypeOK, Results, Text
  <2>2. Sound(transcript[i], i) /\ store[i] \in Text
    BY <2>1 DEF Faithful, Seen, Typed, TypeOK, Text
  <2>3. store[i] # <<>> => Kept(store[i], i)
    BY <2>1 DEF Faithful
  <2> QED
    BY <2>1, <2>2, <2>3, HeldHolds DEF Sound, Kept, KeptIn
<1> QED
  BY <1>1, <1>2, <1>3, PTL DEF Spec
=============================================================================
