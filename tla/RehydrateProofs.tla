--------------------------- MODULE RehydrateProofs ---------------------------
(***************************************************************************)
(* What rehydrate_messages gives its caller, for any references, payloads  *)
(* and transcripts, while other requests put.                              *)
(***************************************************************************)
EXTENDS Rehydrate, FiniteSetTheorems, TLAPS

\* The elements of a list.
Among(x, list) == \E i \in 1 .. Len(list) : list[i] = x

Changed == {i \in DOMAIN given : out[i] # given[i]}

\* A running call keeps its messages apart from those it has extended, which
\* bear the mark, and counts no reference that no message took.
Counting ==
    stage = "loading" =>
        /\ Len(out) = Len(given)
        /\ \A i \in 1 .. Len(given) : out[i] # given[i] => out[i].marked
        /\ expanded <= Cardinality(Changed)
        /\ expanded = 0 => Changed = {}

IInv == TypeOK /\ Counting
-----------------------------------------------------------------------------
\* The references of a transcript, sorted, are references, and all of them.
LEMMA FoundAll ==
    ASSUME NEW ms \in Seq(Message)
    PROVE  /\ Found(ms) \in Seq(Refs)
           /\ \A i \in 1 .. Len(ms) : \A r \in ms[i].mentions : Among(r, Found(ms))
<1> DEFINE all == UNION {ms[i].mentions : i \in DOMAIN ms}
<1>1. all \in SUBSET Refs
  <2>1. ASSUME NEW i \in DOMAIN ms PROVE ms[i].mentions \subseteq Refs
    <3>1. ms[i] \in Message
      OBVIOUS
    <3> QED
      BY <3>1 DEF Message
  <2> QED
    BY <2>1
<1>2. \A i \in 1 .. Len(ms) : ms[i].mentions \subseteq all
  OBVIOUS
<1> HIDE DEF all
<1>3. /\ InOrder[all] \in Seq(Refs)
      /\ {InOrder[all][i] : i \in 1 .. Len(InOrder[all])} = all
  BY <1>1, InOrderType, InOrderAll
<1>4. \A r \in all : Among(r, InOrder[all])
  BY <1>3 DEF Among
<1> QED
  BY <1>2, <1>3, <1>4 DEF Found, all

\* Appending a payload to a message makes a marked message of it.
LEMMA AppendedType ==
    ASSUME NEW m \in Message, NEW r \in Refs
    PROVE  Appended(m, r) \in Message /\ Appended(m, r).marked
  BY MentionedType DEF Appended, Message

\* Loading a reference extends the messages open to it, and no other.
LEMMA LoadType ==
    ASSUME NEW ms \in Seq(Message), NEW r \in Refs
    PROVE  /\ Load(ms, r) \in Seq(Message)
           /\ Len(Load(ms, r)) = Len(ms)
           /\ \A i \in 1 .. Len(ms) :
                 Load(ms, r)[i] = IF OpenTo(ms[i], r) THEN Appended(ms[i], r) ELSE ms[i]
<1>1. \A i \in 1 .. Len(ms) :
         (IF OpenTo(ms[i], r) THEN Appended(ms[i], r) ELSE ms[i]) \in Message
  BY AppendedType
<1> QED
  BY <1>1 DEF Load

\* The initial state satisfies the invariant.
LEMMA Start == Init => IInv
<1> SUFFICES ASSUME Init PROVE IInv
  OBVIOUS
<1>1. <<>> \in Seq(Message) /\ <<>> \in Seq(Refs)
  OBVIOUS
<1>2. TypeOK
  BY <1>1 DEF Init, TypeOK
<1> QED
  BY <1>2 DEF Init, IInv, Counting

\* Every step preserves the types.
LEMMA TypeStep == TypeOK /\ [Next]_vars => TypeOK'
<1> SUFFICES ASSUME TypeOK, [Next]_vars PROVE TypeOK'
  OBVIOUS
<1>1. CASE UNCHANGED vars
  BY <1>1 DEF vars, TypeOK
<1>2. ASSUME NEW m \in Shapes, Add(m) PROVE TypeOK'
  BY <1>2, ShapesType DEF Add, TypeOK
<1>3. ASSUME NEW r \in Refs, Put(r) PROVE TypeOK'
  BY <1>3 DEF Put, TypeOK
<1>4. ASSUME NEW refs \in Asked, Call(refs) PROVE TypeOK'
  <2>1. refs \in Seq(Refs) /\ Found(messages) \in Seq(Refs)
    BY AskedType, FoundAll DEF TypeOK
  <2> QED
    BY <1>4, <2>1 DEF Call, TypeOK
<1>5. CASE Skip
  BY <1>5 DEF Skip, TypeOK
<1>6. CASE Expand
  <2>1. Head(todo) \in Refs /\ Tail(todo) \in Seq(Refs)
    BY <1>6 DEF Expand, TypeOK
  <2>2. Load(out, Head(todo)) \in Seq(Message)
    BY <2>1, LoadType DEF TypeOK
  <2> QED
    BY <1>6, <2>1, <2>2 DEF Expand, TypeOK
<1>7. CASE Answer
  BY <1>7 DEF Answer, TypeOK
<1> QED
  BY <1>1, <1>2, <1>3, <1>4, <1>5, <1>6, <1>7 DEF Next, Rehydrating

\* A reference some message takes changes a message no other has changed.
LEMMA ExpandStep == ASSUME IInv, Expand PROVE Counting'
<1> DEFINE r == Head(todo)
<1>1. /\ r \in Refs /\ stage = "loading" /\ given' = given
      /\ out \in Seq(Message) /\ given \in Seq(Message) /\ Len(out) = Len(given)
      /\ out' = Load(out, r)
      /\ expanded \in Nat
  BY DEF Expand, IInv, TypeOK, Counting
<1> HIDE DEF r
<1>2. /\ Len(out') = Len(given')
      /\ \A i \in 1 .. Len(given) :
            out'[i] = IF OpenTo(out[i], r) THEN Appended(out[i], r) ELSE out[i]
  BY <1>1, LoadType
<1>3. ASSUME NEW i \in 1 .. Len(given), OpenTo(out[i], r)
      PROVE  out[i] = given[i] /\ out'[i] # given[i] /\ out'[i].marked
  <2>1. out[i] \in Message /\ ~out[i].marked
    BY <1>1, <1>3 DEF OpenTo
  <2>2. out[i] = given[i]
    BY <1>1, <2>1 DEF IInv, Counting
  <2>3. out'[i].marked
    BY <1>1, <1>2, <1>3, <2>1, AppendedType
  <2> QED
    BY <2>1, <2>2, <2>3
<1>4. ASSUME NEW i \in 1 .. Len(given), out'[i] # given[i] PROVE out'[i].marked
  BY <1>1, <1>2, <1>3, <1>4 DEF IInv, Counting
<1>5. IsFiniteSet(Changed) /\ IsFiniteSet(Changed')
  <2>1. IsFiniteSet(1 .. Len(given))
    BY <1>1, FS_Interval
  <2>2. Changed \subseteq 1 .. Len(given) /\ Changed' \subseteq 1 .. Len(given)
    BY <1>1 DEF Changed
  <2> QED
    BY <2>1, <2>2, FS_Subset
<1>6. Changed \subseteq Changed'
  BY <1>1, <1>2, <1>3 DEF Changed
<1>7. CASE \E i \in DOMAIN out : OpenTo(out[i], r)
  <2>1. PICK i \in 1 .. Len(given) : OpenTo(out[i], r)
    BY <1>1, <1>7
  <2>2. i \notin Changed /\ i \in Changed'
    BY <1>1, <1>3, <2>1 DEF Changed
  <2>3. Cardinality(Changed \cup {i}) = Cardinality(Changed) + 1
    BY <1>5, <2>2, FS_AddElement
  <2>4. Cardinality(Changed \cup {i}) <= Cardinality(Changed')
    BY <1>5, <1>6, <2>2, FS_Subset
  <2>5. expanded' = expanded + 1 /\ stage' = "loading"
    BY <1>7 DEF Expand, r
  <2>6. expanded <= Cardinality(Changed)
    BY <1>1 DEF IInv, Counting
  <2>7. /\ Cardinality(Changed) \in Nat /\ Cardinality(Changed') \in Nat
        /\ Cardinality(Changed \cup {i}) \in Nat
    BY <1>5, FS_CardinalityType, FS_AddElement
  <2>8. expanded' <= Cardinality(Changed') /\ expanded' # 0
    BY <1>1, <2>3, <2>4, <2>5, <2>6, <2>7
  <2> QED
    BY <1>1, <1>2, <1>4, <2>8 DEF Counting
<1>8. CASE ~\E i \in DOMAIN out : OpenTo(out[i], r)
  <2>1. \A i \in 1 .. Len(given) : out'[i] = out[i]
    BY <1>1, <1>2, <1>8
  <2>2. Changed' = Changed
    BY <1>1, <2>1 DEF Changed
  <2>3. expanded' = expanded /\ stage' = "loading"
    BY <1>8 DEF Expand, r
  <2> QED
    BY <1>1, <1>2, <1>4, <2>2, <2>3 DEF IInv, Counting
<1> QED
  BY <1>7, <1>8

\* The invariant holds always.
LEMMA Invariance == Spec => []IInv
<1>1. IInv /\ [Next]_vars => IInv'
  <2> SUFFICES ASSUME IInv, [Next]_vars PROVE Counting'
    BY TypeStep DEF IInv
  <2>1. CASE UNCHANGED <<stage, out, given, expanded>>
    BY <2>1 DEF IInv, Counting, Changed
  <2>2. ASSUME NEW refs \in Asked, Call(refs) PROVE Counting'
    <3>1. out' = given' /\ expanded' = 0 /\ Changed' = {}
      BY <2>2 DEF Call, Changed
    <3>2. Cardinality(Changed') = 0
      BY <3>1, FS_EmptySet
    <3> QED
      BY <3>1, <3>2 DEF Counting
  <2>3. CASE Expand
    BY <2>3, ExpandStep
  <2>4. CASE Answer
    BY <2>4 DEF Answer, Counting
  <2> QED
    BY <2>1, <2>2, <2>3, <2>4 DEF Next, Rehydrating, Add, Put, Skip, vars
<1> QED
  BY Start, <1>1, PTL DEF Spec

\* Messages, references and counts keep their types, for any references,
\* payloads and lists of references asked for.
THEOREM TypeCorrect == Spec => []TypeOK
<1>1. IInv => TypeOK
  BY DEF IInv
<1> QED
  BY Invariance, <1>1, PTL

\* refs_expanded is no more than the messages that changed, and zero only if
\* none did (rehydrate_messages, `replaced`).
THEOREM Honest == Spec => []CountHonest
<1>1. IInv => CountHonest
  BY DEF IInv, Counting, CountHonest, Changed
<1> QED
  BY Invariance, <1>1, PTL
-----------------------------------------------------------------------------
(* What expanding everything reaches, when no URI is a part of another.    *)

\* A text nobody has extended yet still awaits each of its references that was
\* stored; one that mentions a single one is extended with nothing else.
Awaiting ==
    stage = "loading" /\ everything =>
        /\ had \subseteq stored
        /\ \A i \in 1 .. Len(given) :
              /\ out[i].kind = given[i].kind
              /\ given[i].kind = "text" /\ ~out[i].marked =>
                    \A r \in had \cap given[i].mentions : Among(r, todo)
              /\ \A r \in had \ Long :
                    given[i].kind = "text" /\ ~given[i].marked /\ given[i].mentions = {r} =>
                        out[i] = given[i] \/ r \in out[i].holds

\* What is among the rest of a list is not lost when the head is taken.
LEMMA RestKeeps ==
    ASSUME NEW S, NEW list \in Seq(S), list # <<>>, NEW x, Among(x, list), Head(list) # x
    PROVE  Among(x, Tail(list))
<1>1. PICK i \in 1 .. Len(list) : list[i] = x
  BY DEF Among
<1>2. i # 1 /\ i - 1 \in 1 .. Len(Tail(list)) /\ Tail(list)[i - 1] = x
  BY <1>1
<1> QED
  BY <1>2 DEF Among

\* A payload that is there reaches the texts that await it.
LEMMA ExpandAwaits == ASSUME IInv, Inside = {}, Awaiting, Expand PROVE Awaiting'
<1> SUFFICES ASSUME everything PROVE Awaiting'
  BY DEF Awaiting, Expand
<1> DEFINE q == Head(todo)
<1>1. /\ q \in Refs /\ stage = "loading" /\ todo \in Seq(Refs) /\ todo # <<>>
      /\ out \in Seq(Message) /\ given \in Seq(Message) /\ Len(out) = Len(given)
      /\ out' = Load(out, q) /\ todo' = Tail(todo)
      /\ UNCHANGED <<stored, had, given, everything, stage>>
  BY DEF Expand, IInv, TypeOK, Counting
<1> HIDE DEF q
<1>2. \A i \in 1 .. Len(given) :
         out'[i] = IF OpenTo(out[i], q) THEN Appended(out[i], q) ELSE out[i]
  BY <1>1, LoadType
<1>3. ASSUME NEW i \in 1 .. Len(given)
      PROVE  /\ out'[i].kind = given[i].kind
             /\ given[i].kind = "text" /\ ~out'[i].marked =>
                   \A r \in had \cap given[i].mentions : Among(r, todo')
             /\ \A r \in had \ Long :
                   given[i].kind = "text" /\ ~given[i].marked /\ given[i].mentions = {r} =>
                       out'[i] = given[i] \/ r \in out'[i].holds
  <2>1. /\ out[i] \in Message /\ out[i].kind = given[i].kind
        /\ out[i] = given[i] \/ out[i].marked
    BY <1>1 DEF Awaiting, IInv, Counting
  <2>2. CASE OpenTo(out[i], q)
    <3>1. out'[i] = Appended(out[i], q) /\ out'[i].marked
      BY <1>1, <1>2, <2>1, <2>2, AppendedType
    <3>2. out[i] = given[i] /\ q \in given[i].mentions
      BY <2>1, <2>2 DEF OpenTo, Contains
    <3>3. /\ out'[i].kind = out[i].kind
          /\ q \notin Long => q \in out'[i].holds
      BY <2>1, <3>1 DEF Appended, Message
    <3> QED
      BY <2>1, <3>1, <3>2, <3>3
  <2>3. CASE ~OpenTo(out[i], q)
    <3>1. out'[i] = out[i]
      BY <1>2, <2>3
    <3>2. ASSUME given[i].kind = "text", ~out[i].marked, NEW r \in had \cap given[i].mentions
          PROVE  Among(r, todo')
      <4>1. r # q
        BY <2>1, <2>3, <3>2 DEF OpenTo, Contains
      <4>2. Among(r, todo)
        BY <1>1, <3>2 DEF Awaiting
      <4>3. Head(todo) # r
        BY <4>1 DEF q
      <4> QED
        BY <1>1, <4>2, <4>3, RestKeeps
    <3>3. \A r \in had \ Long :
             given[i].kind = "text" /\ ~given[i].marked /\ given[i].mentions = {r} =>
                 out[i] = given[i] \/ r \in out[i].holds
      BY <1>1 DEF Awaiting
    <3> QED
      BY <2>1, <3>1, <3>2, <3>3
  <2> QED
    BY <2>2, <2>3
<1> QED
  BY <1>1, <1>3 DEF Awaiting

\* Without references inside one another every text gets what it awaits.
LEMMA AwaitInvariance == ASSUME Inside = {} PROVE Spec => [](IInv /\ Awaiting)
<1>1. Init => Awaiting
  BY DEF Init, Awaiting
<1>2. IInv /\ Awaiting /\ [Next]_vars => Awaiting'
  <2> SUFFICES ASSUME IInv, Awaiting, [Next]_vars PROVE Awaiting'
    OBVIOUS
  <2>1. CASE UNCHANGED vars
    BY <2>1 DEF vars, Awaiting, Among
  <2>2. ASSUME NEW m \in Shapes, Add(m) PROVE Awaiting'
    BY <2>2 DEF Add, Awaiting
  <2>3. ASSUME NEW r \in Refs, Put(r) PROVE Awaiting'
    BY <2>3 DEF Put, Awaiting, Among
  <2>4. ASSUME NEW refs \in Asked, Call(refs) PROVE Awaiting'
    <3> SUFFICES ASSUME everything' PROVE Awaiting'
      BY DEF Awaiting
    <3>1. /\ todo' = Found(messages) /\ out' = messages /\ given' = messages
          /\ had' = stored /\ stored' = stored
      BY <2>4 DEF Call
    <3>2. \A i \in 1 .. Len(messages) : \A r \in messages[i].mentions : Among(r, Found(messages))
      BY FoundAll DEF IInv, TypeOK
    <3> QED
      BY <3>1, <3>2 DEF Awaiting, Among
  <2>5. CASE Skip
    <3> SUFFICES ASSUME everything PROVE Awaiting'
      BY <2>5 DEF Awaiting, Skip
    <3>1. /\ stage = "loading" /\ todo # <<>> /\ todo \in Seq(Refs) /\ todo' = Tail(todo)
          /\ Head(todo) \notin had
          /\ UNCHANGED <<stored, stage, out, everything, had, given>>
      BY <2>5 DEF Skip, IInv, TypeOK, Awaiting
    <3>2. \A r \in had : Among(r, todo) => Among(r, todo')
      BY <3>1, RestKeeps
    <3> QED
      BY <3>1, <3>2 DEF Awaiting
  <2>6. CASE Expand
    BY <2>6, ExpandAwaits
  <2>7. CASE Answer
    BY <2>7 DEF Answer, Awaiting
  <2> QED
    BY <2>1, <2>2, <2>3, <2>4, <2>5, <2>6, <2>7 DEF Next, Rehydrating
<1> QED
  BY <1>1, <1>2, Invariance, PTL DEF Spec

\* When no URI is a part of another, expanding everything serves each text
\* that mentions a single stored reference (rehydrate_messages).
THEOREM Served == ASSUME Inside = {} PROVE Spec => []SoleRefServed
<1>1. IInv /\ Awaiting => SoleRefServed
  <2> SUFFICES ASSUME IInv, Awaiting, Answered, everything,
                      NEW i \in DOMAIN given, NEW r \in had \ Long,
                      given[i].kind = "text", ~given[i].marked, given[i].mentions = {r}
               PROVE  r \in out[i].holds
    BY DEF SoleRefServed
  <2>1. i \in 1 .. Len(given) /\ stage = "loading" /\ ~Among(r, todo)
    BY DEF IInv, TypeOK, Answered, Among
  <2>2. out[i].marked
    BY <2>1 DEF Awaiting
  <2> QED
    BY <2>1, <2>2 DEF Awaiting
<1> QED
  BY <1>1, AwaitInvariance, PTL

\* When no URI is a part of another, expanding everything a second time
\* changes nothing (rehydrate_messages, the mark).
THEOREM SettledOnce == ASSUME Inside = {} PROVE Spec => []Settled
<1>1. IInv /\ Awaiting => Settled
  <2> SUFFICES ASSUME IInv, Awaiting, Answered, everything, stored = had, NEW r \in stored
               PROVE  Load(out, r) = out
    BY DEF Settled
  <2>1. /\ out \in Seq(Message) /\ Len(out) = Len(given) /\ stage = "loading" /\ r \in Refs
        /\ ~Among(r, todo)
    BY DEF IInv, TypeOK, Counting, Answered, Among
  <2>2. ASSUME NEW i \in 1 .. Len(out) PROVE ~OpenTo(out[i], r)
    <3> SUFFICES ASSUME OpenTo(out[i], r) PROVE FALSE
      OBVIOUS
    <3>1. ~out[i].marked /\ out[i].kind = "text" /\ r \in out[i].mentions
      BY DEF OpenTo, Contains
    <3>2. out[i] = given[i]
      BY <2>1, <3>1 DEF IInv, Counting
    <3> QED
      BY <2>1, <3>1, <3>2 DEF Awaiting
  <2>3. /\ Load(out, r) \in Seq(Message) /\ Len(Load(out, r)) = Len(out)
        /\ \A i \in 1 .. Len(out) : Load(out, r)[i] = out[i]
    BY <2>1, <2>2, LoadType
  <2> QED
    BY <2>1, <2>3
<1> QED
  BY <1>1, AwaitInvariance, PTL
=============================================================================
