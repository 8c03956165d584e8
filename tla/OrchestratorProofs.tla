-------------------------- MODULE OrchestratorProofs --------------------------
(***************************************************************************)
(* What agents of Orchestrator can recover, for any number of agents and   *)
(* any outputs, windows and transcripts.                                   *)
(***************************************************************************)
EXTENDS Orchestrator, SequenceTheorems, WellFoundedInduction, TLAPS

\* What an agent's session holds is the output, or a stub of the shared copy.
TrueContent(c, a, i) ==
    /\ i <= Len(transcript[a])
    /\ c.output = transcript[a][i]
    /\ c.form \in {"raw", "shared"}
    /\ c.form = "shared" => c.output \in pool

ColdTrue == \A a \in Agent : \A i \in 1 .. MaxLen :
               cold[a][i] # Missing => TrueContent(cold[a][i], a, i)

\* The round keeps every message, and masks a result only after putting it.
WorkTrue == stage # "idle" =>
    \A a \in Agent :
        /\ Len(working[a]) = Len(transcript[a])
        /\ \A i \in 1 .. Len(transcript[a]) :
              /\ working[a][i].output = transcript[a][i]
              /\ Reaches(working[a][i], a, i)

\* What the running loops have not come to yet is not masked.
Unmasked ==
    /\ stage = "dedup" =>
          \A a \in Agent : \A i \in 1 .. Len(transcript[a]) : working[a][i].form # "masked"
    /\ stage = "compile" =>
          \A a \in Agent : \A i \in 1 .. Len(transcript[a]) :
              a > turn \/ (a = turn /\ i >= at) => working[a][i].form # "masked"

\* The duplicates the second pass has passed are in the shared session.
Pooled ==
    /\ stage = "dedup" =>
          /\ dedup
          /\ put \subseteq pool
          /\ \A a \in Agent : \A i \in 1 .. Len(transcript[a]) :
                a < turn \/ (a = turn /\ i < at) => (Duplicate(a, i) => transcript[a][i] \in pool)
    /\ stage = "compile" /\ dedup =>
          \A a \in Agent : \A i \in 1 .. Len(transcript[a]) :
              Duplicate(a, i) => transcript[a][i] \in pool

ViewTrue == /\ \A a \in Agent : Len(view[a]) <= Len(transcript[a])
            /\ Recoverable

IInv == TypeOK /\ ColdTrue /\ WorkTrue /\ Unmasked /\ Pooled /\ ViewTrue
-----------------------------------------------------------------------------
(* Shapes of the values the actions build.                                 *)

\* Contents and lists of contents.
LEMMA Shapes ==
    /\ \A m \in Outputs \cup {Said} : Raw(m) \in Content
    /\ \A ms \in Seq(Outputs \cup {Said}) :
          AsContents(ms) \in Seq(Content) /\ Len(AsContents(ms)) = Len(ms)
<1>1. \A m \in Outputs \cup {Said} : Raw(m) \in Content
  BY DEF Raw, Content
<1>2. ASSUME NEW ms \in Seq(Outputs \cup {Said})
      PROVE  AsContents(ms) \in Seq(Content) /\ Len(AsContents(ms)) = Len(ms)
  <2>1. \A i \in 1 .. Len(ms) : Raw(ms[i]) \in Content
    BY <1>1
  <2> QED
    BY <2>1 DEF AsContents
<1> QED
  BY <1>1, <1>2

\* What a compile starts from is one content per message.
LEMMA DedupedShape ==
    ASSUME TypeOK, NEW a \in Agent
    PROVE  Deduped(a) \in Seq(Content) /\ Len(Deduped(a)) = Len(transcript[a])
<1>1. \A i \in 1 .. Len(transcript[a]) :
         [form |-> IF dedup /\ Duplicate(a, i) THEN "shared" ELSE "raw",
          output |-> transcript[a][i]] \in Content
  BY DEF TypeOK, Content
<1> QED
  BY <1>1 DEF Deduped, TypeOK

\* Replacing one content changes its form and nothing else.
LEMMA ReplaceEffect ==
    ASSUME TypeOK, turn \in Agent, NEW i \in 1 .. Len(working[turn]),
           NEW form \in {"raw", "shared", "masked"}, Replace(i, form)
    PROVE  /\ working' \in [Agent -> Seq(Content)]
           /\ \A a \in Agent : Len(working'[a]) = Len(working[a])
           /\ \A a \in Agent : \A j \in 1 .. Len(working[a]) :
                /\ working'[a][j].output = working[a][j].output
                /\ ~(a = turn /\ j = i) => working'[a][j] = working[a][j]
           /\ working'[turn][i].form = form
           /\ at' = i + 1 /\ at' \in Nat \ {0}
<1> DEFINE c == [working[turn][i] EXCEPT !.form = form]
<1>1. working[turn] \in Seq(Content) /\ working[turn][i] \in Content
  BY DEF TypeOK
<1>2. c \in Content /\ c.form = form /\ c.output = working[turn][i].output
  BY <1>1 DEF Content
<1> HIDE DEF c
<1>3. /\ [working[turn] EXCEPT ![i] = c] \in Seq(Content)
      /\ Len([working[turn] EXCEPT ![i] = c]) = Len(working[turn])
  BY <1>1, <1>2, ExceptSeq
<1>4. working' = [working EXCEPT ![turn] = [working[turn] EXCEPT ![i] = c]]
  BY DEF Replace, c
<1>5. at' = i + 1 /\ i \in Nat
  BY DEF Replace
<1>6. \A a \in Agent : working'[a] = IF a = turn THEN [working[turn] EXCEPT ![i] = c] ELSE working[a]
  BY <1>4 DEF TypeOK
<1>7. \A j \in 1 .. Len(working[turn]) :
         [working[turn] EXCEPT ![i] = c][j] = IF j = i THEN c ELSE working[turn][j]
  BY <1>1
<1>8. working' \in [Agent -> Seq(Content)]
  BY <1>3, <1>4 DEF TypeOK
<1> QED
  BY <1>2, <1>3, <1>5, <1>6, <1>7, <1>8

-----------------------------------------------------------------------------
(* Type correctness.                                                       *)

\* The initial state satisfies the invariant.
LEMMA Start == Init => IInv
<1> SUFFICES ASSUME Init PROVE IInv
  OBVIOUS
<1>1. \A a \in Agent : transcript[a] \in Seq(Outputs \cup {Said}) /\ Len(transcript[a]) <= MaxLen
  <2>1. \A a \in Agent : transcript[a] = <<>> \/ transcript[a] = <<Said>>
    BY DEF Init
  <2>2. Said \in Outputs \cup {Said} /\ <<>> \in Seq(Outputs \cup {Said})
    OBVIOUS
  <2>3. <<Said>> \in Seq(Outputs \cup {Said}) /\ Len(<<Said>>) = 1 /\ Len(<<>>) = 0
    OBVIOUS
  <2>4. 1 <= MaxLen /\ 0 <= MaxLen
    BY NumberTypes
  <2> QED
    BY <2>1, <2>2, <2>3, <2>4
<1>2. TypeOK
  <2>1. transcript \in [Agent -> Seq(Outputs \cup {Said})]
    BY <1>1 DEF Init
  <2>2. turn \in 1 .. Agents + 1
    BY AgentsType DEF Init
  <2>3. [a \in Agent |-> <<>>] \in [Agent -> Seq(Content)]
    OBVIOUS
  <2>4. cold \in [Agent -> [1 .. MaxLen -> Content \cup {Missing}]]
    BY DEF Init
  <2>5. view \in [Agent -> Seq(Content)] /\ working \in [Agent -> Seq(Content)]
    BY <2>3 DEF Init
  <2>6. /\ stage = "idle" /\ at = 1 /\ outcome = "none"
        /\ pool = {} /\ put = {} /\ lacking = {}
    BY DEF Init
  <2>7. dedup \in BOOLEAN
    BY DEF Init
  <2>8. /\ stage \in {"idle", "dedup", "compile"}
        /\ at \in Nat \ {0} /\ outcome \in {"none", "answered", "store", "agent"}
        /\ pool \subseteq Big /\ put \subseteq Big /\ lacking \subseteq Agent
    BY <2>6
  <2> QED
    BY <1>1, <2>1, <2>2, <2>4, <2>5, <2>7, <2>8 DEF TypeOK
<1> QED
  BY <1>1, <1>2
  DEF IInv, Init, ColdTrue, WorkTrue, Unmasked, Pooled, ViewTrue, Recoverable

\* Every step preserves the type invariant.
LEMMA TypeStep == TypeOK /\ [Next]_vars => TypeOK'
<1> SUFFICES ASSUME TypeOK, [Next]_vars PROVE TypeOK'
  OBVIOUS
<1> USE AgentsType, NumberTypes DEF Agent
<1>1. CASE UNCHANGED vars
  BY <1>1 DEF vars, round, TypeOK
<1>2. ASSUME NEW a \in Agent, NEW m \in Outputs \cup {Said}, Grow(a, m) PROVE TypeOK'
  <2>1. /\ Append(transcript[a], m) \in Seq(Outputs \cup {Said})
        /\ Len(Append(transcript[a], m)) <= MaxLen
    BY <1>2 DEF Grow, TypeOK
  <2> QED
    BY <1>2, <2>1 DEF Grow, round, TypeOK
<1>3. ASSUME NEW a \in Agent, NEW i \in 1 .. Len(transcript[a]), MaskAlone(a, i) PROVE TypeOK'
  <2>1. Raw(transcript[a][i]) \in Content
    BY Shapes DEF TypeOK
  <2> QED
    BY <1>3, <2>1 DEF MaskAlone, round, TypeOK
<1>4. ASSUME NEW d \in BOOLEAN, Begin(d) PROVE TypeOK'
  BY <1>4, Shapes DEF Begin, TypeOK
<1>5. ASSUME NEW i \in 1 .. MaxLen, Share(i) PROVE TypeOK'
  <2>1. turn \in Agent /\ i \in 1 .. Len(working[turn])
    BY <1>5 DEF Share, Upcoming, TypeOK
  <2>2. transcript[turn][i] \in Big
    BY <1>5 DEF Share, Upcoming, Eligible, Duplicate
  <2>3. working' \in [Agent -> Seq(Content)] /\ at' \in Nat \ {0}
    BY <1>5, <2>1, ReplaceEffect DEF Share
  <2> QED
    BY <1>5, <2>2, <2>3 DEF Share, TypeOK
<1>6. ASSUME NEW i \in 1 .. MaxLen, Mask(i) PROVE TypeOK'
  <2>1. turn \in Agent /\ i \in 1 .. Len(working[turn])
    BY <1>6 DEF Mask, Upcoming, TypeOK
  <2>2. working[turn][i] \in Content
    BY <2>1 DEF TypeOK
  <2>3. working' \in [Agent -> Seq(Content)] /\ at' \in Nat \ {0}
    BY <1>6, <2>1, ReplaceEffect DEF Mask
  <2> QED
    BY <1>6, <2>1, <2>2, <2>3 DEF Mask, TypeOK
<1>7. CASE DedupNext
  BY <1>7 DEF DedupNext, TypeOK
<1>8. ASSUME NEW enough \in BOOLEAN, CompileNext(enough) PROVE TypeOK'
  <2>1. turn \in Agent /\ Deduped(turn) \in Seq(Content)
    BY <1>8, DedupedShape DEF CompileNext, TypeOK
  <2> QED
    BY <1>8, <2>1 DEF CompileNext, TypeOK
<1>9. CASE Answer
  BY <1>9 DEF Answer, TypeOK
<1>10. CASE PutFails
  BY <1>10 DEF PutFails, Stop, TypeOK
<1>11. CASE AgentFails
  <2>1. Stop("agent")
    BY <1>11 DEF AgentFails
  <2> QED
    BY <2>1 DEF Stop, TypeOK
<1>12. CASE Round
  BY <1>5, <1>6, <1>7, <1>8, <1>9, <1>10, <1>11, <1>12 DEF Round
<1> HIDE DEF Agent
<1>13. CASE Next
  BY <1>2, <1>3, <1>4, <1>12, <1>13 DEF Next
<1> QED
  BY <1>1, <1>13

-----------------------------------------------------------------------------
(* Recoverability.                                                         *)

\* What a content reaches it still reaches when transcripts only grow, the
\* shared session only gains, and the agent's session stays true.
LEMMA ReachesStays ==
    ASSUME TypeOK, ColdTrue', pool \subseteq pool',
           NEW a \in Agent, NEW i \in 1 .. MaxLen, NEW c \in Content,
           cold'[a][i] = cold[a][i] \/ cold'[a][i] # Missing,
           c.form = "masked" => transcript'[a][i] = c.output,
           Reaches(c, a, i)
    PROVE  Reaches(c, a, i)'
<1>1. CASE c.form # "masked"
  BY <1>1 DEF Reaches
<1>2. CASE c.form = "masked"
  <2>1. cold[a][i].form \in {"raw", "shared"}
    BY <1>2 DEF Reaches
  <2>2. cold'[a][i] # Missing
    BY <2>1 DEF Missing
  <2>3. TrueContent(cold[a][i], a, i)'
    BY <2>2 DEF ColdTrue
  <2> QED
    BY <1>2, <2>3 DEF TrueContent, Reaches
<1> QED
  BY <1>1, <1>2

\* Transcripts only grow, and the shared session only gains.
LEMMA Growing ==
    ASSUME TypeOK, [Next]_vars
    PROVE  /\ pool \subseteq pool'
           /\ \A a \in Agent :
                /\ Len(transcript[a]) <= Len(transcript'[a])
                /\ \A i \in 1 .. Len(transcript[a]) : transcript'[a][i] = transcript[a][i]
<1>1. ASSUME NEW a \in Agent, NEW m \in Outputs \cup {Said}, Grow(a, m)
      PROVE  /\ pool' = pool
             /\ \A b \in Agent :
                  /\ Len(transcript[b]) <= Len(transcript'[b])
                  /\ \A i \in 1 .. Len(transcript[b]) : transcript'[b][i] = transcript[b][i]
  <2>1. transcript[a] \in Seq(Outputs \cup {Said})
    BY DEF TypeOK
  <2>2. /\ Len(Append(transcript[a], m)) = Len(transcript[a]) + 1
        /\ \A i \in 1 .. Len(transcript[a]) : Append(transcript[a], m)[i] = transcript[a][i]
    BY <2>1
  <2>3. \A b \in Agent : transcript'[b] = IF b = a THEN Append(transcript[a], m) ELSE transcript[b]
    BY <1>1 DEF Grow, TypeOK
  <2>4. \A b \in Agent : Len(transcript[b]) \in Nat
    BY DEF TypeOK
  <2> QED
    BY <1>1, <2>2, <2>3, <2>4 DEF Grow
<1>2. CASE UNCHANGED <<transcript, pool>>
  BY <1>2 DEF TypeOK
<1>3. ASSUME NEW i \in 1 .. MaxLen, Share(i)
      PROVE  pool \subseteq pool' /\ UNCHANGED transcript
  BY <1>3 DEF Share
<1>4. ASSUME transcript' = transcript, pool \subseteq pool'
      PROVE  \A b \in Agent :
                  /\ Len(transcript[b]) <= Len(transcript'[b])
                  /\ \A i \in 1 .. Len(transcript[b]) : transcript'[b][i] = transcript[b][i]
  BY <1>4 DEF TypeOK
<1>5. CASE UNCHANGED vars
  BY <1>2, <1>5 DEF vars
<1>6. CASE Round
  <2>1. ASSUME NEW i \in 1 .. MaxLen, Mask(i) PROVE UNCHANGED <<transcript, pool>>
    BY <2>1 DEF Mask
  <2>2. CASE DedupNext
    BY <1>2, <2>2 DEF DedupNext
  <2>3. ASSUME NEW enough \in BOOLEAN, CompileNext(enough) PROVE UNCHANGED <<transcript, pool>>
    BY <2>3 DEF CompileNext
  <2>4. CASE Answer
    BY <1>2, <2>4 DEF Answer
  <2>5. CASE PutFails
    BY <1>2, <2>5 DEF PutFails, Stop
  <2>6. CASE AgentFails
    BY <1>2, <2>6 DEF AgentFails, Stop
  <2> QED
    BY <1>2, <1>3, <1>4, <1>6, <2>1, <2>2, <2>3, <2>4, <2>5, <2>6 DEF Round
<1>7. ASSUME NEW a \in Agent, NEW i \in 1 .. Len(transcript[a]), MaskAlone(a, i)
      PROVE  UNCHANGED <<transcript, pool>>
  BY <1>7 DEF MaskAlone
<1>8. ASSUME NEW d \in BOOLEAN, Begin(d) PROVE UNCHANGED <<transcript, pool>>
  BY <1>8 DEF Begin
<1> QED
  BY <1>1, <1>2, <1>5, <1>6, <1>7, <1>8 DEF Next

\* What an agent's session holds stays true, and is never taken away.
LEMMA ColdStep ==
    ASSUME IInv, [Next]_vars
    PROVE  /\ ColdTrue'
           /\ \A a \in Agent : \A i \in 1 .. MaxLen :
                 cold'[a][i] = cold[a][i] \/ cold'[a][i] # Missing
<1> DEFINE Kept(a, i) == cold'[a][i] = cold[a][i]
                         \/ (cold'[a][i] # Missing /\ TrueContent(cold'[a][i], a, i))
<1>1. \A a \in Agent : \A i \in 1 .. MaxLen : Kept(a, i)
  <2>1. ASSUME NEW a \in Agent, NEW i \in 1 .. Len(transcript[a]), MaskAlone(a, i)
        PROVE  \A b \in Agent : \A j \in 1 .. MaxLen : Kept(b, j)
    <3>1. i \in 1 .. MaxLen
      BY NumberTypes DEF IInv, TypeOK
    <3>2. \A b \in Agent : \A j \in 1 .. MaxLen :
             cold'[b][j] = IF b = a /\ j = i THEN Raw(transcript[a][i]) ELSE cold[b][j]
      BY <2>1, <3>1 DEF MaskAlone, IInv, TypeOK
    <3>3. /\ Raw(transcript[a][i]) # Missing
          /\ TrueContent(Raw(transcript[a][i]), a, i)
      BY DEF Raw, Missing, TrueContent
    <3> QED
      BY <3>2, <3>3
  <2>2. ASSUME NEW i \in 1 .. MaxLen, Mask(i)
        PROVE  \A b \in Agent : \A j \in 1 .. MaxLen : Kept(b, j)
    <3>1. turn \in Agent /\ i \in 1 .. Len(working[turn]) /\ i >= at /\ stage = "compile"
      BY <2>2, AgentsType DEF Mask, Upcoming, IInv, TypeOK, Agent
    <3>2. \A b \in Agent : \A j \in 1 .. MaxLen :
             cold'[b][j] = IF b = turn /\ j = i THEN working[turn][i] ELSE cold[b][j]
      BY <2>2, <3>1 DEF Mask, IInv, TypeOK
    <3>3. /\ i \in 1 .. Len(transcript[turn])
          /\ working[turn][i].output = transcript[turn][i]
          /\ Reaches(working[turn][i], turn, i)
          /\ working[turn][i].form # "masked"
      BY <3>1 DEF IInv, WorkTrue, Unmasked
    <3>4. TrueContent(working[turn][i], turn, i)
      BY <3>3 DEF TrueContent, Reaches
    <3>5. working[turn][i] # Missing
      BY <3>4 DEF TrueContent, Missing
    <3> QED
      BY <3>2, <3>4, <3>5
  <2>3. CASE UNCHANGED cold
    BY <2>3
  <2>4. CASE UNCHANGED vars
    BY <2>3, <2>4 DEF vars
  <2>5. ASSUME NEW a \in Agent, NEW m \in Outputs \cup {Said}, Grow(a, m) PROVE UNCHANGED cold
    BY <2>5 DEF Grow
  <2>6. ASSUME NEW d \in BOOLEAN, Begin(d) PROVE UNCHANGED cold
    BY <2>6 DEF Begin
  <2>7. ASSUME NEW i \in 1 .. MaxLen, Share(i) PROVE UNCHANGED cold
    BY <2>7 DEF Share
  <2>8. CASE DedupNext \/ Answer \/ PutFails \/ AgentFails
    BY <2>3, <2>8 DEF DedupNext, Answer, PutFails, AgentFails, Stop
  <2>9. ASSUME NEW enough \in BOOLEAN, CompileNext(enough) PROVE UNCHANGED cold
    BY <2>9 DEF CompileNext
  <2>10. CASE Round
    BY <2>2, <2>3, <2>7, <2>8, <2>9, <2>10 DEF Round
  <2> QED
    BY <2>1, <2>3, <2>4, <2>5, <2>6, <2>10 DEF Next
<1>2. ASSUME NEW a \in Agent, NEW i \in 1 .. MaxLen, cold'[a][i] # Missing
      PROVE  TrueContent(cold[a][i], a, i)'
  <2>1. TrueContent(cold'[a][i], a, i)
    BY <1>1, <1>2 DEF IInv, ColdTrue
  <2>2. i <= Len(transcript'[a]) /\ transcript'[a][i] = transcript[a][i] /\ pool \subseteq pool'
    <3>1. i \in 1 .. Len(transcript[a]) /\ Len(transcript[a]) \in Nat
      BY <2>1 DEF TrueContent, IInv, TypeOK
    <3>2. TypeOK'
      BY TypeStep DEF IInv
    <3>3. Len(transcript'[a]) \in Nat
      BY <3>2 DEF TypeOK
    <3> QED
      BY <3>1, <3>3, Growing DEF IInv
  <2> QED
    BY <2>1, <2>2 DEF TrueContent
<1> QED
  BY <1>1, <1>2 DEF ColdTrue

\* What an agent reaches from a content of its messages it goes on reaching.
LEMMA Still ==
    ASSUME IInv, [Next]_vars, NEW a \in Agent, NEW i \in 1 .. Len(transcript[a]),
           NEW c \in Content, c.output = transcript[a][i], Reaches(c, a, i)
    PROVE  Reaches(c, a, i)'
<1>1. i \in 1 .. MaxLen
  BY NumberTypes DEF IInv, TypeOK
<1>2. transcript'[a][i] = c.output /\ pool \subseteq pool'
  BY Growing DEF IInv
<1> QED
  BY <1>1, <1>2, ColdStep, ReachesStays DEF IInv

\* Every step preserves what is known of the contents of the running round.
LEMMA WorkStep == ASSUME IInv, [Next]_vars PROVE WorkTrue'
<1> DEFINE Good(a) ==
        /\ Len(working'[a]) = Len(transcript[a])
        /\ \A i \in 1 .. Len(transcript[a]) :
              /\ working'[a][i].output = transcript[a][i]
              /\ \A c \in Content : c = working'[a][i] => Reaches(c, a, i)'
<1>0. TypeOK'
  BY TypeStep DEF IInv
<1>1. ASSUME transcript' = transcript, \A a \in Agent : Good(a)
      PROVE  WorkTrue'
  <2> SUFFICES ASSUME NEW a \in Agent, NEW i \in 1 .. Len(transcript[a])
               PROVE  Reaches(working[a][i], a, i)'
    BY <1>1 DEF WorkTrue
  <2>1. working'[a][i] \in Content
    BY <1>0, <1>1 DEF TypeOK
  <2>2. \A c \in Content : c = working'[a][i] => Reaches(c, a, i)'
    BY <1>1
  <2> QED
    BY <2>1, <2>2 DEF Reaches
<1>2. ASSUME stage # "idle", NEW a \in Agent, working'[a] = working[a]
      PROVE  Good(a)
  BY <1>2, Still DEF IInv, WorkTrue
<1>3. ASSUME stage # "idle", UNCHANGED <<working, transcript>> PROVE WorkTrue'
  BY <1>1, <1>2, <1>3
<1>4. ASSUME stage = "idle", stage' = stage PROVE WorkTrue'
  BY <1>4 DEF WorkTrue
<1>5. CASE UNCHANGED vars
  BY <1>3, <1>4, <1>5 DEF vars, round
<1>6. ASSUME NEW a \in Agent, NEW m \in Outputs \cup {Said}, Grow(a, m) PROVE WorkTrue'
  BY <1>4, <1>6 DEF Grow, round
<1>7. ASSUME NEW a \in Agent, NEW i \in 1 .. Len(transcript[a]), MaskAlone(a, i) PROVE WorkTrue'
  BY <1>3, <1>4, <1>7 DEF MaskAlone, round
<1>8. ASSUME NEW d \in BOOLEAN, Begin(d) PROVE WorkTrue'
  <2>1. \A a \in Agent : Good(a)
    <3>1. \A a \in Agent : working'[a] = AsContents(transcript[a])
      BY <1>8 DEF Begin
    <3>2. \A a \in Agent : Len(AsContents(transcript[a])) = Len(transcript[a])
      BY Shapes DEF IInv, TypeOK
    <3>3. \A a \in Agent : \A i \in 1 .. Len(transcript[a]) : working'[a][i] = Raw(transcript[a][i])
      BY <3>1 DEF AsContents
    <3>4. ASSUME NEW a \in Agent, NEW i \in 1 .. Len(transcript[a])
          PROVE  /\ working'[a][i].output = transcript[a][i]
                 /\ \A c \in Content : c = working'[a][i] => Reaches(c, a, i)'
      <4>0. working'[a][i] = Raw(transcript[a][i])
        BY <3>3
      <4>1. working'[a][i].form = "raw" /\ working'[a][i].output = transcript[a][i]
        BY <4>0 DEF Raw
      <4> QED
        BY <4>1 DEF Reaches
    <3> QED
      BY <3>1, <3>2, <3>4
  <2> QED
    BY <1>1, <1>8, <2>1 DEF Begin
<1>9. ASSUME NEW i \in 1 .. MaxLen, Share(i) PROVE WorkTrue'
  <2>1. turn \in Agent /\ i \in 1 .. Len(working[turn]) /\ stage # "idle" /\ transcript' = transcript
    BY <1>9, AgentsType DEF Share, Upcoming, IInv, TypeOK, Agent
  <2>2. Replace(i, "shared")
    BY <1>9 DEF Share
  <2>3. \A a \in Agent : Len(working[a]) = Len(transcript[a])
    BY <2>1 DEF IInv, WorkTrue
  <2>4. ASSUME NEW a \in Agent PROVE Good(a)
    <3>1. Len(working'[a]) = Len(transcript[a])
      BY <2>1, <2>2, <2>3, ReplaceEffect DEF IInv
    <3>2. ASSUME NEW j \in 1 .. Len(transcript[a])
          PROVE  /\ working'[a][j].output = transcript[a][j]
                 /\ \A c \in Content : c = working'[a][j] => Reaches(c, a, j)'
      <4>1. working[a][j].output = transcript[a][j] /\ Reaches(working[a][j], a, j)
        BY <2>1 DEF IInv, WorkTrue
      <4>2. working'[a][j].output = transcript[a][j]
        BY <2>1, <2>2, <2>3, <4>1, ReplaceEffect DEF IInv
      <4>3. CASE ~(a = turn /\ j = i)
        <5>1. working'[a][j] = working[a][j]
          BY <2>1, <2>2, <2>3, <4>3, ReplaceEffect DEF IInv
        <5> QED
          BY <4>1, <4>2, <5>1, Still
      <4>4. CASE a = turn /\ j = i
        <5>1. working'[a][j].form = "shared"
          BY <2>1, <2>2, <4>4, ReplaceEffect DEF IInv
        <5>2. transcript[turn][i] \in pool'
          BY <1>9, <2>1 DEF Share, IInv, Pooled
        <5> QED
          BY <4>2, <4>4, <5>1, <5>2 DEF Reaches
      <4> QED
        BY <4>2, <4>3, <4>4
    <3> QED
      BY <3>1, <3>2
  <2> QED
    BY <1>1, <2>1, <2>4
<1>10. ASSUME NEW i \in 1 .. MaxLen, Mask(i) PROVE WorkTrue'
  <2>1. /\ turn \in Agent /\ i \in 1 .. Len(working[turn]) /\ i >= at
        /\ stage = "compile" /\ transcript' = transcript /\ pool' = pool
    BY <1>10, AgentsType DEF Mask, Upcoming, IInv, TypeOK, Agent
  <2>2. Replace(i, "masked")
    BY <1>10 DEF Mask
  <2>3. \A a \in Agent : Len(working[a]) = Len(transcript[a])
    BY <2>1 DEF IInv, WorkTrue
  <2>4. ASSUME NEW a \in Agent PROVE Good(a)
    <3>1. Len(working'[a]) = Len(transcript[a])
      BY <2>1, <2>2, <2>3, ReplaceEffect DEF IInv
    <3>2. ASSUME NEW j \in 1 .. Len(transcript[a])
          PROVE  /\ working'[a][j].output = transcript[a][j]
                 /\ \A c \in Content : c = working'[a][j] => Reaches(c, a, j)'
      <4>1. working[a][j].output = transcript[a][j] /\ Reaches(working[a][j], a, j)
        BY <2>1 DEF IInv, WorkTrue
      <4>2. working'[a][j].output = transcript[a][j]
        BY <2>1, <2>2, <2>3, <4>1, ReplaceEffect DEF IInv
      <4>3. CASE ~(a = turn /\ j = i)
        <5>1. working'[a][j] = working[a][j]
          BY <2>1, <2>2, <2>3, <4>3, ReplaceEffect DEF IInv
        <5> QED
          BY <4>1, <4>2, <5>1, Still
      <4>4. CASE a = turn /\ j = i
        <5>1. working'[a][j].form = "masked"
          BY <2>1, <2>2, <4>4, ReplaceEffect DEF IInv
        <5>2. cold'[a][j] = working[a][j]
          BY <1>10, <2>1, <4>4 DEF Mask, IInv, TypeOK
        <5>3. working[a][j].form # "masked"
          BY <2>1, <4>4 DEF IInv, Unmasked
        <5> QED
          BY <2>1, <4>1, <4>2, <5>1, <5>2, <5>3 DEF Reaches
      <4> QED
        BY <4>2, <4>3, <4>4
    <3> QED
      BY <3>1, <3>2
  <2> QED
    BY <1>1, <2>1, <2>4
<1>11. CASE DedupNext
  BY <1>3, <1>11 DEF DedupNext
<1>12. ASSUME NEW enough \in BOOLEAN, CompileNext(enough) PROVE WorkTrue'
  <2>1. turn \in Agent /\ stage = "compile" /\ UNCHANGED <<transcript, pool>>
    BY <1>12, AgentsType DEF CompileNext, IInv, TypeOK, Agent
  <2>2. CASE working' = working
    BY <1>3, <2>1, <2>2
  <2>3. CASE working' = [working EXCEPT ![turn] = Deduped(turn)]
    <3>1. \A a \in Agent : working'[a] = IF a = turn THEN Deduped(turn) ELSE working[a]
      BY <2>3 DEF IInv, TypeOK
    <3>2. Len(Deduped(turn)) = Len(transcript[turn])
      BY <2>1, DedupedShape DEF IInv
    <3>3. ASSUME NEW a \in Agent, a = turn, NEW i \in 1 .. Len(transcript[a])
          PROVE  /\ working'[a][i].output = transcript[a][i]
                 /\ \A c \in Content : c = working'[a][i] => Reaches(c, a, i)'
      <4>1. working'[a][i] = [form |-> IF dedup /\ Duplicate(a, i) THEN "shared" ELSE "raw",
                              output |-> transcript[a][i]]
        BY <3>1, <3>3 DEF Deduped
      <4>2. CASE dedup /\ Duplicate(a, i)
        <5>1. transcript[a][i] \in pool'
          BY <2>1, <4>2 DEF IInv, Pooled
        <5>2. working'[a][i].form = "shared" /\ working'[a][i].output = transcript[a][i]
          BY <4>1, <4>2
        <5> QED
          BY <5>1, <5>2 DEF Reaches
      <4>3. CASE ~(dedup /\ Duplicate(a, i))
        <5>1. working'[a][i].form = "raw" /\ working'[a][i].output = transcript[a][i]
          BY <4>1, <4>3
        <5> QED
          BY <5>1 DEF Reaches
      <4> QED
        BY <4>2, <4>3
    <3>4. ASSUME NEW a \in Agent PROVE Good(a)
      <4>1. CASE a # turn
        BY <1>2, <2>1, <3>1, <4>1
      <4>2. CASE a = turn
        <5>1. working'[a] = Deduped(turn)
          BY <3>1, <4>2
        <5> QED
          BY <3>2, <3>3, <4>2, <5>1
      <4> QED
        BY <4>1, <4>2
    <3> QED
      BY <1>1, <2>1, <3>4
  <2> QED
    BY <1>12, <2>2, <2>3 DEF CompileNext
<1>13. CASE Answer \/ PutFails \/ AgentFails
  BY <1>13 DEF Answer, PutFails, AgentFails, Stop, WorkTrue
<1>14. CASE Round
  BY <1>9, <1>10, <1>11, <1>12, <1>13, <1>14 DEF Round
<1> QED
  BY <1>5, <1>6, <1>7, <1>8, <1>14 DEF Next

\* Every step preserves that the loops find nothing masked.
LEMMA UnmaskedStep == ASSUME IInv, [Next]_vars PROVE Unmasked'
<1>1. CASE UNCHANGED vars
  BY <1>1 DEF vars, round, IInv, Unmasked
<1>2. ASSUME NEW a \in Agent, NEW m \in Outputs \cup {Said}, Grow(a, m) PROVE Unmasked'
  BY <1>2 DEF Grow, round, Unmasked
<1>3. ASSUME NEW a \in Agent, NEW i \in 1 .. Len(transcript[a]), MaskAlone(a, i) PROVE Unmasked'
  BY <1>3 DEF MaskAlone, round, IInv, Unmasked
<1>4. ASSUME NEW d \in BOOLEAN, Begin(d) PROVE Unmasked'
  <2>1. \A a \in Agent : \A i \in 1 .. Len(transcript[a]) : working'[a][i] = Raw(transcript[a][i])
    BY <1>4 DEF Begin, AsContents
  <2>2. ASSUME NEW a \in Agent, NEW i \in 1 .. Len(transcript[a]) PROVE working'[a][i].form # "masked"
    <3>1. working'[a][i] = Raw(transcript[a][i])
      BY <2>1
    <3> QED
      BY <3>1 DEF Raw
  <2> QED
    BY <1>4, <2>2 DEF Begin, Unmasked
<1>5. ASSUME NEW i \in 1 .. MaxLen, Share(i) PROVE Unmasked'
  <2>1. turn \in Agent /\ i \in 1 .. Len(working[turn]) /\ UNCHANGED <<stage, transcript>> /\ stage = "dedup"
    BY <1>5, AgentsType DEF Share, Upcoming, IInv, TypeOK, Agent
  <2>2. \A a \in Agent : Len(working[a]) = Len(transcript[a])
    BY <2>1 DEF IInv, WorkTrue
  <2>3. ASSUME NEW a \in Agent, NEW j \in 1 .. Len(transcript[a]) PROVE working'[a][j].form # "masked"
    <3>1. working[a][j].form # "masked"
      BY <2>1 DEF IInv, Unmasked
    <3>2. a = turn /\ j = i => working'[a][j].form = "shared"
      BY <1>5, <2>1, ReplaceEffect DEF Share, IInv
    <3>3. ~(a = turn /\ j = i) => working'[a][j] = working[a][j]
      BY <1>5, <2>1, <2>2, ReplaceEffect DEF Share, IInv
    <3> QED
      BY <3>1, <3>2, <3>3
  <2> QED
    BY <2>1, <2>3 DEF Unmasked
<1>6. ASSUME NEW i \in 1 .. MaxLen, Mask(i) PROVE Unmasked'
  <2>1. /\ turn \in Agent /\ i \in 1 .. Len(working[turn]) /\ i >= at /\ at \in Nat
        /\ stage = "compile" /\ UNCHANGED <<stage, turn, transcript>>
    BY <1>6, AgentsType DEF Mask, Upcoming, IInv, TypeOK, Agent
  <2>2. \A a \in Agent : Len(working[a]) = Len(transcript[a])
    BY <2>1 DEF IInv, WorkTrue
  <2>3. at' = i + 1
    BY <1>6 DEF Mask, Replace
  <2>4. ASSUME NEW a \in Agent, NEW j \in 1 .. Len(transcript[a]), a > turn \/ (a = turn /\ j >= i + 1)
        PROVE  working'[a][j].form # "masked"
    <3>0. ~(a = turn /\ j = i)
      BY <2>1, <2>4 DEF Agent
    <3>1. working'[a][j] = working[a][j]
      BY <1>6, <2>1, <2>2, <3>0, ReplaceEffect DEF Mask, IInv
    <3>2. a > turn \/ (a = turn /\ j >= at)
      BY <2>1, <2>4
    <3> QED
      BY <2>1, <3>1, <3>2 DEF IInv, Unmasked
  <2> QED
    BY <2>1, <2>3, <2>4 DEF Unmasked
<1>7. CASE DedupNext
  BY <1>7 DEF DedupNext, IInv, Unmasked
<1>8. ASSUME NEW enough \in BOOLEAN, CompileNext(enough) PROVE Unmasked'
  <2>1. /\ turn \in Agent /\ stage = "compile" /\ UNCHANGED <<stage, transcript>>
        /\ turn' = turn + 1 /\ Agent \subseteq Nat
    BY <1>8, AgentsType DEF CompileNext, IInv, TypeOK, Agent
  <2>2. ASSUME NEW a \in Agent, NEW j \in 1 .. Len(transcript[a]), a >= turn + 1
        PROVE  working'[a][j].form # "masked"
    <3>1. a > turn
      BY <2>1, <2>2
    <3>2. working'[a] = working[a]
      BY <1>8, <2>1, <3>1 DEF CompileNext, IInv, TypeOK
    <3> QED
      BY <2>1, <3>1, <3>2 DEF IInv, Unmasked
  <2> QED
    BY <2>1, <2>2 DEF Unmasked
<1>9. CASE Answer \/ PutFails \/ AgentFails
  BY <1>9 DEF Answer, PutFails, AgentFails, Stop, Unmasked
<1>10. CASE Round
  BY <1>5, <1>6, <1>7, <1>8, <1>9, <1>10 DEF Round
<1> QED
  BY <1>1, <1>2, <1>3, <1>4, <1>10 DEF Next

\* Which results are duplicates depends on the transcripts alone.
LEMMA SameDuplicates ==
    ASSUME transcript' = transcript, NEW a, NEW i
    PROVE  Duplicate(a, i)' <=> Duplicate(a, i)
  BY DEF Duplicate, HeldBefore, Newer

\* Every step preserves that the duplicates passed are in the shared session.
LEMMA PooledStep == ASSUME IInv, [Next]_vars PROVE Pooled'
<1>1. CASE UNCHANGED <<round, transcript, pool>>
  BY <1>1, SameDuplicates DEF round, IInv, Pooled
<1>2. ASSUME NEW a \in Agent, NEW m \in Outputs \cup {Said}, Grow(a, m) PROVE Pooled'
  BY <1>2 DEF Grow, round, Pooled
<1>3. ASSUME NEW a \in Agent, NEW i \in 1 .. Len(transcript[a]), MaskAlone(a, i) PROVE Pooled'
  BY <1>1, <1>3 DEF MaskAlone
<1>4. ASSUME NEW d \in BOOLEAN, Begin(d) PROVE Pooled'
  BY <1>4 DEF Begin, Pooled, Agent
<1>5. ASSUME NEW i \in 1 .. MaxLen, Share(i) PROVE Pooled'
  <2>1. /\ turn \in Agent /\ i \in 1 .. Len(working[turn]) /\ i >= at /\ at \in Nat
        /\ stage = "dedup" /\ dedup /\ UNCHANGED <<stage, dedup, turn, transcript>>
        /\ at' = i + 1
    BY <1>5, AgentsType DEF Share, Upcoming, Replace, IInv, TypeOK, Pooled, Agent
  <2>2. put' \subseteq pool' /\ pool \subseteq pool' /\ transcript[turn][i] \in pool'
    BY <1>5, <2>1 DEF Share, IInv, Pooled
  <2>3. ASSUME NEW a \in Agent, NEW j \in 1 .. Len(transcript[a]),
               a < turn \/ (a = turn /\ j < i + 1), Duplicate(a, j)
        PROVE  transcript[a][j] \in pool'
    <3>1. CASE a < turn \/ (a = turn /\ j < at)
      BY <2>1, <2>2, <2>3, <3>1 DEF IInv, Pooled
    <3>2. CASE a = turn /\ j = i
      BY <2>2, <3>2
    <3>3. CASE a = turn /\ j >= at /\ j < i
      <4>1. ~Eligible(j)
        BY <1>5, <2>1, <3>3 DEF Share, Upcoming
      <4> QED
        BY <2>1, <2>3, <3>3, <4>1 DEF Eligible
    <3> QED
      BY <2>1, <2>3, <3>1, <3>2, <3>3
  <2> QED
    BY <2>1, <2>2, <2>3, SameDuplicates DEF Pooled
<1>6. ASSUME NEW i \in 1 .. MaxLen, Mask(i) PROVE Pooled'
  BY <1>6, SameDuplicates DEF Mask, IInv, Pooled
<1>7. CASE DedupNext
  <2>1. /\ turn \in Agent /\ at \in Nat /\ stage = "dedup" /\ dedup /\ NoneLeft
        /\ UNCHANGED <<dedup, transcript, pool, put>> /\ put \subseteq pool
        /\ Len(working[turn]) = Len(transcript[turn])
    BY <1>7, AgentsType DEF DedupNext, IInv, TypeOK, WorkTrue, Pooled, Agent
  <2>2. ASSUME NEW a \in Agent, NEW j \in 1 .. Len(transcript[a]), a <= turn, Duplicate(a, j)
        PROVE  transcript[a][j] \in pool
    <3>1. CASE a < turn \/ (a = turn /\ j < at)
      BY <2>1, <2>2, <3>1 DEF IInv, Pooled
    <3>2. CASE a = turn /\ j >= at
      BY <2>1, <2>2, <3>2 DEF NoneLeft, Eligible
    <3> QED
      BY <2>1, <2>2, <3>1, <3>2 DEF Agent
  <2>3. CASE turn = Agents
    <3>1. stage' = "compile"
      BY <1>7, <2>3 DEF DedupNext
    <3>2. \A a \in Agent : a <= turn
      BY <2>3 DEF Agent
    <3> QED
      BY <2>1, <2>2, <3>1, <3>2, SameDuplicates DEF Pooled
  <2>4. CASE turn # Agents
    <3>1. stage' = "dedup" /\ turn' = turn + 1 /\ at' = 1
      BY <1>7, <2>1, <2>4 DEF DedupNext
    <3>2. \A a \in Agent : \A j \in 1 .. Len(transcript[a]) :
             a < turn + 1 \/ (a = turn + 1 /\ j < 1) => a <= turn
      BY <2>1 DEF Agent
    <3> QED
      BY <2>1, <2>2, <3>1, <3>2, SameDuplicates DEF Pooled
  <2> QED
    BY <2>3, <2>4
<1>8. ASSUME NEW enough \in BOOLEAN, CompileNext(enough) PROVE Pooled'
  BY <1>8, SameDuplicates DEF CompileNext, IInv, Pooled
<1>9. CASE Answer \/ PutFails \/ AgentFails
  BY <1>9 DEF Answer, PutFails, AgentFails, Stop, Pooled
<1>10. CASE Round
  BY <1>5, <1>6, <1>7, <1>8, <1>9, <1>10 DEF Round
<1> QED
  BY <1>1, <1>2, <1>3, <1>4, <1>10 DEF Next, vars

\* Every step preserves what is known of the contexts agents were handed.
LEMMA ViewStep == ASSUME IInv, [Next]_vars PROVE ViewTrue'
<1>1. ASSUME NEW a \in Agent, NEW i \in 1 .. Len(transcript[a]),
             NEW c \in Content, c.output = transcript[a][i], Reaches(c, a, i)
      PROVE  c.output = transcript'[a][i] /\ Reaches(c, a, i)'
  BY <1>1, Still, Growing DEF IInv
<1>2. ASSUME NEW a \in Agent PROVE Len(transcript[a]) <= Len(transcript'[a])
                                   /\ Len(transcript[a]) \in Nat /\ Len(transcript'[a]) \in Nat
  <2>1. TypeOK'
    BY TypeStep DEF IInv
  <2>2. Len(transcript[a]) <= Len(transcript'[a])
    BY Growing DEF IInv
  <2>3. Len(transcript[a]) \in Nat
    BY DEF IInv, TypeOK
  <2>4. Len(transcript'[a]) \in Nat
    BY <2>1 DEF TypeOK
  <2> QED
    BY <2>2, <2>3, <2>4
<1>3. CASE view' = view
  <2>1. ASSUME NEW a \in Agent PROVE Len(view'[a]) <= Len(transcript'[a])
    BY <1>2, <1>3 DEF IInv, ViewTrue, TypeOK
  <2>2. ASSUME NEW a \in Agent, NEW i \in 1 .. Len(view'[a])
        PROVE  view'[a][i].output = transcript'[a][i] /\ Reaches(view[a][i], a, i)'
    <3>1. /\ i \in 1 .. Len(transcript[a])
          /\ view[a][i] \in Content
          /\ view[a][i].output = transcript[a][i] /\ Reaches(view[a][i], a, i)
      BY <1>2, <1>3 DEF IInv, ViewTrue, Recoverable, TypeOK
    <3>2. \A c \in Content : c = view[a][i] => c.output = transcript'[a][i] /\ Reaches(c, a, i)'
      BY <1>1, <3>1
    <3> QED
      BY <1>3, <3>1, <3>2 DEF Reaches
  <2> QED
    BY <2>1, <2>2 DEF ViewTrue, Recoverable
<1>4. CASE Answer
  <2>1. view' = working /\ stage = "compile" /\ transcript' = transcript
    BY <1>4 DEF Answer
  <2>2. ASSUME NEW a \in Agent, NEW i \in 1 .. Len(view'[a])
        PROVE  view'[a][i].output = transcript'[a][i] /\ Reaches(view[a][i], a, i)'
    <3>1. /\ i \in 1 .. Len(transcript[a])
          /\ working[a][i] \in Content
          /\ working[a][i].output = transcript[a][i] /\ Reaches(working[a][i], a, i)
      BY <2>1 DEF IInv, WorkTrue, TypeOK
    <3>2. \A c \in Content : c = working[a][i] => c.output = transcript'[a][i] /\ Reaches(c, a, i)'
      BY <1>1, <3>1
    <3> QED
      BY <2>1, <3>1, <3>2 DEF Reaches
  <2>3. \A a \in Agent : Len(view'[a]) <= Len(transcript'[a])
    BY <1>2, <2>1 DEF IInv, WorkTrue
  <2> QED
    BY <2>2, <2>3 DEF ViewTrue, Recoverable
<1>5. Answer \/ view' = view
  BY DEF Next, Round, vars, Grow, MaskAlone, Begin, Share, Mask, DedupNext, CompileNext,
         PutFails, AgentFails, Stop
<1> QED
  BY <1>3, <1>4, <1>5

\* The invariant holds always.
LEMMA Invariance == Spec => []IInv
<1>1. IInv /\ [Next]_vars => IInv'
  BY TypeStep, ColdStep, WorkStep, UnmaskedStep, PooledStep, ViewStep DEF IInv
<1> QED
  BY Start, <1>1, PTL DEF Spec

\* Every variable keeps its type, for any number of agents, whatever rounds
\* and single compiles do.
THEOREM TypeCorrect == Spec => []TypeOK
<1>1. IInv => TypeOK
  BY DEF IInv
<1> QED
  BY Invariance, <1>1, PTL

\* From every content of its last context an agent reaches the tool output it
\* stands for (dedup_across_agents, ConsumedResultMaskTransform).
THEOREM Recovery == Spec => []Recoverable
<1>1. IInv => Recoverable
  BY DEF IInv, ViewTrue
<1> QED
  BY Invariance, <1>1, PTL
-----------------------------------------------------------------------------
(* What deduplication leaves alone.                                        *)

\* Only results outside an agent's working set stand for a shared copy.
SharedOld == stage # "idle" =>
    \A a \in Agent : \A i \in 1 .. Len(transcript[a]) :
        working[a][i].form = "shared" => Newer(transcript[a], i) >= DedupRecent

\* Until the first compile replaces a result, all but the duplicates are verbatim.
OthersRaw == stage = "dedup" \/ (stage = "compile" /\ turn = 1 /\ at = 1) =>
    \A a \in Agent : \A i \in 1 .. Len(transcript[a]) :
        Duplicate(a, i) \/ working[a][i] = Raw(transcript[a][i])

LiveInv == IInv /\ SharedOld /\ OthersRaw /\ WorkingSetLive

\* A round starts from every message as it is.
LEMMA BeginRaw ==
    ASSUME NEW d \in BOOLEAN, Begin(d), NEW a \in Agent, NEW i \in 1 .. Len(transcript[a])
    PROVE  working'[a][i] = Raw(transcript[a][i])
  BY DEF Begin, AsContents

\* The second pass changes one duplicate at a time.
LEMMA ShareEffect ==
    ASSUME IInv, NEW i \in 1 .. MaxLen, Share(i),
           NEW a \in Agent, NEW j \in 1 .. Len(transcript[a])
    PROVE  /\ Duplicate(turn, i)
           /\ ~(a = turn /\ j = i) => working'[a][j] = working[a][j]
<1>1. turn \in Agent /\ i \in 1 .. Len(working[turn]) /\ stage = "dedup"
  BY AgentsType DEF Share, Upcoming, IInv, TypeOK, Agent
<1>2. j \in 1 .. Len(working[a])
  BY <1>1 DEF IInv, WorkTrue
<1>3. Duplicate(turn, i)
  BY <1>1 DEF Share, Upcoming, Eligible
<1> QED
  BY <1>1, <1>2, <1>3, ReplaceEffect DEF Share, IInv

\* Every step preserves that shared results are outside the working set.
LEMMA SharedStep == ASSUME IInv, SharedOld, [Next]_vars PROVE SharedOld'
<1>1. CASE UNCHANGED <<stage, working, transcript>>
  BY <1>1 DEF SharedOld, Newer
<1>2. CASE stage' = "idle"
  BY <1>2 DEF SharedOld
<1>3. ASSUME NEW a \in Agent, NEW m \in Outputs \cup {Said}, Grow(a, m) PROVE SharedOld'
  BY <1>2, <1>3 DEF Grow, round
<1>4. ASSUME NEW a \in Agent, NEW i \in 1 .. Len(transcript[a]), MaskAlone(a, i) PROVE SharedOld'
  BY <1>1, <1>4 DEF MaskAlone, round
<1>5. ASSUME NEW d \in BOOLEAN, Begin(d) PROVE SharedOld'
  <2>1. transcript' = transcript
    BY <1>5 DEF Begin
  <2>2. ASSUME NEW a \in Agent, NEW i \in 1 .. Len(transcript[a])
        PROVE  working'[a][i].form # "shared"
    <3>1. working'[a][i] = Raw(transcript[a][i])
      BY <1>5, BeginRaw
    <3> QED
      BY <3>1 DEF Raw
  <2> QED
    BY <2>1, <2>2 DEF SharedOld
<1>6. ASSUME NEW i \in 1 .. MaxLen, Share(i) PROVE SharedOld'
  <2>1. transcript' = transcript /\ stage = "dedup"
    BY <1>6 DEF Share
  <2>2. ASSUME NEW a \in Agent, NEW j \in 1 .. Len(transcript[a]), working'[a][j].form = "shared"
        PROVE  Newer(transcript[a], j) >= DedupRecent
    <3>1. CASE a = turn /\ j = i
      BY <1>6, <3>1, ShareEffect DEF Duplicate
    <3>2. CASE ~(a = turn /\ j = i)
      <4>1. working'[a][j] = working[a][j]
        BY <1>6, <3>2, ShareEffect
      <4> QED
        BY <2>1, <2>2, <4>1 DEF SharedOld
    <3> QED
      BY <3>1, <3>2
  <2> QED
    BY <2>1, <2>2 DEF SharedOld, Newer
<1>7. ASSUME NEW i \in 1 .. MaxLen, Mask(i) PROVE SharedOld'
  <2>1. /\ turn \in Agent /\ i \in 1 .. Len(working[turn]) /\ stage = "compile"
        /\ transcript' = transcript /\ Replace(i, "masked")
    BY <1>7, AgentsType DEF Mask, Upcoming, IInv, TypeOK, Agent
  <2>2. ASSUME NEW a \in Agent, NEW j \in 1 .. Len(transcript[a]), working'[a][j].form = "shared"
        PROVE  Newer(transcript[a], j) >= DedupRecent
    <3>1. j \in 1 .. Len(working[a])
      BY <2>1 DEF IInv, WorkTrue
    <3>2. ~(a = turn /\ j = i)
      BY <2>1, <2>2, ReplaceEffect DEF IInv
    <3>3. working'[a][j] = working[a][j]
      BY <2>1, <3>1, <3>2, ReplaceEffect DEF IInv
    <3> QED
      BY <2>1, <2>2, <3>3 DEF SharedOld
  <2> QED
    BY <2>1, <2>2 DEF SharedOld, Newer
<1>8. CASE DedupNext
  <2>1. transcript' = transcript /\ working' = working /\ stage = "dedup"
    BY <1>8 DEF DedupNext
  <2> QED
    BY <2>1 DEF SharedOld, Newer
<1>9. ASSUME NEW enough \in BOOLEAN, CompileNext(enough) PROVE SharedOld'
  <2>1. /\ turn \in Agent /\ transcript' = transcript /\ stage' = stage /\ stage = "compile"
        /\ working' = working \/ working' = [working EXCEPT ![turn] = Deduped(turn)]
    BY <1>9, AgentsType DEF CompileNext, IInv, TypeOK, Agent
  <2>2. CASE working' = working
    BY <1>1, <2>1, <2>2
  <2>3. CASE working' = [working EXCEPT ![turn] = Deduped(turn)]
    <3>1. \A a \in Agent : working'[a] = IF a = turn THEN Deduped(turn) ELSE working[a]
      BY <2>3 DEF IInv, TypeOK
    <3>2. ASSUME NEW a \in Agent, NEW j \in 1 .. Len(transcript[a]), working'[a][j].form = "shared"
          PROVE  Newer(transcript[a], j) >= DedupRecent
      <4>1. CASE a = turn
        <5>1. working'[a][j] = [form |-> IF dedup /\ Duplicate(a, j) THEN "shared" ELSE "raw",
                                output |-> transcript[a][j]]
          BY <3>1, <4>1 DEF Deduped
        <5>2. Duplicate(a, j)
          BY <3>2, <5>1
        <5> QED
          BY <5>2 DEF Duplicate
      <4>2. CASE a # turn
        BY <2>1, <3>1, <3>2, <4>2 DEF SharedOld
      <4> QED
        BY <4>1, <4>2
    <3> QED
      BY <2>1, <3>2 DEF SharedOld, Newer
  <2> QED
    BY <2>1, <2>2, <2>3
<1>10. CASE Answer \/ PutFails \/ AgentFails
  BY <1>2, <1>10 DEF Answer, PutFails, AgentFails, Stop
<1>11. CASE Round
  BY <1>6, <1>7, <1>8, <1>9, <1>10, <1>11 DEF Round
<1>12. CASE UNCHANGED vars
  BY <1>1, <1>12 DEF vars, round
<1> QED
  BY <1>3, <1>4, <1>5, <1>11, <1>12 DEF Next

\* Every step preserves that deduplication touches duplicates only.
LEMMA RawStep == ASSUME IInv, OthersRaw, [Next]_vars PROVE OthersRaw'
<1>1. CASE UNCHANGED <<stage, turn, at, working, transcript>>
  BY <1>1, SameDuplicates DEF OthersRaw
<1>2. CASE stage' = "idle" \/ (stage' = "compile" /\ ~(turn' = 1 /\ at' = 1))
  BY <1>2 DEF OthersRaw
<1>3. ASSUME NEW a \in Agent, NEW m \in Outputs \cup {Said}, Grow(a, m) PROVE OthersRaw'
  BY <1>2, <1>3 DEF Grow, round
<1>4. ASSUME NEW a \in Agent, NEW i \in 1 .. Len(transcript[a]), MaskAlone(a, i) PROVE OthersRaw'
  BY <1>1, <1>4 DEF MaskAlone, round
<1>5. ASSUME NEW d \in BOOLEAN, Begin(d) PROVE OthersRaw'
  <2>1. transcript' = transcript
    BY <1>5 DEF Begin
  <2>2. \A a \in Agent : \A i \in 1 .. Len(transcript[a]) : working'[a][i] = Raw(transcript[a][i])
    BY <1>5, BeginRaw
  <2> QED
    BY <2>1, <2>2 DEF OthersRaw, Raw
<1>6. ASSUME NEW i \in 1 .. MaxLen, Share(i) PROVE OthersRaw'
  <2>1. transcript' = transcript /\ stage = "dedup"
    BY <1>6 DEF Share
  <2>2. ASSUME NEW a \in Agent, NEW j \in 1 .. Len(transcript[a]), ~Duplicate(a, j)
        PROVE  working'[a][j] = Raw(transcript[a][j])
    <3>1. working'[a][j] = working[a][j]
      BY <1>6, <2>2, ShareEffect
    <3> QED
      BY <2>1, <2>2, <3>1 DEF OthersRaw
  <2> QED
    BY <2>1, <2>2, SameDuplicates DEF OthersRaw, Raw
<1>7. ASSUME NEW i \in 1 .. MaxLen, Mask(i) PROVE OthersRaw'
  <2>1. at' = i + 1 /\ stage' = "compile"
    BY <1>7 DEF Mask, Replace
  <2> QED
    BY <1>2, <2>1
<1>8. CASE DedupNext
  <2>1. transcript' = transcript /\ working' = working /\ stage = "dedup"
    BY <1>8 DEF DedupNext
  <2> QED
    BY <2>1, SameDuplicates DEF OthersRaw
<1>9. ASSUME NEW enough \in BOOLEAN, CompileNext(enough) PROVE OthersRaw'
  <2>1. turn' = turn + 1 /\ turn \in Nat \ {0} /\ stage' = "compile"
    BY <1>9, AgentsType DEF CompileNext, IInv, TypeOK
  <2> QED
    BY <1>2, <2>1
<1>10. CASE Answer \/ PutFails \/ AgentFails
  BY <1>2, <1>10 DEF Answer, PutFails, AgentFails, Stop
<1>11. CASE Round
  BY <1>6, <1>7, <1>8, <1>9, <1>10, <1>11 DEF Round
<1>12. CASE UNCHANGED vars
  BY <1>1, <1>12 DEF vars, round
<1> QED
  BY <1>3, <1>4, <1>5, <1>11, <1>12 DEF Next

\* Every step preserves that the answers leave the working sets live.
LEMMA LiveStep == ASSUME IInv, SharedOld, WorkingSetLive, [Next]_vars PROVE WorkingSetLive'
<1>1. CASE view' = view
  BY <1>1 DEF WorkingSetLive
<1>2. CASE Answer
  <2>1. view' = working /\ stage = "compile"
    BY <1>2 DEF Answer
  <2>2. ASSUME NEW a \in Agent, NEW i \in 1 .. Len(working[a]), working[a][i].form = "shared"
        PROVE  Cardinality({j \in 1 .. Len(working[a]) : j > i /\ working[a][j].output # Said})
                   >= DedupRecent
    <3>1. /\ Len(working[a]) = Len(transcript[a])
          /\ \A j \in 1 .. Len(transcript[a]) : working[a][j].output = transcript[a][j]
      BY <2>1 DEF IInv, WorkTrue
    <3>2. {j \in 1 .. Len(working[a]) : j > i /\ working[a][j].output # Said}
              = {j \in 1 .. Len(transcript[a]) : j > i /\ transcript[a][j] # Said}
      BY <3>1
    <3>3. Newer(transcript[a], i) >= DedupRecent
      BY <2>1, <2>2, <3>1 DEF SharedOld
    <3> QED
      BY <3>2, <3>3 DEF Newer
  <2> QED
    BY <2>1, <2>2 DEF WorkingSetLive
<1>3. Answer \/ view' = view
  BY DEF Next, Round, vars, Grow, MaskAlone, Begin, Share, Mask, DedupNext, CompileNext,
         PutFails, AgentFails, Stop
<1> QED
  BY <1>1, <1>2, <1>3

\* A set of numbers that is not empty has a least one.
LEMMA Least ==
    ASSUME NEW S \in SUBSET Nat, S # {}
    PROVE  \E x \in S : \A y \in S : x <= y
<1> DEFINE R == OpToRel(<, Nat)
<1>1. IsWellFoundedOn(R, Nat)
  BY NatLessThanWellFounded
<1>2. \A x, y \in Nat : x < y => <<x, y>> \in R
  BY DEF OpToRel
<1> HIDE DEF R
<1>3. PICK x \in S : \A y \in S : ~(<<y, x>> \in R)
  BY <1>1, WFMin
<1>4. ASSUME NEW y \in S PROVE x <= y
  <2>1. x \in Nat /\ y \in Nat /\ ~(y < x)
    BY <1>2, <1>3
  <2> QED
    BY <2>1
<1> QED
  BY <1>4

\* Among the copies of an output the first, of the first agent that holds it,
\* is no duplicate.
LEMMA Canonical ==
    ASSUME TypeOK, NEW a \in Agent, NEW i \in 1 .. Len(transcript[a])
    PROVE  \E b \in Agent : \E j \in 1 .. Len(transcript[b]) :
               transcript[b][j] = transcript[a][i] /\ ~Duplicate(b, j)
<1> DEFINE m == transcript[a][i]
           Places(b) == {j \in 1 .. Len(transcript[b]) : transcript[b][j] = m}
           Holders == {b \in Agent : Places(b) # {}}
<1>1. Holders \in SUBSET Nat /\ Holders # {}
  <2>1. i \in Places(a)
    OBVIOUS
  <2> QED
    BY <2>1 DEF Agent
<1>2. PICK b \in Holders : \A c \in Holders : b <= c
  BY <1>1, Least
<1>3. Places(b) \in SUBSET Nat /\ Places(b) # {}
  BY DEF TypeOK
<1>4. PICK j \in Places(b) : \A k \in Places(b) : j <= k
  BY <1>3, Least
<1>5. ~HeldBefore(b, j)
  <2>1. \A c \in 1 .. (b - 1) : \A k \in 1 .. Len(transcript[c]) : transcript[c][k] # m
    <3>1. \A c \in 1 .. (b - 1) : c \in Agent /\ ~(b <= c)
      BY AgentsType DEF Agent
    <3> QED
      BY <1>2, <3>1
  <2>2. \A k \in 1 .. (j - 1) : transcript[b][k] # m
    <3>1. \A k \in 1 .. (j - 1) : k \in 1 .. Len(transcript[b]) /\ ~(j <= k)
      BY DEF TypeOK
    <3> QED
      BY <1>4, <3>1
  <2> QED
    BY <2>1, <2>2 DEF HeldBefore
<1> QED
  BY <1>5 DEF Duplicate

\* The strengthened invariant holds always.
LEMMA LiveInvariance == Spec => []LiveInv
<1>1. Init => LiveInv
  BY Start DEF Init, LiveInv, SharedOld, OthersRaw, WorkingSetLive
<1>2. LiveInv /\ [Next]_vars => LiveInv'
  <2>1. IInv /\ [Next]_vars => IInv'
    BY TypeStep, ColdStep, WorkStep, UnmaskedStep, PooledStep, ViewStep DEF IInv
  <2> QED
    BY <2>1, SharedStep, RawStep, LiveStep DEF LiveInv
<1> QED
  BY <1>1, <1>2, PTL DEF Spec

\* The newest results of an agent are never replaced by a shared reference
\* (dedup_across_agents, dedup_keep_recent).
THEOREM NewestLive == Spec => []WorkingSetLive
<1>1. LiveInv => WorkingSetLive
  BY DEF LiveInv
<1> QED
  BY LiveInvariance, <1>1, PTL

\* Deduplication leaves every output verbatim with some agent
\* (dedup_across_agents, the canonical copy).
THEOREM CopyStays == Spec => []OneLiveCopy
<1>1. LiveInv => OneLiveCopy
  <2> SUFFICES ASSUME LiveInv, stage = "dedup" \/ (stage = "compile" /\ turn = 1 /\ at = 1),
                      NEW a \in Agent, NEW i \in 1 .. Len(transcript[a])
               PROVE  \E b \in Agent : \E j \in 1 .. Len(working[b]) :
                          working[b][j] = Raw(transcript[a][i])
    BY DEF OneLiveCopy
  <2>1. PICK b \in Agent : \E j \in 1 .. Len(transcript[b]) :
               transcript[b][j] = transcript[a][i] /\ ~Duplicate(b, j)
    BY Canonical DEF LiveInv, IInv
  <2>2. PICK j \in 1 .. Len(transcript[b]) :
               transcript[b][j] = transcript[a][i] /\ ~Duplicate(b, j)
    BY <2>1
  <2>3. working[b][j] = Raw(transcript[b][j])
    BY <2>2 DEF LiveInv, OthersRaw
  <2>4. j \in 1 .. Len(working[b])
    BY DEF LiveInv, IInv, WorkTrue
  <2> QED
    BY <2>2, <2>3, <2>4
<1> QED
  BY LiveInvariance, <1>1, PTL
-----------------------------------------------------------------------------
(* The two tiers of cold storage are one vault.                            *)

\* An own reference in use leads to the tool output, an unused one to nothing.
LEMMA OwnValue ==
    ASSUME TypeOK, ColdTrue, NEW a \in Agent, NEW i \in 1 .. MaxLen
    PROVE  /\ cold[a][i] = Missing => Own(cold[a][i]) = Said
           /\ cold[a][i] # Missing => Own(cold[a][i]) = transcript[a][i]
<1>1. CASE cold[a][i] = Missing
  BY <1>1 DEF Own, Missing
<1>2. CASE cold[a][i] # Missing
  BY <1>2 DEF ColdTrue, TrueContent, Own, Shared
<1> QED
  BY <1>1, <1>2

\* A put into an agent's own session is a deposit, or no reader sees it.
LEMMA OwnPut ==
    ASSUME IInv, IInv', UNCHANGED <<transcript, pool, view>>,
           NEW a \in Agent, NEW i \in 1 .. MaxLen, NEW c,
           cold' = [cold EXCEPT ![a][i] = c], c # Missing,
           transcript[a][i] \in Outputs
    PROVE  [V!Next]_(V!vars)
<1> DEFINE r == <<a, i>>
<1>1. /\ r \in Refs /\ r[1] = a /\ r[2] = i /\ a # 0
      /\ Vaulted[r] = Own(cold[a][i])
  BY AgentsType DEF Refs, Agent, Vaulted
<1>2. Vaulted'[r] = transcript[a][i]
  <2>1. cold'[a][i] = c
    BY DEF IInv, TypeOK
  <2>2. TrueContent(cold[a][i], a, i)'
    BY <2>1 DEF IInv, ColdTrue
  <2>3. Own(cold[a][i])' = transcript'[a][i]
    BY <2>2 DEF TrueContent, Own, Shared
  <2>4. Vaulted'[r] = Own(cold[a][i])'
    BY <1>1 DEF Vaulted
  <2> QED
    BY <2>3, <2>4
<1>3. ASSUME NEW q \in Refs, q # r PROVE Vaulted'[q] = Vaulted[q]
  <2>1. CASE q[1] = 0
    BY <2>1 DEF Vaulted, Shared
  <2>2. CASE q[1] # 0
    <3>1. PICK b \in Agent, j \in 1 .. MaxLen : q = <<b, j>>
      BY <2>2 DEF Refs
    <3>2. cold'[b][j] = cold[b][j]
      BY <1>3, <3>1 DEF IInv, TypeOK
    <3> QED
      BY <2>2, <3>1, <3>2 DEF Vaulted, Own, Shared
  <2> QED
    BY <2>1, <2>2
<1>4. UNCHANGED Owed
  BY DEF Owed, RefOf
<1> HIDE DEF r
<1>5. CASE cold[a][i] = Missing
  <2>1. Vaulted[r] = Said
    BY <1>1, <1>5, OwnValue DEF IInv
  <2>2. Vaulted' = [q \in Refs |-> Vaulted'[q]] /\ Vaulted = [q \in Refs |-> Vaulted[q]]
    BY DEF Vaulted
  <2>3. Vaulted' = [Vaulted EXCEPT ![r] = Vaulted'[r]]
    BY <1>3, <2>2
  <2> QED
    BY <1>1, <1>2, <1>4, <2>1, <2>3 DEF V!Next, V!Deposit
<1>6. CASE cold[a][i] # Missing
  <2>1. Vaulted'[r] = Vaulted[r]
    BY <1>1, <1>2, <1>6, OwnValue DEF IInv
  <2>2. UNCHANGED Vaulted
    BY <1>3, <2>1 DEF Vaulted
  <2> QED
    BY <1>4, <2>2 DEF V!vars
<1> QED
  BY <1>5, <1>6

\* Sharing an output is a deposit, or the shared session had it.
LEMMA SharedPut ==
    ASSUME IInv, IInv', NEW i \in 1 .. MaxLen, Share(i)
    PROVE  [V!Next]_(V!vars)
<1> DEFINE m == transcript[turn][i]
           r == <<0, m>>
<1>1. m \in Big /\ r \in Refs /\ r[1] = 0 /\ r[2] = m
  BY DEF Share, Upcoming, Eligible, Duplicate, Refs
<1>2. /\ pool' = pool \/ pool' = pool \cup {m}
      /\ UNCHANGED <<transcript, cold, view>>
  BY DEF Share
<1>3. UNCHANGED Owed
  BY <1>2 DEF Owed, RefOf
<1>4. ASSUME NEW q \in Refs, q # r PROVE Vaulted'[q] = Vaulted[q]
  <2>1. CASE q[1] = 0
    <3>1. PICK o \in Big : q = <<0, o>>
      BY <2>1, AgentsType DEF Refs, Agent
    <3>2. o # m
      BY <1>4, <3>1
    <3> QED
      BY <1>2, <2>1, <3>1, <3>2 DEF Vaulted, Shared
  <2>2. CASE q[1] # 0
    <3>1. PICK b \in Agent, j \in 1 .. MaxLen : q = <<b, j>>
      BY <2>2 DEF Refs
    <3>2. cold[b][j].form = "shared" => cold[b][j].output \in pool
      BY DEF IInv, ColdTrue, TrueContent, Missing
    <3>3. Own(cold[b][j])' = Own(cold[b][j])
      BY <1>2, <3>2 DEF Own, Shared
    <3> QED
      BY <1>2, <2>2, <3>1, <3>3 DEF Vaulted
  <2> QED
    BY <2>1, <2>2
<1> HIDE DEF r
<1>5. CASE m \in pool
  <2>1. pool' = pool
    BY <1>2, <1>5
  <2> QED
    BY <1>2, <1>3, <2>1 DEF V!vars, Vaulted, Own, Shared
<1>6. CASE m \notin pool /\ pool' = pool
  BY <1>2, <1>3, <1>6 DEF V!vars, Vaulted, Own, Shared
<1>7. CASE m \notin pool /\ pool' = pool \cup {m}
  <2>1. Vaulted[r] = Said /\ Vaulted'[r] = m
    BY <1>1, <1>7 DEF Vaulted, Shared
  <2>2. Vaulted' = [Vaulted EXCEPT ![r] = Vaulted'[r]]
    BY <1>4 DEF Vaulted
  <2>3. V!Deposit(r)
    BY <1>1, <1>3, <2>1, <2>2 DEF V!Deposit, Outputs
  <2> QED
    BY <1>1, <2>3 DEF V!Next
<1> QED
  BY <1>2, <1>5, <1>6, <1>7

\* An answer hands out references that lead to what they stand for.
LEMMA AnswerHands ==
    ASSUME IInv, IInv', Answer
    PROVE  [V!Next]_(V!vars)
<1>1. UNCHANGED Vaulted
  BY DEF Answer, Vaulted, Own, Shared
<1>2. ASSUME NEW a \in Agent, NEW pr \in Owed'[a] PROVE Vaulted'[pr[1]] = pr[2]
  <2>1. PICK i \in DOMAIN view'[a] : /\ view'[a][i].form # "raw"
                                    /\ pr = <<RefOf(a, i)', view'[a][i].output>>
    BY DEF Owed
  <2>2. /\ view'[a] \in Seq(Content) /\ transcript'[a] \in Seq(Outputs \cup {Said})
        /\ Len(view'[a]) <= Len(transcript'[a]) /\ Len(transcript'[a]) <= MaxLen
        /\ pool' \subseteq Big
    BY DEF IInv, TypeOK, ViewTrue
  <2>3. i \in 1 .. Len(view'[a]) /\ i \in 1 .. MaxLen /\ view'[a][i] \in Content
    BY <2>2, NumberTypes
  <2>4. /\ view'[a][i].output = transcript'[a][i]
        /\ Reaches(view[a][i], a, i)'
    BY <2>3 DEF IInv, ViewTrue, Recoverable
  <2>5. CASE view'[a][i].form = "shared"
    <3>1. /\ pr[1] = <<0, view'[a][i].output>> /\ pr[2] = view'[a][i].output
          /\ view'[a][i].output \in pool' /\ view'[a][i].output \in Big
      BY <2>1, <2>4, <2>5, <2>2 DEF RefOf, Reaches
    <3>2. pr[1] \in Refs
      BY <3>1 DEF Refs
    <3> QED
      BY <3>1, <3>2 DEF Vaulted, Shared
  <2>6. CASE view'[a][i].form = "masked"
    <3>1. pr[1] = <<a, i>> /\ pr[2] = view'[a][i].output /\ pr[1] \in Refs /\ a # 0
      BY <2>1, <2>3, <2>6, AgentsType DEF RefOf, Refs, Agent
    <3>2. Own(cold[a][i])' = view'[a][i].output
      BY <2>4, <2>6 DEF Reaches, Own, Shared
    <3> QED
      BY <3>1, <3>2 DEF Vaulted
  <2> QED
    BY <2>1, <2>3, <2>5, <2>6 DEF Content
<1>3. Owed' = [a \in Agent |-> IF a \in Agent THEN Owed'[a] ELSE Owed[a]]
  BY DEF Owed
<1>4. V!Hand(Agent)
  BY <1>1, <1>2, <1>3 DEF V!Hand
<1> QED
  BY <1>4 DEF V!Next

\* Every step of the agents and their rounds is one of the vault, or a stutter.
LEMMA StepImplements == ASSUME IInv, IInv', [Next]_vars PROVE [V!Next]_(V!vars)
<1>1. CASE UNCHANGED <<pool, cold, view>>
  BY <1>1 DEF V!vars, Vaulted, Own, Shared, Owed, RefOf
<1>2. ASSUME NEW a \in Agent, NEW i \in 1 .. Len(transcript[a]), MaskAlone(a, i)
      PROVE  [V!Next]_(V!vars)
  <2>1. i \in 1 .. MaxLen /\ transcript[a][i] \in Outputs
    BY <1>2, NumberTypes DEF MaskAlone, CanMask, IInv, TypeOK
  <2>2. Raw(transcript[a][i]) # Missing
    BY DEF Raw, Missing
  <2> QED
    BY <1>2, <2>1, <2>2, OwnPut DEF MaskAlone
<1>3. ASSUME NEW i \in 1 .. MaxLen, Mask(i) PROVE [V!Next]_(V!vars)
  <2>1. /\ turn \in Agent /\ stage = "compile" /\ CanMask(turn, i)
        /\ i \in 1 .. Len(working[turn])
    BY <1>3, AgentsType DEF Mask, Upcoming, Eligible, IInv, TypeOK, Agent
  <2>2. /\ i \in 1 .. Len(transcript[turn])
        /\ transcript[turn][i] \in Outputs
    BY <2>1 DEF IInv, WorkTrue, CanMask, TypeOK
  <2>3. working[turn][i] # Missing
    <3>1. working[turn][i] \in Content
      BY <2>1 DEF IInv, TypeOK
    <3>2. working[turn][i].form \in {"raw", "shared", "masked"} /\ Missing.form = "none"
      BY <3>1 DEF Content, Missing
    <3> QED
      BY <3>2
  <2> QED
    BY <1>3, <2>1, <2>2, <2>3, OwnPut DEF Mask
<1>4. ASSUME NEW i \in 1 .. MaxLen, Share(i) PROVE [V!Next]_(V!vars)
  BY <1>4, SharedPut
<1>5. CASE Answer
  BY <1>5, AnswerHands
<1>6. ASSUME NEW enough \in BOOLEAN, CompileNext(enough) PROVE UNCHANGED <<pool, cold, view>>
  BY <1>6 DEF CompileNext
<1>7. ASSUME DedupNext \/ PutFails \/ AgentFails PROVE UNCHANGED <<pool, cold, view>>
  BY <1>7 DEF DedupNext, PutFails, AgentFails, Stop
<1>8. CASE Round
  BY <1>1, <1>3, <1>4, <1>5, <1>6, <1>7, <1>8 DEF Round
<1> QED
  BY <1>1, <1>2, <1>8 DEF Next, Grow, Begin, vars

\* Rounds, single compiles and failing puts together implement the vault: a
\* reference is bound once, and answers hand out bound references only, for
\* any agents, outputs and windows (dedup_across_agents, compile_multi_agent).
THEOREM Implementation == Spec => ImplementsVault
<1>1. Init => V!Init
  <2> SUFFICES ASSUME Init PROVE V!Init
    OBVIOUS
  <2>1. \A r \in Refs : Vaulted[r] = Said
    BY DEF Init, Refs, Vaulted, Shared, Own, Missing
  <2>2. \A a \in Agent : Owed[a] = {}
    BY DEF Init, Owed
  <2> QED
    BY <2>1, <2>2 DEF V!Init, Vaulted, Owed
<1>2. IInv /\ IInv' /\ [Next]_vars => [V!Next]_(V!vars)
  BY StepImplements
<1> QED
  BY <1>1, <1>2, Invariance, PTL DEF Spec, V!Spec, ImplementsVault
=============================================================================
