--------------------------- MODULE SessionProofs ---------------------------
(***************************************************************************)
(* Session: type correctness; and, when no two clients share a key and no  *)
(* client adopts compiled messages, recoverability of every reference,     *)
(* stability of the store and the refinement of Vault.                     *)
(***************************************************************************)
EXTENDS Session, FileStore, SequenceTheorems, FiniteSetTheorems, TLAPS

\* The blocks of a running compile stand for the messages, one for one.
Aligned ==
    \A c \in Clients :
        /\ Len(transcript[c]) <= MaxLen[c]
        /\ stage[c] # "idle" => Len(work[c]) = Len(transcript[c])

TypeInv == TypeOK /\ Aligned

-----------------------------------------------------------------------------
(* Shapes of the values the actions build.                                 *)

\* Parsing yields blocks, one per message.
LEMMA ParseType ==
    ASSUME NEW ms \in Seq(Message)
    PROVE  Parse(ms) \in Seq(Block) /\ Len(Parse(ms)) = Len(ms)
<1>1. \A i \in 1 .. Len(ms) : ms[i] \in Message
  OBVIOUS
<1>2. \A i \in 1 .. Len(ms) :
        [name |-> ms[i].name, content |-> ms[i].content, cold |-> FALSE] \in Block
  BY <1>1 DEF Message, Block
<1> QED
  BY <1>2 DEF Parse

\* Turning blocks back yields messages, one per block.
LEMMA ToMessagesType ==
    ASSUME NEW bs \in Seq(Block)
    PROVE  ToMessages(bs) \in Seq(Message) /\ Len(ToMessages(bs)) = Len(bs)
<1>1. \A i \in 1 .. Len(bs) : bs[i] \in Block
  OBVIOUS
<1>2. \A i \in 1 .. Len(bs) :
        [name |-> bs[i].name, content |-> bs[i].content] \in Message
  BY <1>1 DEF Message, Block
<1> QED
  BY <1>2 DEF ToMessages

\* The contents the actions write are contents.
LEMMA ContentType ==
    /\ Nothing \in [form : {"none"}, payload : {NoPayload}, ref : {NoRef}]
    /\ Other \in Content
    /\ \A p \in Payloads : Raw(p) \in Content
    /\ \A f \in {"compacted", "masked"}, p \in Payloads \cup {NoPayload}, r \in Refs :
            Stub(f, p, r) \in Content
BY DEF Nothing, Other, Raw, Stub, Content

\* The key of a block is a reference.
LEMMA KeyType ==
    ASSUME TypeInv, NEW c \in Clients, stage[c] # "idle",
           NEW i \in 1 .. Len(work[c]), NEW dir \in {"err", "tool"}
    PROVE  <<SessionOf[c], dir, BlockId(work[c], i)>> \in Refs
<1>1. work[c] \in Seq(Block) /\ Len(work[c]) = Len(transcript[c])
      /\ Len(transcript[c]) <= MaxLen[c] /\ transcript[c] \in Seq(Message)
  BY DEF TypeInv, TypeOK, Aligned
<1>2. MaxLen[c] \in Nat
  BY NumberTypes
<1>3. i \in 1 .. MaxLen[c]
  BY <1>1, <1>2
<1>4. work[c][i].name \in Names \cup {NoName}
  <2>1. work[c][i] \in Block
    BY <1>1
  <2> QED
    BY <2>1 DEF Block
<1>5. BlockId(work[c], i) \in Ids
  BY <1>3, <1>4 DEF BlockId, Ids
<1> QED
  BY <1>5, SessionOfType DEF Refs

\* What storing one block does to the types and the alignment.
LEMMA HideType ==
    ASSUME TypeInv, NEW c \in Clients, stage[c] # "idle",
           NEW i \in 1 .. Len(work[c]), NEW dir \in {"err", "tool"},
           NEW form \in {"compacted", "masked"}, Hide(c, i, dir, form)
    PROVE  TypeInv'
<1> DEFINE r == <<SessionOf[c], dir, BlockId(work[c], i)>>
           b == work[c][i]
           nb == [b EXCEPT !.content = Stub(form, b.content.payload, r), !.cold = TRUE]
<1>1. r \in Refs
  BY KeyType
<1>2. work[c] \in Seq(Block) /\ b \in Block /\ b.content \in Content
  <2>1. work[c] \in Seq(Block) /\ b \in Block
    BY DEF TypeInv, TypeOK
  <2> QED
    BY <2>1 DEF Block
<1>3. b.content.payload \in Payloads \cup {NoPayload}
  BY <1>2 DEF Content
<1>4. nb \in Block
  <2>1. Stub(form, b.content.payload, r) \in Content
    BY <1>1, <1>3, ContentType
  <2> QED
    BY <1>2, <2>1 DEF Block
<1>5. [work[c] EXCEPT ![i] = nb] \in Seq(Block)
      /\ Len([work[c] EXCEPT ![i] = nb]) = Len(work[c])
  BY <1>2, <1>4, ExceptSeq
<1> QED
  BY <1>1, <1>2, <1>5 DEF TypeInv, TypeOK, Aligned, Hide

\* Every step keeps the types and the alignment of blocks with messages.
LEMMA TypeStep == TypeInv /\ [Next]_vars => TypeInv'
<1> SUFFICES ASSUME TypeInv, [Next]_vars
             PROVE  TypeInv'
  OBVIOUS
<1>1. CASE UNCHANGED vars
  BY <1>1 DEF vars, TypeInv, TypeOK, Aligned
<1>2. CASE Next
  <2>1. PICK c \in Clients : Agent(c) \/ Compile(c)
    BY <1>2 DEF Next
  <2>2. /\ transcript \in [Clients -> Seq(Message)]
        /\ view \in [Clients -> Seq(Message)]
        /\ work \in [Clients -> Seq(Block)]
        /\ Len(transcript[c]) <= MaxLen[c]
        /\ MaxLen[c] \in Nat
    BY NumberTypes DEF TypeInv, TypeOK, Aligned
  <2>3. \A m \in Message : Len(transcript[c]) < MaxLen[c] =>
            /\ Append(transcript[c], m) \in Seq(Message)
            /\ Len(Append(transcript[c], m)) <= MaxLen[c]
    BY <2>2
  <2>4. ASSUME NEW n \in NamesOf[c], NEW p \in Payloads, ToolResult(c, n, p)
        PROVE  TypeInv'
    <3>1. [name |-> n, content |-> Raw(p)] \in Message
      BY NamesOfType, ContentType DEF Message
    <3> QED
      BY <2>2, <2>3, <2>4, <3>1 DEF ToolResult, TypeInv, TypeOK, Aligned
  <2>5. CASE Speak(c)
    <3>1. [name |-> NoName, content |-> Other] \in Message
      BY ContentType DEF Message
    <3> QED
      BY <2>2, <2>3, <2>5, <3>1 DEF Speak, TypeInv, TypeOK, Aligned
  <2>6. CASE BeginCompile(c)
    <3>1. Parse(transcript[c]) \in Seq(Block)
          /\ Len(Parse(transcript[c])) = Len(transcript[c])
      BY <2>2, ParseType
    <3> QED
      BY <2>2, <2>6, <3>1 DEF BeginCompile, TypeInv, TypeOK, Aligned
  <2>7. ASSUME NEW i \in 1 .. Len(work[c]), CompactError(c, i)
        PROVE  TypeInv'
    BY <2>7, HideType DEF CompactError
  <2>8. ASSUME NEW i \in 1 .. Len(work[c]), MaskResult(c, i)
        PROVE  TypeInv'
    BY <2>8, HideType DEF MaskResult
  <2>9. CASE EndTransform(c)
    BY <2>9 DEF EndTransform, TypeInv, TypeOK, Aligned
  <2>10. <<>> \in Seq(Block)
    OBVIOUS
  <2>11. CASE Accept(c)
    <3>1. /\ ToMessages(work[c]) \in Seq(Message)
          /\ Len(ToMessages(work[c])) = Len(transcript[c])
      BY <2>2, <2>11, ToMessagesType DEF Accept, TypeInv, Aligned
    <3> QED
      BY <2>2, <2>10, <2>11, <3>1 DEF Accept, Close, TypeInv, TypeOK, Aligned
  <2>12. CASE PassThrough(c)
    <3>1. view' \in [Clients -> Seq(Message)]
      BY <2>2, <2>12 DEF PassThrough
    <3>2. TypeOK'
      BY <2>10, <2>12, <3>1 DEF PassThrough, Close, TypeInv, TypeOK
    <3>3. Aligned'
      BY <2>12 DEF PassThrough, Close, TypeInv, TypeOK, Aligned
    <3> QED
      BY <3>2, <3>3 DEF TypeInv
  <2>13. CASE Reject(c)
    BY <2>10, <2>13 DEF Reject, Close, TypeInv, TypeOK, Aligned
  <2>14. CASE PutFails(c)
    BY <2>10, <2>14 DEF PutFails, Close, TypeInv, TypeOK, Aligned
  <2> QED
    BY <2>1, <2>4, <2>5, <2>6, <2>7, <2>8, <2>9, <2>11, <2>12, <2>13, <2>14
    DEF Agent, Compile
<1> QED
  BY <1>1, <1>2 DEF vars

\* Every reachable state has the types of Session, however many clients,
\* sessions and messages there are.
THEOREM TypeCorrect == Spec => []TypeOK
<1>1. Init => TypeInv
  BY ContentType, NumberTypes DEF Init, TypeInv, TypeOK, Aligned
<1>2. TypeInv => TypeOK
  BY DEF TypeInv
<1> QED
  BY <1>1, <1>2, TypeStep, PTL DEF Spec
-----------------------------------------------------------------------------
(* The inductive invariant behind recoverability.                          *)

\* Transcripts hold tool output as it came, under names their client may use.
WellNamed ==
    \A c \in Clients : \A i \in 1 .. Len(transcript[c]) :
        IsTool(transcript[c][i]) =>
            /\ transcript[c][i].name \in NamesOf[c]
            /\ transcript[c][i].content.payload \in Payloads
            /\ transcript[c][i].content = Raw(transcript[c][i].content.payload)

\* No tool_call_id occurs twice in a transcript.
Unique ==
    \A c \in Clients : \A i, j \in 1 .. Len(transcript[c]) :
        /\ IsTool(transcript[c][i]) /\ IsTool(transcript[c][j])
        /\ transcript[c][i].name = transcript[c][j].name
        => i = j \/ transcript[c][i].name = NoName

\* r is a key under which message i of c may be stored.
Home(r, c, i) == /\ i \in 1 .. Len(transcript[c])
                 /\ IsTool(transcript[c][i])
                 /\ r[1] = SessionOf[c]
                 /\ r[3] = BlockId(transcript[c], i)

\* What is stored is a message of the client whose key it is.
StoreTrue ==
    \A r \in Refs : store[r] # Nothing =>
        \E c \in Clients, i \in Nat : Home(r, c, i) /\ store[r] = transcript[c][i].content

\* A block is its message, or a stub whose reference holds its message.
WorkTrue ==
    \A c \in Clients : stage[c] # "idle" => \A i \in 1 .. Len(work[c]) :
        /\ work[c][i].name = transcript[c][i].name
        /\ ~work[c][i].cold => work[c][i].content = transcript[c][i].content
        /\ work[c][i].cold =>
             /\ IsTool(transcript[c][i])
             /\ work[c][i].content.ref \in Refs
             /\ work[c][i].content.payload = transcript[c][i].content.payload
             /\ store[work[c][i].content.ref] = transcript[c][i].content

ViewTrue ==
    \A c \in Clients : \A i \in Stubs(view[c]) :
        /\ view[c][i].content.ref \in Refs
        /\ view[c][i].content.payload \in Payloads
        /\ Resolves(view[c][i])

IInv == TypeInv /\ WellNamed /\ Unique /\ StoreTrue /\ WorkTrue /\ ViewTrue

\* Every key belongs to at most one message of one client.
LEMMA KeyOwner ==
    ASSUME Separated, TypeInv, WellNamed, Unique,
           NEW r, NEW c \in Clients, NEW d \in Clients, NEW i, NEW j,
           Home(r, c, i), Home(r, d, j)
    PROVE  c = d /\ i = j
<1> DEFINE m == transcript[c][i]
           n == transcript[d][j]
<1>1. /\ i \in 1 .. Len(transcript[c]) /\ IsTool(m) /\ m.name \in NamesOf[c]
      /\ j \in 1 .. Len(transcript[d]) /\ IsTool(n) /\ n.name \in NamesOf[d]
      /\ SessionOf[c] = SessionOf[d]
      /\ BlockId(transcript[c], i) = BlockId(transcript[d], j)
  BY DEF Home, WellNamed
<1>2. m.name \in Names \cup {NoName} /\ n.name \in Names \cup {NoName}
  BY <1>1, NamesOfType
<1>3. /\ Len(transcript[c]) \in Nat /\ Len(transcript[d]) \in Nat
  BY DEF TypeInv, TypeOK
<1>4. i \in Nat /\ j \in Nat
  BY <1>1, <1>3
<1>5. c = d
  <2>1. SUFFICES ASSUME c # d PROVE FALSE
    OBVIOUS
  <2>2. /\ NamesOf[c] \cap NamesOf[d] = {}
        /\ NoName \notin NamesOf[c]
        /\ NoName \notin NamesOf[d]
    BY <1>1, <2>1 DEF Separated
  <2>3. m.name = n.name
    BY <1>1, <2>2 DEF BlockId
  <2> QED
    BY <1>1, <2>2, <2>3
<1>6. CASE m.name = NoName
  BY <1>1, <1>2, <1>4, <1>5, <1>6, NameTypes DEF BlockId
<1>7. CASE m.name # NoName
  <2>1. n.name # NoName
    BY <1>1, <1>2, <1>4, <1>7, NameTypes DEF BlockId
  <2> QED
    BY <1>1, <1>5, <1>7, <2>1 DEF BlockId, Unique
<1> QED
  BY <1>5, <1>6, <1>7

\* Storing a block whose key its message owns changes no binding.
LEMMA HideStable ==
    ASSUME Separated, IInv, NEW c \in Clients, stage[c] # "idle",
           NEW i \in 1 .. Len(work[c]), IsTool(work[c][i]), ~work[c][i].cold,
           NEW dir \in {"err", "tool"}, NEW form \in {"compacted", "masked"},
           Hide(c, i, dir, form)
    PROVE  /\ \A q \in Refs : store[q] # Nothing => store'[q] = store[q]
           /\ LET r == <<SessionOf[c], dir, BlockId(work[c], i)>> IN
                /\ r \in Refs /\ Home(r, c, i)
                /\ store' = [store EXCEPT ![r] = transcript[c][i].content]
<1> DEFINE r == <<SessionOf[c], dir, BlockId(work[c], i)>>
<1>1. r \in Refs
  BY KeyType DEF IInv
<1>2. /\ work[c][i].name = transcript[c][i].name
      /\ work[c][i].content = transcript[c][i].content
      /\ i \in 1 .. Len(transcript[c])
  BY DEF IInv, WorkTrue, TypeInv, Aligned
<1>3. Home(r, c, i)
  BY <1>2 DEF Home, IsTool, BlockId
<1>4. store' = [store EXCEPT ![r] = transcript[c][i].content]
  BY <1>2 DEF Hide
<1>5. ASSUME store[r] # Nothing PROVE store[r] = transcript[c][i].content
  <2>1. PICK d \in Clients, j \in Nat : Home(r, d, j) /\ store[r] = transcript[d][j].content
    BY <1>1, <1>5 DEF IInv, StoreTrue
  <2>2. c = d /\ i = j
    BY <1>3, <2>1, KeyOwner DEF IInv
  <2> QED
    BY <2>1, <2>2
<1>6. store \in [Refs -> Content \cup {Nothing}]
  BY DEF IInv, TypeInv, TypeOK
<1> QED
  BY <1>1, <1>3, <1>4, <1>5, <1>6

\* A put keeps every binding, so what is stored, worked on and handed out
\* stays true.
LEMMA HideTrue ==
    ASSUME Separated, IInv, NEW c \in Clients, stage[c] # "idle",
           NEW i \in 1 .. Len(work[c]), IsTool(work[c][i]), ~work[c][i].cold,
           NEW dir \in {"err", "tool"}, NEW form \in {"compacted", "masked"},
           Hide(c, i, dir, form)
    PROVE  IInv'
<1> DEFINE r == <<SessionOf[c], dir, BlockId(work[c], i)>>
           b == work[c][i]
           nb == [b EXCEPT !.content = Stub(form, b.content.payload, r), !.cold = TRUE]
<1>1. /\ \A q \in Refs : store[q] # Nothing => store'[q] = store[q]
      /\ r \in Refs /\ Home(r, c, i)
      /\ store' = [store EXCEPT ![r] = transcript[c][i].content]
  BY HideStable
<1>2. TypeInv'
  BY HideType DEF IInv
<1>3. UNCHANGED <<transcript, stage, view>>
  BY DEF Hide
<1>4. WellNamed' /\ Unique'
  BY <1>3 DEF IInv, WellNamed, Unique
<1>5. \A q, d, j : Home(q, d, j)' <=> Home(q, d, j)
  BY <1>3 DEF Home
<1>6. store \in [Refs -> Content \cup {Nothing}] /\ work \in [Clients -> Seq(Block)]
  BY DEF IInv, TypeInv, TypeOK
<1>7. /\ b \in Block /\ b.content = transcript[c][i].content
      /\ b.name = transcript[c][i].name /\ i \in Nat
  BY <1>6 DEF IInv, WorkTrue
<1>8. StoreTrue'
  BY <1>1, <1>3, <1>5, <1>6, <1>7 DEF IInv, StoreTrue
<1>9. Nothing # transcript[c][i].content
  BY <1>7 DEF Nothing, Block, Content
<1>10. WorkTrue'
  <2> SUFFICES ASSUME NEW d \in Clients, stage[d] # "idle", NEW j \in 1 .. Len(work'[d])
               PROVE  /\ work'[d][j].name = transcript[d][j].name
                      /\ ~work'[d][j].cold =>
                            work'[d][j].content = transcript[d][j].content
                      /\ work'[d][j].cold =>
                            /\ IsTool(transcript[d][j])
                            /\ work'[d][j].content.ref \in Refs
                            /\ work'[d][j].content.payload = transcript[d][j].content.payload
                            /\ store'[work'[d][j].content.ref] = transcript[d][j].content
    BY <1>3 DEF WorkTrue
  <2>1. CASE d = c /\ j = i
    <3>1. work'[c][i] = nb
      <4>1. work'[c] = [work[c] EXCEPT ![i] = nb]
        BY <1>6 DEF Hide
      <4>2. i \in DOMAIN work[c]
        BY <1>6
      <4> QED
        BY <4>1, <4>2
    <3>2. /\ nb.name = b.name /\ nb.cold = TRUE
          /\ nb.content = Stub(form, b.content.payload, r)
      BY <1>7 DEF Block
    <3>3. /\ nb.content.ref = r /\ nb.content.payload = b.content.payload
      BY <3>2 DEF Stub
    <3> QED
      BY <1>1, <1>6, <1>7, <2>1, <3>1, <3>2, <3>3 DEF Home
  <2>2. CASE ~(d = c /\ j = i)
    <3>1. work'[d][j] = work[d][j] /\ j \in 1 .. Len(work[d])
      BY <1>6, <2>2 DEF Hide
    <3>2. work[d][j].cold => transcript[d][j].content # Nothing
      <4>1. \A m \in Seq(Message) : \A k \in 1 .. Len(m) : m[k] \in Message
        OBVIOUS
      <4>2. j \in 1 .. Len(transcript[d]) /\ transcript[d] \in Seq(Message)
        BY <3>1 DEF IInv, TypeInv, TypeOK, Aligned
      <4>3. transcript[d][j] \in Message
        BY <4>1, <4>2
      <4>4. transcript[d][j].content \in Content
        BY <4>3 DEF Message
      <4>5. transcript[d][j].content.form # "none"
        BY <4>4 DEF Content
      <4> QED
        BY <4>5 DEF Nothing
    <3>3. /\ work[d][j].name = transcript[d][j].name
          /\ ~work[d][j].cold => work[d][j].content = transcript[d][j].content
          /\ work[d][j].cold =>
                /\ IsTool(transcript[d][j])
                /\ work[d][j].content.ref \in Refs
                /\ work[d][j].content.payload = transcript[d][j].content.payload
                /\ store[work[d][j].content.ref] = transcript[d][j].content
      BY <3>1 DEF IInv, WorkTrue
    <3>4. work[d][j].cold => store'[work[d][j].content.ref] = transcript[d][j].content
      <4> SUFFICES ASSUME work[d][j].cold
                   PROVE  store'[work[d][j].content.ref] = store[work[d][j].content.ref]
        BY <3>3
      <4>1. store[work[d][j].content.ref] # Nothing /\ work[d][j].content.ref \in Refs
        BY <3>2, <3>3
      <4> HIDE DEF r
      <4> QED
        BY <1>1, <4>1
    <3> QED
      BY <3>1, <3>3, <3>4
  <2> QED
    BY <2>1, <2>2
<1>11. ViewTrue'
  <2> SUFFICES ASSUME NEW d \in Clients, NEW j \in Stubs(view[d])
               PROVE  /\ view[d][j].content.ref \in Refs
                      /\ view[d][j].content.payload \in Payloads
                      /\ store'[view[d][j].content.ref] = Raw(view[d][j].content.payload)
    BY <1>3 DEF ViewTrue, Stubs, Resolves
  <2>1. /\ view[d][j].content.ref \in Refs
        /\ view[d][j].content.payload \in Payloads
        /\ store[view[d][j].content.ref] = Raw(view[d][j].content.payload)
    BY DEF IInv, ViewTrue, Resolves
  <2>2. Raw(view[d][j].content.payload) # Nothing
    BY DEF Raw, Nothing
  <2> QED
    BY <1>1, <2>1, <2>2
<1> QED
  BY <1>2, <1>4, <1>8, <1>10, <1>11 DEF IInv

\* The blocks the two transforms write are tool results not yet stored.
LEMMA EligibleIsFresh ==
    ASSUME NEW c \in Clients, NEW i, Eligible(c, i)
    PROVE  IsTool(work[c][i]) /\ ~work[c][i].cold
BY DEF Eligible, CanCompact, CanMask, Failed, IsTool

\* What Append does to length, domain and elements.
LEMMA AppendProps ==
    ASSUME NEW ms \in Seq(Message), NEW m \in Message
    PROVE  /\ Len(Append(ms, m)) = Len(ms) + 1
           /\ \A i \in 1 .. Len(ms) : Append(ms, m)[i] = ms[i]
           /\ Append(ms, m)[Len(ms) + 1] = m
OBVIOUS

\* A new message leaves every key where it was.
LEMMA GrowTrue ==
    ASSUME IInv, NEW c \in Clients, NEW m \in Message, stage[c] = "idle",
           transcript' = [transcript EXCEPT ![c] = Append(@, m)],
           UNCHANGED <<store, stage, at, work, view>>, TypeInv',
           IsTool(m) => /\ m.name \in NamesOf[c]
                        /\ m.content.payload \in Payloads
                        /\ m.content = Raw(m.content.payload),
           IsTool(m) /\ m.name # NoName =>
                \A i \in 1 .. Len(transcript[c]) : transcript[c][i].name # m.name
    PROVE  IInv'
<1> DEFINE n == Len(transcript[c])
<1>1. /\ transcript \in [Clients -> Seq(Message)] /\ transcript[c] \in Seq(Message)
      /\ \A d \in Clients : Len(transcript[d]) \in Nat
  BY DEF IInv, TypeInv, TypeOK
<1>2. /\ \A d \in Clients : d # c => transcript'[d] = transcript[d]
      /\ Len(transcript'[c]) = n + 1
      /\ \A i \in 1 .. n : transcript'[c][i] = transcript[c][i]
      /\ transcript'[c][n + 1] = m
  <2>1. transcript'[c] = Append(transcript[c], m)
    BY <1>1
  <2> QED
    BY <1>1, <2>1, AppendProps
<1>3. \A d \in Clients : \A i \in 1 .. Len(transcript[d]) :
        i \in 1 .. Len(transcript'[d]) /\ transcript'[d][i] = transcript[d][i]
  BY <1>1, <1>2
<1>4. \A d \in Clients : \A i \in 1 .. Len(transcript'[d]) :
        \/ i \in 1 .. Len(transcript[d]) /\ transcript'[d][i] = transcript[d][i]
        \/ d = c /\ i = n + 1 /\ transcript'[d][i] = m
  BY <1>1, <1>2
<1>5. WellNamed'
  BY <1>4 DEF IInv, WellNamed
<1>6. Unique'
  <2> SUFFICES ASSUME NEW d \in Clients, NEW i \in 1 .. Len(transcript'[d]),
                      NEW j \in 1 .. Len(transcript'[d]),
                      IsTool(transcript'[d][i]), IsTool(transcript'[d][j]),
                      transcript'[d][i].name = transcript'[d][j].name,
                      transcript'[d][i].name # NoName
               PROVE  i = j
    BY DEF Unique, IsTool
  <2> QED
    BY <1>4 DEF IInv, Unique
<1>7. \A r : \A d \in Clients : \A i : Home(r, d, i) => Home(r, d, i)'
  BY <1>3 DEF Home, BlockId
<1>8. StoreTrue'
  <2> SUFFICES ASSUME NEW r \in Refs, store[r] # Nothing
               PROVE  \E d \in Clients, i \in Nat :
                        Home(r, d, i)' /\ store[r] = transcript'[d][i].content
    BY DEF StoreTrue
  <2>1. PICK d \in Clients, i \in Nat : Home(r, d, i) /\ store[r] = transcript[d][i].content
    BY DEF IInv, StoreTrue
  <2>2. i \in 1 .. Len(transcript[d])
    BY <2>1 DEF Home
  <2> QED
    BY <1>3, <2>1, <2>2 DEF Home, BlockId
<1>9. WorkTrue'
  <2>1. \A d \in Clients : stage[d] # "idle" => transcript'[d] = transcript[d]
    BY <1>2
  <2> QED
    BY <2>1 DEF IInv, WorkTrue
<1>10. ViewTrue'
  BY DEF IInv, ViewTrue, Stubs, Resolves
<1> QED
  BY <1>5, <1>6, <1>8, <1>9, <1>10 DEF IInv

\* A transcript that holds no stub hands out none.
LEMMA PlainTranscript ==
    ASSUME IInv, NEW c \in Clients
    PROVE  Stubs(transcript[c]) = {}
<1> SUFFICES ASSUME NEW i \in 1 .. Len(transcript[c]),
                    transcript[c][i].content.form \in {"compacted", "masked"}
             PROVE  FALSE
  BY DEF Stubs
<1>1. IsTool(transcript[c][i])
  BY DEF IsTool
<1>2. transcript[c][i].content = Raw(transcript[c][i].content.payload)
  BY <1>1 DEF IInv, WellNamed
<1> QED
  BY <1>2 DEF Raw

\* The stubs of a finished compile resolve.
LEMMA CompiledTrue ==
    ASSUME IInv, NEW c \in Clients, stage[c] # "idle",
           NEW i \in Stubs(ToMessages(work[c]))
    PROVE  LET m == ToMessages(work[c])[i] IN
             /\ m.content.ref \in Refs
             /\ m.content.payload \in Payloads
             /\ Resolves(m)
<1>1. work[c] \in Seq(Block) /\ Len(work[c]) = Len(transcript[c])
  BY DEF IInv, TypeInv, TypeOK, Aligned
<1>2. /\ i \in 1 .. Len(work[c])
      /\ ToMessages(work[c])[i].content = work[c][i].content
      /\ work[c][i].content.form \in {"compacted", "masked"}
  BY <1>1 DEF Stubs, ToMessages
<1>3. work[c][i] \in Block
  BY <1>1, <1>2
<1>4. work[c][i].cold
  <2>1. SUFFICES ASSUME ~work[c][i].cold PROVE FALSE
    OBVIOUS
  <2>2. i \in Stubs(transcript[c])
    BY <1>1, <1>2, <2>1 DEF IInv, WorkTrue, Stubs
  <2> QED
    BY <2>2, PlainTranscript
<1>5. /\ IsTool(transcript[c][i])
      /\ work[c][i].content.ref \in Refs
      /\ work[c][i].content.payload = transcript[c][i].content.payload
      /\ store[work[c][i].content.ref] = transcript[c][i].content
  BY <1>2, <1>4 DEF IInv, WorkTrue
<1>6. /\ transcript[c][i].content.payload \in Payloads
      /\ transcript[c][i].content = Raw(transcript[c][i].content.payload)
  BY <1>1, <1>2, <1>5 DEF IInv, WellNamed
<1> QED
  BY <1>2, <1>5, <1>6 DEF Resolves

\* Closing a request without touching transcripts and store.
LEMMA CloseTrue ==
    ASSUME IInv, TypeInv', NEW c \in Clients, stage[c] # "idle", Close(c),
           UNCHANGED transcript, ViewTrue'
    PROVE  IInv'
<1>1. /\ stage' = [stage EXCEPT ![c] = "idle"]
      /\ work' = [work EXCEPT ![c] = <<>>]
      /\ stage \in [Clients -> {"idle", "compact", "mask", "gate"}]
      /\ work \in [Clients -> Seq(Block)]
  BY DEF IInv, TypeInv, TypeOK, Close
<1>2. WellNamed' /\ Unique'
  BY DEF IInv, WellNamed, Unique
<1>3. \A r, d, i : Home(r, d, i)' <=> Home(r, d, i)
  BY DEF Home
<1>4. StoreTrue'
  BY <1>3 DEF IInv, StoreTrue, Close
<1>5. WorkTrue'
  <2> SUFFICES ASSUME NEW d \in Clients, stage'[d] # "idle"
               PROVE  work'[d] = work[d] /\ stage[d] # "idle" /\ UNCHANGED store
    BY DEF IInv, WorkTrue
  <2> QED
    BY <1>1 DEF Close
<1> QED
  BY <1>2, <1>4, <1>5 DEF IInv

\* Every step preserves the inductive invariant, one case per action.
LEMMA Step ==
    ASSUME Separated, Adopters = {}
    PROVE  IInv /\ [Next]_vars => IInv'
<1> SUFFICES ASSUME IInv, [Next]_vars
             PROVE  IInv'
  OBVIOUS
<1>1. TypeInv'
  BY TypeStep DEF IInv
<1>2. CASE UNCHANGED vars
  <2>1. \A r, d, i : Home(r, d, i)' <=> Home(r, d, i)
    BY <1>2 DEF Home, vars
  <2>2. WellNamed' /\ Unique' /\ ViewTrue' /\ WorkTrue'
    BY <1>2 DEF IInv, WellNamed, Unique, WorkTrue, ViewTrue, Stubs, Resolves, vars
  <2>3. StoreTrue'
    BY <1>2, <2>1 DEF IInv, StoreTrue, vars
  <2> QED
    BY <1>1, <2>2, <2>3 DEF IInv
<1>3. CASE Next
  <2>1. PICK c \in Clients : Agent(c) \/ Compile(c)
    BY <1>3 DEF Next
  <2>2. TypeInv /\ transcript[c] \in Seq(Message)
    BY DEF IInv, TypeInv, TypeOK
  <2>3. ASSUME NEW n \in NamesOf[c], NEW p \in Payloads, ToolResult(c, n, p)
        PROVE  IInv'
    <3> DEFINE m == [name |-> n, content |-> Raw(p)]
    <3>1. m \in Message
      BY NamesOfType, ContentType DEF Message
    <3>2. m.name = n /\ m.content = Raw(p) /\ m.content.payload = p
      BY DEF Raw
    <3> QED
      BY <1>1, <2>3, <3>1, <3>2, GrowTrue DEF ToolResult
  <2>4. CASE Speak(c)
    <3> DEFINE m == [name |-> NoName, content |-> Other]
    <3>1. m \in Message /\ ~IsTool(m)
      BY ContentType DEF Message, IsTool, Other
    <3> QED
      BY <1>1, <2>4, <3>1, GrowTrue DEF Speak
  <2>5. CASE BeginCompile(c)
    <3>1. /\ UNCHANGED <<transcript, store, view>>
          /\ work \in [Clients -> Seq(Block)]
          /\ stage \in [Clients -> {"idle", "compact", "mask", "gate"}]
      BY <2>2, <2>5 DEF BeginCompile, TypeInv, TypeOK
    <3>2. \A r, d, i : Home(r, d, i)' <=> Home(r, d, i)
      BY <3>1 DEF Home
    <3>3. WellNamed' /\ Unique' /\ ViewTrue' /\ StoreTrue'
      BY <3>1, <3>2 DEF IInv, WellNamed, Unique, ViewTrue, StoreTrue, Stubs, Resolves
    <3>4. WorkTrue'
      <4> SUFFICES ASSUME NEW d \in Clients, stage'[d] # "idle",
                          NEW i \in 1 .. Len(work'[d])
                   PROVE  /\ work'[d][i].name = transcript[d][i].name
                          /\ ~work'[d][i].cold =>
                                work'[d][i].content = transcript[d][i].content
                          /\ work'[d][i].cold =>
                               /\ IsTool(transcript[d][i])
                               /\ work'[d][i].content.ref \in Refs
                               /\ work'[d][i].content.payload = transcript[d][i].content.payload
                               /\ store[work'[d][i].content.ref] = transcript[d][i].content
        BY <3>1 DEF WorkTrue
      <4>1. CASE d = c
        <5>1. work'[c] = Parse(transcript[c]) /\ Len(Parse(transcript[c])) = Len(transcript[c])
          BY <2>2, <2>5, <3>1, ParseType DEF BeginCompile
        <5> QED
          BY <4>1, <5>1 DEF Parse
      <4>2. CASE d # c
        <5>1. work'[d] = work[d] /\ stage[d] # "idle"
          BY <2>5, <3>1, <4>2 DEF BeginCompile
        <5> QED
          BY <5>1 DEF IInv, WorkTrue
      <4> QED
        BY <4>1, <4>2
    <3> QED
      BY <1>1, <3>3, <3>4 DEF IInv
  <2>6. ASSUME NEW i \in 1 .. Len(work[c]), CompactError(c, i) \/ MaskResult(c, i)
        PROVE  IInv'
    BY <2>6, EligibleIsFresh, HideTrue DEF CompactError, MaskResult, NextEligible
  <2>7. CASE EndTransform(c)
    <3>1. /\ UNCHANGED <<transcript, store, work, view>>
          /\ \A d \in Clients : stage'[d] # "idle" => stage[d] # "idle"
      BY <2>2, <2>7 DEF EndTransform, TypeInv, TypeOK
    <3>2. \A r, d, i : Home(r, d, i)' <=> Home(r, d, i)
      BY <3>1 DEF Home
    <3>3. WellNamed' /\ Unique' /\ ViewTrue' /\ StoreTrue' /\ WorkTrue'
      BY <3>1, <3>2
         DEF IInv, WellNamed, Unique, ViewTrue, StoreTrue, WorkTrue, Stubs, Resolves
    <3> QED
      BY <1>1, <3>3 DEF IInv
  <2>8. CASE Accept(c)
    <3>1. /\ view' = [view EXCEPT ![c] = ToMessages(work[c])]
          /\ view \in [Clients -> Seq(Message)]
          /\ UNCHANGED <<transcript, store>>
          /\ stage[c] # "idle" /\ Close(c)
      BY <2>2, <2>8 DEF Accept, Close, TypeInv, TypeOK
    <3>2. ViewTrue'
      <4> SUFFICES ASSUME NEW d \in Clients, NEW i \in Stubs(view'[d])
                   PROVE  /\ view'[d][i].content.ref \in Refs
                          /\ view'[d][i].content.payload \in Payloads
                          /\ Resolves(view'[d][i])
        BY <3>1 DEF ViewTrue, Stubs, Resolves
      <4>1. CASE d = c
        BY <3>1, <4>1, CompiledTrue
      <4>2. CASE d # c
        BY <3>1, <4>2 DEF IInv, ViewTrue
      <4> QED
        BY <4>1, <4>2
    <3> QED
      BY <1>1, <3>1, <3>2, CloseTrue
  <2>9. CASE PassThrough(c)
    <3>1. /\ view' = [view EXCEPT ![c] = transcript[c]]
          /\ view \in [Clients -> Seq(Message)]
          /\ UNCHANGED <<transcript, store>>
          /\ stage[c] # "idle" /\ Close(c)
      BY <2>2, <2>9 DEF PassThrough, Close, TypeInv, TypeOK
    <3>2. ViewTrue'
      <4> SUFFICES ASSUME NEW d \in Clients, NEW i \in Stubs(view'[d])
                   PROVE  /\ view'[d][i].content.ref \in Refs
                          /\ view'[d][i].content.payload \in Payloads
                          /\ Resolves(view'[d][i])
        BY <3>1 DEF ViewTrue, Stubs, Resolves
      <4>1. d # c
        BY <3>1, PlainTranscript
      <4> QED
        BY <3>1, <4>1 DEF IInv, ViewTrue
    <3> QED
      BY <1>1, <3>1, <3>2, CloseTrue
  <2>10. CASE Reject(c) \/ PutFails(c)
    <3>1. UNCHANGED <<transcript, store, view>> /\ stage[c] # "idle" /\ Close(c)
      BY <2>10 DEF Reject, PutFails, Close
    <3>2. ViewTrue'
      BY <3>1 DEF IInv, ViewTrue, Stubs, Resolves
    <3> QED
      BY <1>1, <3>1, <3>2, CloseTrue
  <2> QED
    BY <2>1, <2>3, <2>4, <2>5, <2>6, <2>7, <2>8, <2>9, <2>10 DEF Agent, Compile
<1> QED
  BY <1>2, <1>3 DEF vars

\* The initial state satisfies the inductive invariant.
LEMMA Start == Init => IInv
<1> SUFFICES ASSUME Init PROVE IInv
  OBVIOUS
<1>1. TypeInv
  BY ContentType, NumberTypes DEF Init, TypeInv, TypeOK, Aligned
<1>2. WellNamed /\ Unique /\ StoreTrue /\ WorkTrue /\ ViewTrue
  BY DEF Init, WellNamed, Unique, StoreTrue, WorkTrue, ViewTrue, Stubs
<1> QED
  BY <1>1, <1>2 DEF IInv

\* For any number of clients, sessions and messages: if no two clients share
\* a key and none adopts compiled messages, every reference a client was
\* handed yields the tool output it replaced (store.rs put/get under the
\* two masking transforms).
THEOREM Recovery ==
    ASSUME Separated, Adopters = {}
    PROVE  Spec => []Recoverable
<1>1. IInv => Recoverable
  BY DEF IInv, ViewTrue, Recoverable
<1> QED
  BY <1>1, Start, Step, PTL DEF Spec

\* No step from a state of the invariant rebinds a reference.
LEMMA StepStable ==
    ASSUME Separated, IInv, [Next]_vars
    PROVE  \A r \in Refs : store[r] # Nothing => store'[r] = store[r]
<1>1. CASE UNCHANGED store
  BY <1>1
<1>2. ASSUME NEW c \in Clients, NEW i \in 1 .. Len(work[c]),
             CompactError(c, i) \/ MaskResult(c, i)
      PROVE  \A r \in Refs : store[r] # Nothing => store'[r] = store[r]
  BY <1>2, EligibleIsFresh, HideStable DEF CompactError, MaskResult, NextEligible
<1> QED
  BY <1>1, <1>2 DEF Next, Agent, Compile, ToolResult, Speak, BeginCompile,
     EndTransform, Accept, PassThrough, Reject, PutFails, Close, vars

\* Under the same conditions a reference, once bound, is never rebound: puts
\* of later compiles, retries and other clients write what is there already.
THEOREM Stability ==
    ASSUME Separated, Adopters = {}
    PROVE  Spec => StableReference
<1>1. IInv /\ [Next]_vars =>
        [\A r \in Refs : store[r] # Nothing => store'[r] = store[r]]_store
  BY StepStable
<1> QED
  BY <1>1, Start, Step, PTL DEF Spec, StableReference

-----------------------------------------------------------------------------
(* A session implements the vault.                                         *)

\* A put is a deposit into the vault, or the vault does not change.
LEMMA HideDeposits ==
    ASSUME Separated, IInv, NEW c \in Clients, stage[c] # "idle",
           NEW i \in 1 .. Len(work[c]), IsTool(work[c][i]), ~work[c][i].cold,
           NEW dir \in {"err", "tool"}, NEW form \in {"compacted", "masked"},
           Hide(c, i, dir, form)
    PROVE  [V!Next]_(V!vars)
<1> DEFINE r == <<SessionOf[c], dir, BlockId(work[c], i)>>
           p == transcript[c][i].content.payload
<1>1. /\ \A q \in Refs : store[q] # Nothing => store'[q] = store[q]
      /\ r \in Refs /\ Home(r, c, i)
      /\ store' = [store EXCEPT ![r] = transcript[c][i].content]
  BY HideStable
<1>2. /\ p \in Payloads
      /\ transcript[c][i].content = Raw(p)
  BY <1>1 DEF IInv, WellNamed, Home
<1>3. store \in [Refs -> Content \cup {Nothing}] /\ UNCHANGED view
  BY DEF IInv, TypeInv, TypeOK, Hide
<1>4. UNCHANGED Owed
  BY <1>3 DEF Owed, Stubs
<1>5. CASE store[r] = Nothing
  <2>1. Vaulted[r] = NoPayload
    BY <1>1, <1>5 DEF Vaulted, Nothing
  <2>2. store'[r] = Raw(p) /\ \A q \in Refs : q # r => store'[q] = store[q]
    BY <1>1, <1>2, <1>3
  <2>3. Vaulted'[r] = p /\ \A q \in Refs : q # r => Vaulted'[q] = Vaulted[q]
    BY <1>1, <2>2 DEF Vaulted, Raw
  <2>4. Vaulted' = [Vaulted EXCEPT ![r] = Vaulted'[r]]
    BY <2>3 DEF Vaulted
  <2>5. V!Deposit(r)
    BY <1>2, <1>4, <2>1, <2>3, <2>4 DEF V!Deposit
  <2> QED
    BY <1>1, <2>5 DEF V!Next
<1>6. CASE store[r] # Nothing
  <2>1. \A q \in Refs : store'[q] = store[q]
    BY <1>1, <1>3, <1>6
  <2>2. UNCHANGED Vaulted
    BY <2>1 DEF Vaulted
  <2> QED
    BY <1>4, <2>2 DEF V!vars
<1> QED
  BY <1>5, <1>6

\* A response hands out references that resolve.
LEMMA ResponseHands ==
    ASSUME IInv, IInv', NEW c \in Clients, UNCHANGED store,
           view' = [view EXCEPT ![c] = view'[c]]
    PROVE  [V!Next]_(V!vars)
<1>1. UNCHANGED Vaulted
  BY DEF Vaulted
<1>2. view \in [Clients -> Seq(Message)]
  BY DEF IInv, TypeInv, TypeOK
<1>3. Owed' = [d \in Clients |-> IF d \in {c} THEN Owed'[d] ELSE Owed[d]]
  <2>1. \A d \in Clients : d # c => Owed'[d] = Owed[d]
    BY <1>2 DEF Owed, Stubs
  <2>2. Owed' = [d \in Clients |-> Owed'[d]]
    BY DEF Owed
  <2> QED
    BY <2>1, <2>2
<1>4. \A pr \in Owed'[c] : Vaulted[pr[1]] = pr[2]
  <2> SUFFICES ASSUME NEW i \in Stubs(view'[c])
               PROVE  Vaulted[view'[c][i].content.ref] = view'[c][i].content.payload
    BY DEF Owed
  <2>1. /\ view'[c][i].content.ref \in Refs
        /\ store[view'[c][i].content.ref] = Raw(view'[c][i].content.payload)
    BY DEF IInv, ViewTrue, Resolves
  <2> QED
    BY <2>1 DEF Vaulted, Raw
<1>5. V!Hand({c})
  BY <1>1, <1>3, <1>4 DEF V!Hand
<1> QED
  BY <1>5 DEF V!Next

\* Every step of a session is a step of the vault or a stutter.
LEMMA StepImplements ==
    ASSUME Separated, IInv, IInv', [Next]_vars
    PROVE  [V!Next]_(V!vars)
<1>1. CASE UNCHANGED <<store, view>>
  BY <1>1 DEF V!vars, Vaulted, Owed, Stubs
<1>2. ASSUME NEW c \in Clients, NEW i \in 1 .. Len(work[c]),
             CompactError(c, i) \/ MaskResult(c, i)
      PROVE  [V!Next]_(V!vars)
  BY <1>2, EligibleIsFresh, HideDeposits DEF CompactError, MaskResult, NextEligible
<1>3. ASSUME NEW c \in Clients, Accept(c) \/ PassThrough(c)
      PROVE  [V!Next]_(V!vars)
  <2>1. view \in [Clients -> Seq(Message)]
    BY DEF IInv, TypeInv, TypeOK
  <2>2. view' = [view EXCEPT ![c] = view'[c]] /\ UNCHANGED store
    BY <1>3, <2>1 DEF Accept, PassThrough, Close
  <2> QED
    BY <2>2, ResponseHands
<1> QED
  BY <1>1, <1>2, <1>3 DEF Next, Agent, Compile, ToolResult, Speak, BeginCompile,
     EndTransform, Reject, PutFails, Close, vars

\* Under the conditions of Recovery a session implements the vault: its puts
\* bind references once, its responses hand out bound references only.
THEOREM Implementation ==
    ASSUME Separated, Adopters = {}
    PROVE  Spec => ImplementsVault
<1>1. Init => V!Init
  BY DEF Init, V!Init, Vaulted, Owed, Nothing, Stubs
<1>2. IInv /\ IInv' /\ [Next]_vars => [V!Next]_(V!vars)
  BY StepImplements
<1> QED
  BY <1>1, <1>2, Start, Step, PTL DEF Spec, V!Spec, ImplementsVault
-----------------------------------------------------------------------------
(* The newest results reach the model as they were.                        *)

\* The tool results after block or message i.
Later(ms, i) == {j \in 1 .. Len(ms) : j > i /\ IsTool(ms[j])}

\* No masked content is among the newest KeepRecent.
OldMasked(ms) == \A i \in 1 .. Len(ms) :
                    ms[i].content.form = "masked" => Cardinality(Later(ms, i)) >= KeepRecent

RecentInv == /\ TypeInv
             /\ \A c \in Clients : /\ OldMasked(transcript[c])
                                   /\ OldMasked(work[c])
                                   /\ OldMasked(view[c])

\* It depends on the contents alone.
LEMMA SameContents ==
    ASSUME NEW ms, NEW ns, OldMasked(ms), Len(ns) = Len(ms),
           \A i \in 1 .. Len(ms) : ns[i].content = ms[i].content
    PROVE  OldMasked(ns)
<1>1. \A i \in 1 .. Len(ms) : Later(ns, i) = Later(ms, i)
  BY DEF Later, IsTool
<1> QED
  BY <1>1 DEF OldMasked

\* Parsing and turning back keep it.
LEMMA ConversionsOld ==
    /\ \A ms \in Seq(Message) : OldMasked(ms) => OldMasked(Parse(ms))
    /\ \A bs \in Seq(Block) : OldMasked(bs) => OldMasked(ToMessages(bs))
<1>1. ASSUME NEW ms \in Seq(Message), OldMasked(ms) PROVE OldMasked(Parse(ms))
  <2>1. Len(Parse(ms)) = Len(ms) /\ \A i \in 1 .. Len(ms) : Parse(ms)[i].content = ms[i].content
    BY ParseType DEF Parse
  <2> QED
    BY <1>1, <2>1, SameContents
<1>2. ASSUME NEW bs \in Seq(Block), OldMasked(bs) PROVE OldMasked(ToMessages(bs))
  <2>1. /\ Len(ToMessages(bs)) = Len(bs)
        /\ \A i \in 1 .. Len(bs) : ToMessages(bs)[i].content = bs[i].content
    BY ToMessagesType DEF ToMessages
  <2> QED
    BY <1>2, <2>1, SameContents
<1> QED
  BY <1>1, <1>2

\* A new message that is not masked keeps it: no message gets fewer after it.
LEMMA AppendOld ==
    ASSUME NEW ms \in Seq(Message), OldMasked(ms), NEW m \in Message, m.content.form # "masked"
    PROVE  OldMasked(Append(ms, m))
<1> DEFINE ns == Append(ms, m)
<1>1. /\ Len(ns) = Len(ms) + 1 /\ Len(ms) \in Nat
      /\ \A i \in 1 .. Len(ms) : ns[i] = ms[i]
      /\ ns[Len(ms) + 1] = m
  BY AppendProps
<1> HIDE DEF ns
<1> SUFFICES ASSUME NEW i \in 1 .. Len(ns), ns[i].content.form = "masked"
             PROVE  Cardinality(Later(ns, i)) >= KeepRecent
  BY DEF OldMasked, ns
<1>2. i \in 1 .. Len(ms) /\ ms[i].content.form = "masked"
  BY <1>1
<1>3. Cardinality(Later(ms, i)) >= KeepRecent
  BY <1>2 DEF OldMasked
<1>4. Later(ms, i) \in SUBSET Later(ns, i)
  BY <1>1 DEF Later
<1>5. IsFiniteSet(1 .. Len(ns)) /\ Later(ns, i) \in SUBSET (1 .. Len(ns))
  BY <1>1, FS_Interval DEF Later
<1>6. IsFiniteSet(Later(ns, i))
  BY <1>5, FS_Subset
<1>7. IsFiniteSet(Later(ms, i)) /\ Cardinality(Later(ms, i)) <= Cardinality(Later(ns, i))
  BY <1>4, <1>6, FS_Subset
<1>8. Cardinality(Later(ms, i)) \in Nat /\ Cardinality(Later(ns, i)) \in Nat /\ KeepRecent \in Nat
  BY <1>6, <1>7, FS_CardinalityType, NumberTypes
<1> QED
  BY <1>3, <1>7, <1>8

\* Hiding a tool result that is old enough, or behind a failure's stub, keeps it.
LEMMA HideOld ==
    ASSUME TypeInv, NEW c \in Clients, NEW i \in 1 .. Len(work[c]), IsTool(work[c][i]),
           NEW dir \in {"err", "tool"}, NEW form \in {"compacted", "masked"},
           form = "masked" => CanMask(work[c], i),
           Hide(c, i, dir, form), OldMasked(work[c])
    PROVE  OldMasked(work'[c])
<1>1. work \in [Clients -> Seq(Block)] /\ work[c] \in Seq(Block) /\ work[c][i] \in Block
  BY DEF TypeInv, TypeOK
<1>2. /\ Len(work'[c]) = Len(work[c])
      /\ \A j \in 1 .. Len(work[c]) : j # i => work'[c][j] = work[c][j]
      /\ work'[c][i].content.form = form
  BY <1>1 DEF Hide, Stub, Block
<1>3. \A j \in 1 .. Len(work[c]) : IsTool(work'[c][j]) <=> IsTool(work[c][j])
  BY <1>2 DEF IsTool
<1>4. \A j \in 1 .. Len(work[c]) : Later(work'[c], j) = Later(work[c], j)
  BY <1>2, <1>3 DEF Later
<1>5. form = "masked" => Cardinality(Later(work[c], i)) >= KeepRecent
  BY DEF CanMask, Later
<1> QED
  BY <1>2, <1>4, <1>5 DEF OldMasked

\* Every step keeps the newest results verbatim everywhere.
LEMMA RecentStep == RecentInv /\ [Next]_vars => RecentInv'
<1> SUFFICES ASSUME RecentInv, [Next]_vars
             PROVE  RecentInv'
  OBVIOUS
<1>1. TypeInv'
  BY TypeStep DEF RecentInv
<1>2. /\ transcript \in [Clients -> Seq(Message)]
      /\ view \in [Clients -> Seq(Message)]
      /\ work \in [Clients -> Seq(Block)]
  BY DEF RecentInv, TypeInv, TypeOK
<1>3. OldMasked(<<>>)
  BY DEF OldMasked
<1>4. ASSUME NEW c \in Clients, NEW ms, OldMasked(ms),
             transcript' = [transcript EXCEPT ![c] = ms], UNCHANGED <<work, view>>
      PROVE  RecentInv'
  BY <1>1, <1>2, <1>4 DEF RecentInv
<1>5. ASSUME NEW c \in Clients, NEW bs, OldMasked(bs),
             work' = [work EXCEPT ![c] = bs], UNCHANGED <<transcript, view>>
      PROVE  RecentInv'
  BY <1>1, <1>2, <1>5 DEF RecentInv
<1>6. CASE UNCHANGED <<transcript, work, view>>
  BY <1>1, <1>6 DEF RecentInv
<1>7. ASSUME NEW c \in Clients, NEW n \in NamesOf[c], NEW p \in Payloads, ToolResult(c, n, p)
      PROVE  RecentInv'
  <2>1. [name |-> n, content |-> Raw(p)] \in Message
    BY NamesOfType, ContentType DEF Message
  <2>2. [name |-> n, content |-> Raw(p)].content.form # "masked"
    BY DEF Raw
  <2>3. OldMasked(Append(transcript[c], [name |-> n, content |-> Raw(p)]))
    BY <1>2, <2>1, <2>2, AppendOld DEF RecentInv
  <2> QED
    BY <1>4, <1>7, <2>3 DEF ToolResult
<1>8. ASSUME NEW c \in Clients, Speak(c)
      PROVE  RecentInv'
  <2>1. [name |-> NoName, content |-> Other] \in Message
    BY ContentType DEF Message
  <2>2. [name |-> NoName, content |-> Other].content.form # "masked"
    BY DEF Other
  <2>3. OldMasked(Append(transcript[c], [name |-> NoName, content |-> Other]))
    BY <1>2, <2>1, <2>2, AppendOld DEF RecentInv
  <2> QED
    BY <1>4, <1>8, <2>3 DEF Speak
<1>9. ASSUME NEW c \in Clients, BeginCompile(c)
      PROVE  RecentInv'
  <2>1. OldMasked(Parse(transcript[c]))
    BY <1>2, ConversionsOld DEF RecentInv
  <2> QED
    BY <1>5, <1>9, <2>1 DEF BeginCompile
<1>10. ASSUME NEW c \in Clients, NEW i \in 1 .. Len(work[c]), CompactError(c, i) \/ MaskResult(c, i)
       PROVE  RecentInv'
  <2>1. /\ NextEligible(c, i)
        /\ \/ stage[c] = "compact" /\ Hide(c, i, "err", "compacted")
           \/ stage[c] = "mask" /\ Hide(c, i, "tool", "masked")
    BY <1>10 DEF CompactError, MaskResult
  <2>2. IsTool(work[c][i]) /\ (stage[c] = "mask" => CanMask(work[c], i))
    BY <2>1, EligibleIsFresh DEF NextEligible, Eligible
  <2>3. OldMasked(work'[c])
    <3>1. CASE Hide(c, i, "err", "compacted")
      BY <2>2, <3>1, HideOld DEF RecentInv
    <3>2. CASE stage[c] = "mask" /\ Hide(c, i, "tool", "masked")
      BY <2>2, <3>2, HideOld DEF RecentInv
    <3> QED
      BY <2>1, <3>1, <3>2
  <2>4. UNCHANGED <<transcript, view>> /\ \A d \in Clients \ {c} : work'[d] = work[d]
    BY <1>2, <2>1 DEF Hide
  <2> QED
    BY <1>1, <2>3, <2>4 DEF RecentInv
<1>11. ASSUME NEW c \in Clients, EndTransform(c)
       PROVE  RecentInv'
  BY <1>6, <1>11 DEF EndTransform
<1>12. ASSUME NEW c \in Clients, Accept(c)
       PROVE  RecentInv'
  <2>1. OldMasked(ToMessages(work[c]))
    BY <1>2, ConversionsOld DEF RecentInv
  <2> QED
    BY <1>1, <1>2, <1>3, <1>12, <2>1 DEF Accept, Close, RecentInv
<1>13. ASSUME NEW c \in Clients, PassThrough(c)
       PROVE  RecentInv'
  BY <1>1, <1>2, <1>3, <1>13 DEF PassThrough, Close, RecentInv
<1>14. ASSUME NEW c \in Clients, Reject(c) \/ PutFails(c)
       PROVE  RecentInv'
  BY <1>3, <1>5, <1>14 DEF Reject, PutFails, Close
<1> QED
  BY <1>6, <1>7, <1>8, <1>9, <1>10, <1>11, <1>12, <1>13, <1>14
  DEF vars, Next, Agent, Compile

\* The newest KeepRecent tool results reach the model as they were, unless
\* error compaction took them, whoever shares a session or continues with
\* compiled messages (ConsumedResultMaskTransform, is_recent).
THEOREM Recent == Spec => []RecentVerbatim
<1>1. Init => RecentInv
  <2>1. Init => TypeInv
    BY ContentType, NumberTypes DEF Init, TypeInv, TypeOK, Aligned
  <2> QED
    BY <2>1 DEF Init, RecentInv, OldMasked
<1>2. RecentInv => RecentVerbatim
  BY DEF RecentInv, OldMasked, Later, RecentVerbatim
<1> QED
  BY <1>1, <1>2, RecentStep, PTL DEF Spec

-----------------------------------------------------------------------------
(* The files of the cold store.                                            *)

\* An untorn file lacks only chunks some task has still to write, and the
\* file of every reference handed out exists.
FileInv == FilesTypeOK /\ Pending /\ HandedExist

\* The initial state satisfies the invariant.
LEMMA FilesStart == FileInit => FileInv
  BY NoKeyType, MaxCrashesType, ChunksType
  DEF FileInit, FileInv, FilesTypeOK, Pending, HandedExist, Filling

\* Every step preserves the type invariant.
LEMMA FilesTypeStep == FilesTypeOK /\ [FileNext]_fileVars => FilesTypeOK'
<1> SUFFICES ASSUME FilesTypeOK, [FileNext]_fileVars PROVE FilesTypeOK'
  OBVIOUS
<1> USE NoKeyType, MaxCrashesType, ChunksType DEF FilesTypeOK
<1>1. CASE UNCHANGED fileVars
  BY <1>1 DEF fileVars
<1>2. ASSUME NEW t \in Tasks, NEW k \in Keys, Begin(t, k) PROVE FilesTypeOK'
  BY <1>2 DEF Begin
<1>3. ASSUME NEW t \in Tasks, Open(t) PROVE FilesTypeOK'
  BY <1>3 DEF Open
<1>4. ASSUME NEW t \in Tasks, WriteChunk(t) PROVE FilesTypeOK'
  BY <1>4 DEF WriteChunk
<1>5. ASSUME NEW t \in Tasks, Finish(t) PROVE FilesTypeOK'
  BY <1>5 DEF Finish, Rest
<1>6. ASSUME NEW t \in Tasks, Fail(t) PROVE FilesTypeOK'
  BY <1>6 DEF Fail, Rest
<1>7. ASSUME NEW t \in Tasks, Abandon(t) PROVE FilesTypeOK'
  BY <1>7 DEF Abandon
<1>8. CASE Crash
  BY <1>8 DEF Crash
<1> QED
  BY <1>1, <1>2, <1>3, <1>4, <1>5, <1>6, <1>7, <1>8 DEF FileNext

\* Every step preserves that what an untorn file lacks is still to come.
LEMMA PendingStep == FileInv /\ [FileNext]_fileVars => Pending'
<1> SUFFICES ASSUME FileInv, [FileNext]_fileVars,
                    NEW k \in (files \ cut)', NEW i \in 1 .. Chunks[k]
             PROVE i \in disk'[k] \/ \E t \in Filling(k)' : done'[t] < i
  BY DEF Pending
<1> USE NoKeyType, ChunksType DEF FileInv, FilesTypeOK
<1>0. k \in Keys /\ Chunks[k] \in Nat
  <2>1. FilesTypeOK'
    BY FilesTypeStep
  <2> QED
    BY <2>1
<1>1. CASE UNCHANGED fileVars
  BY <1>1 DEF fileVars, Pending, Filling
<1>2. ASSUME NEW t \in Tasks, NEW j \in Keys, Begin(t, j)
      PROVE i \in disk'[k] \/ \E u \in Filling(k)' : done'[u] < i
  BY <1>2 DEF Begin, Pending, Filling
<1>3. ASSUME NEW t \in Tasks, Open(t)
      PROVE i \in disk'[k] \/ \E u \in Filling(k)' : done'[u] < i
  <2>1. CASE writing[t] = k
    BY <1>3, <2>1 DEF Open, Filling
  <2>2. CASE writing[t] # k
    <3>1. k \in files \ cut /\ disk'[k] = disk[k]
      BY <1>3, <2>2 DEF Open
    <3>2. t \notin Filling(k)
      BY <2>2 DEF Filling
    <3> QED
      BY <1>3, <3>1, <3>2 DEF Open, Pending, Filling
  <2> QED
    BY <2>1, <2>2
<1>4. ASSUME NEW t \in Tasks, WriteChunk(t)
      PROVE i \in disk'[k] \/ \E u \in Filling(k)' : done'[u] < i
  <2>1. k \in files \ cut /\ disk[k] \subseteq disk'[k]
    BY <1>4 DEF WriteChunk
  <2>2. CASE i \in disk[k]
    BY <2>1, <2>2
  <2>3. CASE i \notin disk[k]
    <3>1. PICK u \in Filling(k) : done[u] < i
      BY <2>1, <2>3 DEF Pending
    <3>2. u \in Filling(k)'
      BY <1>4, <3>1 DEF WriteChunk, Filling
    <3>3. CASE u # t
      BY <1>4, <3>1, <3>2, <3>3 DEF WriteChunk, Filling
    <3>4. CASE u = t /\ done[t] + 1 < i
      BY <1>4, <3>1, <3>2, <3>4 DEF WriteChunk, Filling
    <3>5. CASE u = t /\ done[t] + 1 >= i
      <4>1. i = done[t] + 1 /\ writing[t] = k
        BY <3>1, <3>5 DEF Filling
      <4> QED
        BY <1>4, <4>1, <1>0 DEF WriteChunk
    <3> QED
      BY <3>1, <3>3, <3>4, <3>5 DEF Filling
  <2> QED
    BY <2>2, <2>3
<1>5. ASSUME NEW t \in Tasks, Finish(t)
      PROVE i \in disk'[k] \/ \E u \in Filling(k)' : done'[u] < i
  <2>1. i \in disk[k] \/ \E u \in Filling(k) : done[u] < i
    BY <1>5 DEF Finish, Pending
  <2>2. CASE i \in disk[k]
    BY <1>5, <2>2 DEF Finish
  <2>3. ASSUME NEW u \in Filling(k), done[u] < i
        PROVE u \in Filling(k)' /\ done'[u] < i
    <3>1. u # t
      BY <1>5, <2>3, <1>0 DEF Finish, Filling
    <3> QED
      BY <1>5, <2>3, <3>1 DEF Finish, Rest, Filling
  <2> QED
    BY <2>1, <2>2, <2>3
<1>6. ASSUME NEW t \in Tasks, Fail(t)
      PROVE i \in disk'[k] \/ \E u \in Filling(k)' : done'[u] < i
  <2>1. k \in files \ cut /\ t \notin Filling(k)
    BY <1>6 DEF Fail, Filling
  <2>2. i \in disk[k] \/ \E u \in Filling(k) : done[u] < i
    BY <2>1 DEF Pending
  <2> QED
    BY <1>6, <2>1, <2>2 DEF Fail, Rest, Filling
<1>7. ASSUME NEW t \in Tasks, Abandon(t)
      PROVE i \in disk'[k] \/ \E u \in Filling(k)' : done'[u] < i
  BY <1>7 DEF Abandon, Pending, Filling
<1>8. ASSUME Crash
      PROVE i \in disk'[k] \/ \E u \in Filling(k)' : done'[u] < i
  <2>1. k \in files \ cut /\ Filling(k) = {} /\ disk' = disk
    BY <1>8, <1>0 DEF Crash
  <2> QED
    BY <2>1 DEF Pending
<1> QED
  BY <1>1, <1>2, <1>3, <1>4, <1>5, <1>6, <1>7, <1>8 DEF FileNext

\* Every step preserves that files, once opened, exist.
LEMMA ExistStep == FileInv /\ [FileNext]_fileVars => HandedExist'
<1> SUFFICES ASSUME FileInv, [FileNext]_fileVars PROVE HandedExist'
  OBVIOUS
<1> USE DEF FileInv, FilesTypeOK, HandedExist
<1>1. CASE UNCHANGED fileVars
  BY <1>1 DEF fileVars
<1>2. ASSUME NEW t \in Tasks, NEW k \in Keys, Begin(t, k) PROVE HandedExist'
  BY <1>2 DEF Begin
<1>3. ASSUME NEW t \in Tasks, Open(t) PROVE HandedExist'
  BY <1>3 DEF Open
<1>4. ASSUME NEW t \in Tasks, WriteChunk(t) PROVE HandedExist'
  BY <1>4 DEF WriteChunk
<1>5. ASSUME NEW t \in Tasks, Finish(t) PROVE HandedExist'
  BY <1>5 DEF Finish, Rest
<1>6. ASSUME NEW t \in Tasks, Fail(t) PROVE HandedExist'
  BY <1>6 DEF Fail, Rest
<1>7. ASSUME NEW t \in Tasks, Abandon(t) PROVE HandedExist'
  BY <1>7 DEF Abandon
<1>8. CASE Crash
  BY <1>8 DEF Crash
<1> QED
  BY <1>1, <1>2, <1>3, <1>4, <1>5, <1>6, <1>7, <1>8 DEF FileNext

\* The invariant holds always.
LEMMA FilesInvariant == FileSpec => []FileInv
<1>1. FileInv /\ [FileNext]_fileVars => FileInv'
  BY FilesTypeStep, PendingStep, ExistStep DEF FileInv
<1> QED
  BY FilesStart, <1>1, PTL DEF FileSpec

\* Every variable keeps its type, whatever is put, dropped or cut short.
THEOREM FilesTypeCorrect == FileSpec => []FilesTypeOK
<1>1. FileInv => FilesTypeOK
  BY DEF FileInv
<1> QED
  BY FilesInvariant, <1>1, PTL

\* A file nobody is writing and no interrupted write has torn holds all of
\* its payload (FileColdStore::put).
THEOREM Quiet == FileSpec => []QuietWhole
<1>1. ASSUME FileInv PROVE QuietWhole
  <2> SUFFICES ASSUME NEW k \in handed, Filling(k) = {}, k \notin cut PROVE Whole(k)
    BY DEF QuietWhole
  <2>1. k \in files \ cut /\ k \in Keys
    BY <1>1 DEF FileInv, FilesTypeOK, HandedExist
  <2>2. 1 .. Chunks[k] \subseteq disk[k]
    BY <1>1, <2>1 DEF FileInv, Pending
  <2>3. disk[k] \subseteq 1 .. Chunks[k]
    BY <1>1, <2>1 DEF FileInv, FilesTypeOK
  <2> QED
    BY <2>1, <2>2, <2>3 DEF Whole
<1> QED
  BY FilesInvariant, <1>1, PTL
=============================================================================
