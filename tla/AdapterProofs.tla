----------------------------- MODULE AdapterProofs -----------------------------
(***************************************************************************)
(* What the OpenAI and the Anthropic adapter show a model, next to what    *)
(* LangChainProofs says of the LangChain one, for every thread and every   *)
(* persisted turn.                                                         *)
(***************************************************************************)
EXTENDS CoworkTurns, LangChainProofs

----------------------------------------------------------------------------
(* What was added to the list the caller had.                              *)

Extends == \E l \in Seq(AnyLC) : lc = prior \o l

LEMMA AfterPrefix ==
    ASSUME NEW A, NEW p \in Seq(A), NEW l \in Seq(A)
    PROVE  SubSeq(p \o l, Len(p) + 1, Len(p \o l)) = l
<1> DEFINE s == p \o l
           m == Len(p) + 1
           n == Len(s)
<1>1. /\ s \in Seq(A) /\ Len(s) = Len(p) + Len(l) /\ Len(p) \in Nat /\ Len(l) \in Nat
      /\ \A i \in 1..Len(p) + Len(l) : s[i] = IF i <= Len(p) THEN p[i] ELSE l[i - Len(p)]
  BY ConcatProperties, LenProperties
<1> HIDE DEF s
<1>2. m \in 1..Len(s) + 1 /\ n \in m - 1..Len(s)
  BY <1>1
<1> HIDE DEF m, n
<1>3. /\ SubSeq(s, m, n) \in Seq(A)
      /\ Len(SubSeq(s, m, n)) = IF m <= n THEN n - m + 1 ELSE 0
      /\ \A i \in 1..n - m + 1 : SubSeq(s, m, n)[i] = s[m + i - 1]
  BY <1>1, <1>2, SubSeqProperties
<1> DEFINE r == SubSeq(s, m, n)
<1>4. Len(r) = Len(l) /\ r \in Seq(A)
  BY <1>1, <1>3 DEF m, n
<1>5. ASSUME NEW i \in 1..Len(r)
      PROVE  r[i] = l[i]
  <2> DEFINE k == m + i - 1
  <2>1. i \in 1..n - m + 1 /\ k \in 1..Len(p) + Len(l) /\ ~(k <= Len(p)) /\ k - Len(p) = i
    BY <1>1, <1>4 DEF m, n
  <2>2. r[i] = s[k]
    BY <1>3, <2>1
  <2> HIDE DEF k
  <2>3. s[k] = l[k - Len(p)]
    BY <1>1, <2>1
  <2> QED  BY <2>1, <2>2, <2>3
<1> HIDE DEF r
<1>6. r = l
  BY <1>4, <1>5, SeqEqual
<1> QED  BY <1>6 DEF r, s, m, n

LEMMA AddedIs ==
    ASSUME prior \in Seq(AnyLC), NEW l \in Seq(AnyLC), lc = prior \o l
    PROVE  Added = l
  BY AfterPrefix DEF Added

\* No step but the resumption takes anything back.
Grows(g) == g \in Seq(AnyLC) /\ lc' = lc \o g /\ prior' = prior

LEMMA StepGrows ==
    ASSUME LCInv, LCInv', [LCNext]_lcVars
    PROVE  (\E g : Grows(g)) \/ Resume
<1>0. lc \in Seq(AnyLC) /\ <<>> \in Seq(AnyLC) /\ lc \o <<>> = lc
  BY EmptySeq, ConcatEmptySeq DEF LCInv, LCTypes
<1>1. ASSUME lc' = lc, prior' = prior
      PROVE  \E g : Grows(g)
  <2>1. Grows(<<>>)
    BY <1>0, <1>1 DEF Grows
  <2> QED  BY <2>1
<1>2. CASE Convert
  <2>1. Head(todo) \in AnyMessage /\ ~Walked(Head(todo))
    BY <1>2, HeadTyped DEF Convert, LCInv, LCTypes
  <2>2. Grows(ToLC(Head(todo)))
    BY <1>2, <2>1, ToLCTyped DEF Convert, given, Grows
  <2> QED  BY <2>2
<1>3. ASSUME NEW chunks, NEW ids, GoOn(chunks, ids), prior' = prior
      PROVE  \E g : Grows(g)
  <2>1. Group \in Seq(AnyLC)
    BY GroupTyped DEF LCInv, LCTypes
  <2>2. CASE lastWasToolResult
    <3>1. Grows(Group)
      BY <1>3, <2>1, <2>2 DEF GoOn, Grows
    <3> QED  BY <3>1
  <2>3. CASE ~lastWasToolResult
    BY <1>1, <1>3, <2>3 DEF GoOn
  <2> QED  BY <2>2, <2>3
<1>4. CASE TakeText \/ TakeCall
  BY <1>3, <1>4 DEF TakeText, TakeCall, given
<1>5. CASE CloseAssistant
  <2>1. Closing \in Seq(AnyLC)
    BY ClosingTyped
  <2>2. Grows(Closing)
    BY <1>5, <2>1 DEF CloseAssistant, Closing, given, Grows
  <2> QED  BY <2>2
<1>6. CASE \/ OpenAssistant \/ TakeResult \/ DropPart \/ FromHuman \/ FromAI \/ FromTool
           \/ FromOther \/ FromEnd \/ UNCHANGED lcVars
  BY <1>1, <1>6 DEF OpenAssistant, TakeResult, DropPart, FromHuman, FromAI, FromTool,
     FromOther, FromEnd, BackNext, given, lcVars
<1> QED  BY <1>2, <1>4, <1>5, <1>6 DEF LCNext

LEMMA ExtendsInit == LCReady => Extends
<1> SUFFICES ASSUME LCReady
             PROVE  Extends
  OBVIOUS
<1>1. lc = prior \o <<>> /\ <<>> \in Seq(AnyLC)
  BY EmptySeq, ConcatEmptySeq DEF LCReady
<1> QED  BY <1>1 DEF Extends

LEMMA ExtendsNext == LCInv /\ LCInv' /\ Extends /\ [LCNext]_lcVars => Extends'
<1> SUFFICES ASSUME LCInv, LCInv', Extends, [LCNext]_lcVars
             PROVE  Extends'
  OBVIOUS
<1>1. CASE Resume
  <2>1. prior' = <<>> /\ lc' = <<>>
    BY <1>1 DEF Resume
  <2>2. lc' = prior' \o <<>> /\ <<>> \in Seq(AnyLC)
    BY <2>1, EmptySeq
  <2> QED  BY <2>2 DEF Extends
<1>2. ASSUME NEW g, Grows(g)
      PROVE  Extends'
  <2>1. PICK l \in Seq(AnyLC) : lc = prior \o l
    BY DEF Extends
  <2>2. g \in Seq(AnyLC) /\ lc' = (prior \o l) \o g /\ prior' = prior /\ prior \in Seq(AnyLC)
    BY <1>2, <2>1 DEF Grows, LCInv, LCTypes
  <2>3. (prior \o l) \o g = prior \o (l \o g) /\ l \o g \in Seq(AnyLC)
    <3>1. Regroups(prior, l, g)
      BY <2>2, CatRegroups
    <3>2. l \o g \in Seq(AnyLC)
      BY <2>2, ConcatProperties
    <3> QED  BY <3>1, <3>2 DEF Regroups
  <2> QED  BY <2>2, <2>3 DEF Extends
<1> QED  BY <1>1, <1>2, StepGrows

----------------------------------------------------------------------------
(* Messages fit their roles, those that came back too.                     *)

Fits(t) == \A i \in DOMAIN t : FitsItsRole(t[i])

LEMMA FitsMore ==
    ASSUME NEW t \in Seq(AnyMessage), NEW m \in AnyMessage, Fits(t), FitsItsRole(m)
    PROVE  Fits(Append(t, m))
<1>1. /\ Append(t, m) \in Seq(AnyMessage) /\ Len(Append(t, m)) = Len(t) + 1
      /\ \A i \in 1..Len(t) : Append(t, m)[i] = t[i]
      /\ Append(t, m)[Len(t) + 1] = m
  BY AppendProperties
<1>2. DOMAIN Append(t, m) = 1..Len(t) + 1 /\ DOMAIN t = 1..Len(t) /\ Len(t) \in Nat
  BY <1>1, LenProperties
<1>3. \A i \in 1..Len(t) + 1 : i \in 1..Len(t) \/ i = Len(t) + 1
  BY <1>2
<1> QED  BY <1>1, <1>2, <1>3 DEF Fits

LEMMA AssistantFits == ASSUME NEW m, m.role = "assistant" PROVE FitsItsRole(m)
  BY DEF FitsItsRole

LEMMA TextFits ==
    ASSUME NEW role \in {"user", "system"}, NEW text \in Seq(Token)
    PROVE  /\ FitsItsRole(Message(role, TextIfAny(text)))
           /\ FitsItsRole(Message(role, <<TextPart(text)>>))
<1>1. ASSUME NEW c, c = <<>> \/ c = <<TextPart(text)>>
      PROVE  FitsItsRole(Message(role, c))
  <2>1. \A i \in DOMAIN c : c[i].kind = "text"
    BY <1>1 DEF TextPart, Part
  <2>2. Message(role, c).role = role /\ Message(role, c).content = c
    BY DEF Message
  <2> QED  BY <2>1, <2>2 DEF FitsItsRole, HasKind
<1> QED  BY <1>1 DEF TextIfAny

LEMMA FromLCOneFits ==
    ASSUME NEW m \in AnyLC, m.type \in {"human", "system", "other"}
    PROVE  FitsItsRole(FromLCOne(m))
<1>1. Joined(m.content) \in Seq(Token)
  BY LCFields
<1>2. CASE m.type = "human" /\ HasKind(m.content, "image")
  <2>1. FromLCOne(m) = Message("user", m.content)
    BY <1>2 DEF FromLCOne, UserContentFromLC
  <2>2. \A i \in DOMAIN m.content : m.content[i].kind \in {"image", "text"}
    BY <1>2 DEF AnyLC
  <2>3. FromLCOne(m).role = "user" /\ FromLCOne(m).content = m.content
    BY <2>1 DEF Message
  <2> QED  BY <2>2, <2>3 DEF FitsItsRole, HasKind
<1>3. CASE ~(m.type = "human" /\ HasKind(m.content, "image"))
  <2> DEFINE text == Joined(m.content)
  <2>1. \/ FromLCOne(m) = Message("user", TextIfAny(text))
        \/ FromLCOne(m) = Message("system", TextIfAny(text))
        \/ FromLCOne(m) = Message("system", <<TextPart(text)>>)
    BY <1>3 DEF FromLCOne, UserContentFromLC
  <2>2. text \in Seq(Token)
    BY <1>1
  <2> HIDE DEF text
  <2> QED  BY <2>1, <2>2, TextFits
<1> QED  BY <1>2, <1>3

LEMMA FlushedFits ==
    ASSUME LCInv, Fits(out)
    PROVE  Fits(Flushed)
<1>1. out \in Seq(AnyMessage)
      /\ (pendingAssistant # None => pendingAssistant \in AnyMessage /\ pendingAssistant.role = "assistant")
  BY DEF LCInv, LCTypes, LCPhases
<1> QED  BY <1>1, FitsMore, AssistantFits DEF Flushed

LEMMA ResultFits ==
    ASSUME NEW m \in AnyLC
    PROVE  FitsItsRole(Message("tool", <<FromLCResult(m)>>))
<1> DEFINE c == <<FromLCResult(m)>>
<1>1. c[1].kind = "result" /\ 1 \in DOMAIN c
  BY DEF FromLCResult, ToolResultFromLC, Result, Part
<1>2. Message("tool", c).role = "tool" /\ Message("tool", c).content = c
  BY DEF Message
<1> HIDE DEF c
<1>3. HasKind(c, "result")
  BY <1>1 DEF HasKind
<1>4. FitsItsRole(Message("tool", c))
  BY <1>2, <1>3 DEF FitsItsRole
<1> QED  BY <1>4 DEF c

\* What has come back fits, as long as the list so far did.
OutFits == Fits(thread) /\ Fits(out)

LEMMA OutFitsInit == LCReady /\ Fits(thread) => OutFits
<1>1. Fits(<<>>)
  BY DEF Fits
<1> QED  BY <1>1 DEF OutFits, LCReady

LEMMA OutFitsNext == LCInv /\ OutFits /\ [LCNext]_lcVars => OutFits'
<1> SUFFICES ASSUME LCInv, OutFits, [LCNext]_lcVars
             PROVE  OutFits'
  OBVIOUS
<1>0. Fits(out) /\ Fits(thread) /\ Fits(Flushed) /\ out \in Seq(AnyMessage) /\ Flushed \in Seq(AnyMessage)
  BY FlushedFits, FlushedTyped DEF OutFits, LCInv, LCTypes
<1>1. ASSUME NEW f, Fits(f), out' = f, thread' = thread
      PROVE  OutFits'
  BY <1>0, <1>1 DEF OutFits, Fits
<1>2. CASE \/ Convert \/ OpenAssistant \/ TakeText \/ TakeCall \/ TakeResult \/ DropPart
           \/ CloseAssistant \/ UNCHANGED lcVars
  <2>1. out' = out /\ thread' = thread
    BY <1>2 DEF Convert, OpenAssistant, TakeText, TakeCall, TakeResult, DropPart, CloseAssistant,
       lcVars, backVars, given
  <2> QED  BY <1>0, <1>1, <2>1
<1>3. CASE FromAI \/ FromEnd
  <2>1. out' = Flushed /\ thread' = thread
    BY <1>3 DEF FromAI, FromEnd, BackNext, given
  <2> QED  BY <1>0, <1>1, <2>1
<1>4. CASE FromOne
  <2> DEFINE m == lc[back + 1]
             f == Append(Flushed, FromLCOne(m))
  <2>1. BackNext /\ m.type \in {"human", "system", "other"} /\ out' = f /\ thread' = thread
    BY <1>4 DEF FromOne, BackNext, given
  <2>2. m \in AnyLC
    BY <2>1, BackIs
  <2> HIDE DEF m
  <2>3. Fits(f)
    BY <1>0, <2>1, <2>2, FromLCTyped, FromLCOneFits, FitsMore
  <2> HIDE DEF f
  <2> QED  BY <1>1, <2>1, <2>3
<1>5. CASE FromTool
  <2> DEFINE m == lc[back + 1]
             r == FromLCResult(m)
             f == Append(out, Message("tool", <<r>>))
  <2>1. BackNext /\ r \in AnyPart /\ (out' = f \/ out' = out)
    BY <1>5, FromToolIs
  <2>2. m \in AnyLC /\ thread' = thread
    BY <2>1, BackIs DEF BackNext, given
  <2> HIDE DEF m
  <2>3. FitsItsRole(Message("tool", <<r>>))
    BY <2>2, ResultFits
  <2> HIDE DEF r
  <2>4. <<r>> \in Seq(AnyPart)
    BY <2>1
  <2>5. Message("tool", <<r>>) \in AnyMessage
    BY <2>4, MessageTyped
  <2>6. Fits(f)
    BY <1>0, <2>3, <2>5, FitsMore
  <2> HIDE DEF f
  <2> QED  BY <1>0, <1>1, <2>1, <2>2, <2>6
<1>6. CASE Resume
  <2>1. thread' = out /\ out' = <<>>
    BY <1>6 DEF Resume
  <2> QED  BY <1>0, <2>1 DEF OutFits, Fits
<1> QED  BY <1>2, <1>3, <1>4, <1>5, <1>6, FromOneIs DEF LCNext

----------------------------------------------------------------------------
(* The marks of one kind.                                                  *)

LEMMA OnePart ==
    ASSUME NEW c \in Seq(AnyPart), NEW p \in AnyPart
    PROVE  Append(c, p) = c \o <<p>> /\ <<p>> \in Seq(AnyPart) /\ Append(c, p) \in Seq(AnyPart)
  BY AppendIsConcat, AppendProperties

\* Of those of some kinds, those of other kinds.
LEMMA OfKindOfKind ==
    ASSUME NEW c \in Seq(AnyPart), NEW ks, NEW js
    PROVE  OfKind(OfKind(c, ks), js) = OfKind(c, ks \cap js)
<1> DEFINE Q == {d \in Seq(AnyPart) : OfKind(OfKind(d, ks), js) = OfKind(d, ks \cap js)}
<1>1. <<>> \in Q
  BY EmptySeq, OfKindNone
<1>2. ASSUME NEW d \in Seq(AnyPart), NEW p \in AnyPart, d \in Q
      PROVE  Append(d, p) \in Q
  <2> DEFINE o == <<p>>
  <2>1. Append(d, p) = d \o o /\ o \in Seq(AnyPart) /\ Append(d, p) \in Seq(AnyPart)
    BY OnePart
  <2>2. OfKind(o, ks) = IF p.kind \in ks THEN o ELSE <<>>
    BY OfKindOne
  <2>3. OfKind(o, js) = IF p.kind \in js THEN o ELSE <<>>
    BY OfKindOne
  <2>4. OfKind(o, ks \cap js) = IF p.kind \in ks \cap js THEN o ELSE <<>>
    BY OfKindOne
  <2> HIDE DEF o
  <2>5. OfKind(d \o o, ks) = OfKind(d, ks) \o OfKind(o, ks)
        /\ OfKind(d, ks) \in Seq(AnyPart) /\ OfKind(o, ks) \in Seq(AnyPart)
    BY <2>1, OfKindCat
  <2>6. OfKind(OfKind(d, ks) \o OfKind(o, ks), js) = OfKind(OfKind(d, ks), js) \o OfKind(OfKind(o, ks), js)
    <3> DEFINE x == OfKind(d, ks)
               y == OfKind(o, ks)
    <3>1. x \in Seq(AnyPart) /\ y \in Seq(AnyPart)
      BY <2>5
    <3> HIDE DEF x, y, Q
    <3>2. OfKind(x \o y, js) = OfKind(x, js) \o OfKind(y, js)
      <4>1. OfKindSplits(x, y, js)
        BY <3>1, OfKindSplit
      <4> QED  BY <4>1 DEF OfKindSplits
    <3> QED  BY <3>2 DEF x, y
  <2>7. OfKind(d \o o, ks \cap js) = OfKind(d, ks \cap js) \o OfKind(o, ks \cap js)
    BY <2>1, OfKindCat
  <2>8. OfKind(OfKind(o, ks), js) = OfKind(o, ks \cap js)
    BY <2>2, <2>3, <2>4, OfKindNone
  <2>9. OfKind(OfKind(d, ks), js) = OfKind(d, ks \cap js)
    BY <1>2
  <2> QED  BY <2>1, <2>5, <2>6, <2>7, <2>8, <2>9
<1>3. Seq(AnyPart) \subseteq Q
  <2> HIDE DEF Q
  <2> QED  BY <1>1, <1>2, SeqInduction
<1> QED  BY <1>3

LEMMA MarksOfKind ==
    ASSUME NEW c \in Seq(AnyPart), NEW ks, NEW js
    PROVE  Marks(OfKind(c, ks), js) = Marks(c, ks \cap js)
  BY OfKindOfKind DEF Marks

LEMMA NoneOfKind ==
    ASSUME NEW c \in Seq(AnyPart), NEW ks, \A i \in DOMAIN c : c[i].kind \notin ks
    PROVE  OfKind(c, ks) = <<>>
<1> DEFINE S == {p \in AnyPart : p.kind \notin ks}
           F == Keeper(AnyPart, Kinds(ks))
<1>1. /\ Len(c) \in Nat /\ DOMAIN c = 1..Len(c)
      /\ \A i \in 1..Len(c) : c[i] \in AnyPart
      /\ c = [i \in 1..Len(c) |-> c[i]]
  BY LenProperties, ElementOfSeq
<1>2. c \in Seq(S)
  <2>1. c \in [1..Len(c) -> S]
    BY <1>1
  <2> QED  BY <1>1, <2>1, SeqDef
<1>3. \A p \in S : F[p] = <<>>
  BY DEF Keeper, Kinds
<1>4. OfKind(c, ks) = FlatMap(F, c)
  BY OfKindIs
<1> HIDE DEF S, F
<1> QED  BY <1>2, <1>3, <1>4, FlatMapNothing

LEMMA NoMarks ==
    ASSUME NEW c \in Seq(AnyPart), NEW ks, OfKind(c, ks) = <<>>
    PROVE  Marks(c, ks) = <<>>
<1>1. Marks(<<>>, ks) = <<>> /\ OfKind(<<>>, ks) = <<>>
  BY MarksNone, OfKindNone
<1> QED  BY <1>1 DEF Marks

\* The marks of one part have its kind.
LEMMA OneMarks ==
    ASSUME NEW p \in AnyPart, NEW ks
    PROVE  /\ Marks(<<p>>, ks) \in Seq(OfSort({p.kind}))
           /\ Marks(<<p>>, ks) \in Seq(Mark)
<1>1. <<p>> \in Seq(AnyPart)
  OBVIOUS
<1>2. Marks(<<p>>, ks) \in Seq(Mark)
  BY <1>1, MarksAre
<1>3. CASE p.kind \notin ks
  BY <1>3, MarksOne, EmptySeq, <1>2
<1>4. CASE p.kind \in ks /\ p.kind = "text"
  <2>1. p.text \in Seq(Token)
    BY DEF AnyPart
  <2> QED  BY <1>2, <1>4, <2>1, MarksOne, TextMarksSort
<1>5. CASE p.kind \in ks /\ p.kind # "text"
  <2>1. Marks(<<p>>, ks) = <<MarkOf(p)>>
    BY <1>5, MarksOne
  <2>2. MarkOf(p) \in Mark /\ MarkOf(p)[1] = p.kind
    BY MarkOfIs
  <2>3. MarkOf(p) \in OfSort({p.kind})
    BY <2>2 DEF OfSort
  <2> QED  BY <1>2, <2>1, <2>3, SMTT(60)
<1> QED  BY <1>3, <1>4, <1>5

LEMMA OnlyEmpty == ASSUME NEW ks PROVE Only(<<>>, ks) = <<>>
<1>1. <<>> \in Seq(Mark)
  BY EmptySeq
<1> QED  BY <1>1, OnlyIs, FlatMapEmpty

LEMMA OnlyAll ==
    ASSUME NEW ks, NEW js, js \subseteq ks, NEW s \in Seq(OfSort(js))
    PROVE  Only(s, ks) = s
<1>1. s \in Seq(Mark)
  <2>1. OfSort(js) \subseteq Mark
    BY DEF OfSort
  <2> QED  BY <2>1, SeqMonotonic
<1>2. Only(s, ks) = FlatMap(Keeper(Mark, OfSort(ks)), s)
  BY <1>1, OnlyIs
<1>3. \A m \in OfSort(js) : Keeper(Mark, OfSort(ks))[m] = <<m>>
  BY DEF Keeper, OfSort
<1> DEFINE F == Keeper(Mark, OfSort(ks))
           S == OfSort(js)
<1>4. (\A m \in S : F[m] = <<m>>) /\ s \in Seq(S)
  BY <1>3
<1> HIDE DEF F, S
<1>5. FlatMap(F, s) = s
  BY <1>4, FlatMapSame
<1> QED  BY <1>2, <1>5 DEF F

\* The marks of one kind among those of some kinds.
LEMMA OnlyMarks ==
    ASSUME NEW c \in Seq(AnyPart), NEW ks, NEW kind
    PROVE  Only(Marks(c, ks), {kind}) = IF kind \in ks THEN Marks(c, {kind}) ELSE <<>>
<1> DEFINE Is(d) == IF kind \in ks THEN Marks(d, {kind}) ELSE <<>>
           Q == {d \in Seq(AnyPart) : Only(Marks(d, ks), {kind}) = Is(d)}
<1>1. <<>> \in Q
  BY EmptySeq, MarksNone, OnlyEmpty
<1>2. ASSUME NEW d \in Seq(AnyPart), NEW p \in AnyPart, d \in Q
      PROVE  Append(d, p) \in Q
  <2> DEFINE o == <<p>>
  <2>1. Append(d, p) = d \o o /\ o \in Seq(AnyPart) /\ Append(d, p) \in Seq(AnyPart)
    BY OnePart
  <2>2. Only(Marks(o, ks), {kind}) = Is(o)
    <3>0. Marks(o, ks) \in Seq(OfSort({p.kind})) /\ Marks(o, {kind}) \in Seq(OfSort({p.kind}))
      BY OneMarks
    <3>1. CASE p.kind \notin ks
      <4>1. Marks(o, ks) = <<>> /\ (kind \in ks => Marks(o, {kind}) = <<>>)
        BY <3>1, MarksOne
      <4> QED  BY <4>1, OnlyEmpty
    <3>2. CASE p.kind \in ks /\ p.kind # kind
      <4>1. Marks(o, {kind}) = <<>>
        BY <3>2, MarksOne
      <4>2. {kind} \cap {p.kind} = {}
        BY <3>2
      <4> HIDE DEF o
      <4>3. Only(Marks(o, ks), {kind}) = <<>>
        BY <3>0, <4>2, OnlyNothing
      <4> QED  BY <4>1, <4>3
    <3>3. CASE p.kind \in ks /\ p.kind = kind
      <4>1. Marks(o, ks) = Marks(o, {kind})
        BY <3>3, MarksOne
      <4>2. {p.kind} \subseteq {kind}
        BY <3>3
      <4> HIDE DEF o
      <4>3. Only(Marks(o, ks), {kind}) = Marks(o, ks)
        BY <3>0, <4>2, OnlyAll
      <4> QED  BY <3>3, <4>1, <4>3
    <3> QED  BY <3>1, <3>2, <3>3
  <2> HIDE DEF o
  <2>3. Marks(d \o o, ks) = Marks(d, ks) \o Marks(o, ks)
        /\ Marks(d, ks) \in Seq(Mark) /\ Marks(o, ks) \in Seq(Mark)
    BY <2>1, MarksCat, MarksAre
  <2>4. Only(Marks(d, ks) \o Marks(o, ks), {kind}) = Only(Marks(d, ks), {kind}) \o Only(Marks(o, ks), {kind})
    BY <2>3, OnlyCat
  <2>5. Marks(d \o o, {kind}) = Marks(d, {kind}) \o Marks(o, {kind})
    BY <2>1, MarksCat
  <2>6. <<>> \o <<>> = <<>>
    OBVIOUS
  <2>7. Is(d \o o) = Is(d) \o Is(o)
    BY <2>5, <2>6
  <2>8. Only(Marks(d, ks), {kind}) = Is(d)
    BY <1>2
  <2> QED  BY <2>1, <2>2, <2>3, <2>4, <2>7, <2>8
<1>3. Seq(AnyPart) \subseteq Q
  <2> HIDE DEF Q
  <2> QED  BY <1>1, <1>2, SeqInduction
<1> QED  BY <1>3

\* One kind after several.
LEMMA OnlyOnly ==
    ASSUME NEW s \in Seq(Mark), NEW ks, NEW kind \in ks
    PROVE  Only(Only(s, ks), {kind}) = Only(s, {kind})
<1> DEFINE Q == {r \in Seq(Mark) : Only(Only(r, ks), {kind}) = Only(r, {kind})}
<1>1. <<>> \in Q
  BY EmptySeq, OnlyEmpty
<1>2. ASSUME NEW r \in Seq(Mark), NEW m \in Mark, r \in Q
      PROVE  Append(r, m) \in Q
  <2> DEFINE o == <<m>>
  <2>1. Append(r, m) = r \o o /\ o \in Seq(Mark) /\ Append(r, m) \in Seq(Mark)
    BY AppendIsConcat, AppendProperties
  <2>2. Only(Only(o, ks), {kind}) = Only(o, {kind})
    <3>1. o \in Seq(OfSort({m[1]}))
      <4>1. m \in OfSort({m[1]})
        BY DEF OfSort
      <4> QED  BY <4>1
    <3> HIDE DEF o
    <3>2. CASE m[1] \in ks
      <4>1. {m[1]} \subseteq ks
        BY <3>2
      <4>2. Only(o, ks) = o
        BY <3>1, <4>1, OnlyAll
      <4> QED  BY <4>2
    <3>3. CASE m[1] \notin ks
      <4>1. ks \cap {m[1]} = {} /\ {kind} \cap {m[1]} = {}
        BY <3>3
      <4>2. Only(o, ks) = <<>>
        BY <3>1, <4>1, OnlyNothing
      <4>3. Only(o, {kind}) = <<>>
        BY <3>1, <4>1, OnlyNothing
      <4> QED  BY <4>2, <4>3, OnlyEmpty
    <3> QED  BY <3>2, <3>3
  <2> HIDE DEF o
  <2>3. Only(r \o o, ks) = Only(r, ks) \o Only(o, ks)
    BY <2>1, OnlyCat
  <2>4. Only(r, ks) \in Seq(Mark) /\ Only(o, ks) \in Seq(Mark)
    BY <2>1, OnlyIs
  <2>5. Only(Only(r, ks) \o Only(o, ks), {kind}) = Only(Only(r, ks), {kind}) \o Only(Only(o, ks), {kind})
    <3> DEFINE x == Only(r, ks)
               y == Only(o, ks)
    <3>1. x \in Seq(Mark) /\ y \in Seq(Mark)
      BY <2>4
    <3> HIDE DEF x, y
    <3>2. Only(x \o y, {kind}) = Only(x, {kind}) \o Only(y, {kind})
      <4>1. OnlySplits(x, y, {kind})
        BY <3>1, OnlySplit
      <4> QED  BY <4>1 DEF OnlySplits
    <3> QED  BY <3>2 DEF x, y
  <2>6. Only(r \o o, {kind}) = Only(r, {kind}) \o Only(o, {kind})
    BY <2>1, OnlyCat
  <2>7. Only(Only(r, ks), {kind}) = Only(r, {kind})
    BY <1>2
  <2> QED  BY <2>1, <2>2, <2>3, <2>5, <2>6, <2>7
<1>3. Seq(Mark) \subseteq Q
  <2> HIDE DEF Q
  <2> QED  BY <1>1, <1>2, SeqInduction
<1> QED  BY <1>3

----------------------------------------------------------------------------
(* The marks of entries.                                                   *)

AnyEntry == [role : {"user", "system", "tool", "assistant"}, content : Seq(AnyPart), calls : Seq(AnyId)]

EveryKind == {"text", "call", "result"}

EntryMark == [e \in AnyEntry |-> Marks(e.content, EveryKind) \o CallMarks(e.calls)]

LEMMA RenderedTyped ==
    ASSUME NEW role \in {"user", "system", "tool", "assistant"}, NEW content \in Seq(AnyPart),
           NEW ids \in Seq(AnyId)
    PROVE  /\ Rendered(role, content, ids) \in AnyEntry
           /\ Rendered(role, content, ids).content = content /\ Rendered(role, content, ids).calls = ids
  BY DEF Rendered, AnyEntry

LEMMA EntryMarkMaps == MapsInto(EntryMark, AnyEntry, Seq(Mark))
<1>1. ASSUME NEW e \in AnyEntry
      PROVE  Marks(e.content, EveryKind) \o CallMarks(e.calls) \in Seq(Mark)
  <2>1. e.content \in Seq(AnyPart) /\ e.calls \in Seq(AnyId)
    BY DEF AnyEntry
  <2>2. Marks(e.content, EveryKind) \in Seq(Mark) /\ CallMarks(e.calls) \in Seq(Mark)
    BY <2>1, MarksAre, CallMarksIs
  <2> QED  BY <2>2, ConcatProperties
<1> QED  BY <1>1 DEF MapsInto, EntryMark

LEMMA EntryMarksAre ==
    ASSUME NEW e \in Seq(AnyEntry)
    PROVE  EntryMarks(e) = FlatMap(EntryMark, e) /\ EntryMarks(e) \in Seq(Mark)
<1>1. \A i \in DOMAIN e : e[i] \in AnyEntry
  BY LenProperties, ElementOfSeq
<1>2. \A i \in DOMAIN e : e[i].calls \in Seq(AnyId)
  BY <1>1 DEF AnyEntry
<1>3. \A i \in DOMAIN e : [j \in DOMAIN e[i].calls |-> CallMark(e[i].calls[j])] = CallMarks(e[i].calls)
  BY <1>2, CallMarksIs
<1>4. [i \in DOMAIN e |->
           Marks(e[i].content, {"text", "call", "result"})
           \o [j \in DOMAIN e[i].calls |-> CallMark(e[i].calls[j])]] = Mapped(EntryMark, e)
  BY <1>1, <1>3 DEF Mapped, EntryMark, EveryKind
<1>5. EntryMarks(e) = FlatMap(EntryMark, e)
  BY <1>4 DEF EntryMarks, FlatMap
<1> QED  BY <1>5, EntryMarkMaps, FlatMapTyped

LEMMA EntryMarksCat ==
    ASSUME NEW e \in Seq(AnyEntry), NEW f \in Seq(AnyEntry)
    PROVE  EntryMarks(e \o f) = EntryMarks(e) \o EntryMarks(f)
<1>1. e \o f \in Seq(AnyEntry)
  BY ConcatProperties
<1>2. FlatMap(EntryMark, e \o f) = FlatMap(EntryMark, e) \o FlatMap(EntryMark, f)
  BY EntryMarkMaps, FlatMapCat
<1>3. EntryMarks(e) = FlatMap(EntryMark, e) /\ EntryMarks(f) = FlatMap(EntryMark, f)
  BY EntryMarksAre
<1> DEFINE g == e \o f
<1> HIDE DEF g
<1>4. EntryMarks(g) = FlatMap(EntryMark, g)
  BY <1>1, EntryMarksAre DEF g
<1> QED  BY <1>2, <1>3, <1>4 DEF g

LEMMA EntryMarksNone == EntryMarks(<<>>) = <<>>
  BY EmptySeq, EntryMarksAre, FlatMapEmpty

LEMMA EntryMarksOne ==
    ASSUME NEW role \in {"user", "system", "tool", "assistant"}, NEW content \in Seq(AnyPart),
           NEW ids \in Seq(AnyId)
    PROVE  /\ <<Rendered(role, content, ids)>> \in Seq(AnyEntry)
           /\ EntryMarks(<<Rendered(role, content, ids)>>) = Marks(content, EveryKind) \o CallMarks(ids)
<1> DEFINE e == Rendered(role, content, ids)
<1>1. e \in AnyEntry /\ e.content = content /\ e.calls = ids
  BY RenderedTyped
<1> HIDE DEF e
<1>2. EntryMark[e] = Marks(content, EveryKind) \o CallMarks(ids)
  BY <1>1 DEF EntryMark
<1>3. <<e>> \in Seq(AnyEntry)
  BY <1>1
<1>4. EntryMarks(<<e>>) = EntryMark[e]
  BY <1>3, EntryMarksAre, FlatMapOne
<1> QED  BY <1>2, <1>3, <1>4 DEF e

LEMMA EntryMarksOneNoCalls ==
    ASSUME NEW role \in {"user", "system", "tool", "assistant"}, NEW content \in Seq(AnyPart)
    PROVE  /\ <<Rendered(role, content, <<>>)>> \in Seq(AnyEntry)
           /\ EntryMarks(<<Rendered(role, content, <<>>)>>) = Marks(content, EveryKind)
<1>1. <<>> \in Seq(AnyId)
  BY EmptySeq
<1>2. Marks(content, EveryKind) \o <<>> = Marks(content, EveryKind)
  BY MarksAre, ConcatEmptySeq
<1> DEFINE ids == <<>>
<1>3. ids \in Seq(AnyId) /\ CallMarks(ids) = <<>>
  BY <1>1, CallMarksNone
<1> HIDE DEF ids
<1>4. /\ <<Rendered(role, content, ids)>> \in Seq(AnyEntry)
      /\ EntryMarks(<<Rendered(role, content, ids)>>) = Marks(content, EveryKind) \o CallMarks(ids)
  BY <1>3, EntryMarksOne
<1> QED  BY <1>2, <1>3, <1>4 DEF ids

----------------------------------------------------------------------------
(* A content with its results as they are shown.                           *)

ShownPart ==
    [p \in AnyPart |-> IF p.kind = "result" THEN Result(p.id, "text", JsonText(p)) ELSE p]

LEMMA JsonTextTyped ==
    ASSUME NEW p \in AnyPart
    PROVE  JsonText(p) \in Seq(Token)
<1>1. p.text \in Seq(Token) /\ <<Quote>> \in Seq(Token) /\ <<NullMark>> \in Seq(Token)
  BY JsonAssumption DEF AnyPart
<1> DEFINE q == <<Quote>>
           n == <<NullMark>>
<1>2. q \in Seq(Token) /\ n \in Seq(Token)
  BY <1>1
<1>3. JsonText(p) = CASE p.form = "string" -> q \o p.text \o q
                      [] p.form = "null"   -> n
                      [] OTHER             -> p.text
  BY DEF JsonText
<1> HIDE DEF q, n
<1>4. (q \o p.text) \o q \in Seq(Token)
  <2>1. q \o p.text \in Seq(Token)
    BY <1>1, <1>2, ConcatProperties
  <2> QED  BY <1>2, <2>1, ConcatProperties
<1> QED  BY <1>1, <1>2, <1>3, <1>4

LEMMA ResultTyped ==
    ASSUME NEW id \in AnyId, NEW form \in {"text", "string", "null", "json"}, NEW text \in Seq(Token)
    PROVE  /\ Result(id, form, text) \in AnyPart /\ Result(id, form, text).kind = "result"
           /\ Result(id, form, text).id = id /\ Result(id, form, text).text = text
           /\ Result(id, form, text).form = form
<1>1. Result(id, form, text) = [kind |-> "result", id |-> id, text |-> text, form |-> form]
  BY DEF Result, Part
<1> QED  BY <1>1, KindsKnown DEF AnyPart, AnyId

LEMMA ShownPartIs ==
    ASSUME NEW p \in AnyPart
    PROVE  /\ ShownPart[p] \in AnyPart /\ ShownPart[p].kind = p.kind /\ ShownPart[p].id = p.id
           /\ p.kind # "result" => ShownPart[p] = p
           /\ p.kind = "result" /\ p.form \in {"text", "json"} => MarkOf(ShownPart[p]) = MarkOf(p)
<1>1. CASE p.kind # "result"
  BY <1>1 DEF ShownPart
<1>2. CASE p.kind = "result"
  <2> DEFINE text == JsonText(p)
             form == "text"
             r == Result(p.id, form, text)
  <2>1. ShownPart[p] = r
    BY <1>2 DEF ShownPart
  <2>2. p.id \in AnyId /\ text \in Seq(Token) /\ form \in {"text", "string", "null", "json"}
    BY JsonTextTyped DEF AnyPart, AnyId
  <2> HIDE DEF text, form
  <2>3. r \in AnyPart /\ r.kind = "result" /\ r.id = p.id /\ r.text = text /\ r.form = form
    BY <2>2, ResultTyped
  <2> HIDE DEF r
  <2>4. MarkOf(r) = ResultMark(p.id, JsonText(p))
    BY <2>3 DEF MarkOf, ResultText, text, form
  <2>5. p.form \in {"text", "json"} => MarkOf(p) = ResultMark(p.id, p.text) /\ JsonText(p) = p.text
    BY <1>2 DEF MarkOf, ResultText, JsonText
  <2> QED  BY <1>2, <2>1, <2>3, <2>4, <2>5
<1> QED  BY <1>1, <1>2

LEMMA ShownPartMaps == MapsInto(ShownPart, AnyPart, AnyPart)
<1> DEFINE Value(p) == IF p.kind = "result" THEN Result(p.id, "text", JsonText(p)) ELSE p
<1>1. ShownPart = [p \in AnyPart |-> Value(p)]
  BY DEF ShownPart
<1> HIDE DEF Value
<1>2. \A p \in AnyPart : ShownPart[p] \in AnyPart
  BY ShownPartIs
<1>3. \A p \in AnyPart : Value(p) \in AnyPart
  BY <1>1, <1>2
<1> QED  BY <1>1, <1>3 DEF MapsInto

LEMMA AsShownIs ==
    ASSUME NEW c \in Seq(AnyPart)
    PROVE  /\ AsShown(c) = Mapped(ShownPart, c) /\ AsShown(c) \in Seq(AnyPart)
           /\ DOMAIN AsShown(c) = DOMAIN c
           /\ \A i \in DOMAIN c : AsShown(c)[i].kind = c[i].kind /\ AsShown(c)[i].id = c[i].id
<1>1. \A i \in DOMAIN c : c[i] \in AnyPart
  BY LenProperties, ElementOfSeq
<1>2. AsShown(c) = Mapped(ShownPart, c)
  BY <1>1 DEF AsShown, Mapped, ShownPart
<1>3. Mapped(ShownPart, c) \in Seq(AnyPart)
  BY ShownPartMaps, MapTyped
<1>4. DOMAIN AsShown(c) = DOMAIN c /\ \A i \in DOMAIN c : AsShown(c)[i] = ShownPart[c[i]]
  BY <1>2 DEF Mapped
<1> QED  BY <1>1, <1>2, <1>3, <1>4, ShownPartIs

LEMMA AsShownNone == AsShown(<<>>) = <<>>
  BY DEF AsShown

LEMMA AsShownOne ==
    ASSUME NEW p \in AnyPart
    PROVE  AsShown(<<p>>) = <<ShownPart[p]>>
<1>1. <<p>> \in Seq(AnyPart)
  OBVIOUS
<1>2. Mapped(ShownPart, <<p>>) = <<ShownPart[p]>>
  BY DEF Mapped
<1> QED  BY <1>1, <1>2, AsShownIs

LEMMA AsShownCat ==
    ASSUME NEW c \in Seq(AnyPart), NEW d \in Seq(AnyPart)
    PROVE  AsShown(c \o d) = AsShown(c) \o AsShown(d)
<1> DEFINE e == c \o d
<1>1. e \in Seq(AnyPart)
  BY ConcatProperties
<1>2. Mapped(ShownPart, e) = Mapped(ShownPart, c) \o Mapped(ShownPart, d)
  BY ShownPartMaps, MapCat
<1>3. AsShown(c) = Mapped(ShownPart, c) /\ AsShown(d) = Mapped(ShownPart, d)
  BY AsShownIs
<1> HIDE DEF e
<1>4. AsShown(e) = Mapped(ShownPart, e)
  BY <1>1, AsShownIs
<1> QED  BY <1>2, <1>3, <1>4 DEF e

\* The parts that are no results are the same.
LEMMA AsShownOfKind ==
    ASSUME NEW c \in Seq(AnyPart), NEW ks, "result" \notin ks
    PROVE  OfKind(AsShown(c), ks) = OfKind(c, ks)
<1> DEFINE Q == {d \in Seq(AnyPart) : OfKind(AsShown(d), ks) = OfKind(d, ks)}
<1>1. <<>> \in Q
  BY EmptySeq, AsShownNone
<1>2. ASSUME NEW d \in Seq(AnyPart), NEW p \in AnyPart, d \in Q
      PROVE  Append(d, p) \in Q
  <2> DEFINE o == <<p>>
             u == <<ShownPart[p]>>
  <2>1. Append(d, p) = d \o o /\ o \in Seq(AnyPart) /\ Append(d, p) \in Seq(AnyPart)
    BY OnePart
  <2>2. ShownPart[p] \in AnyPart
    BY ShownPartIs
  <2>3. AsShown(o) = u /\ u \in Seq(AnyPart)
    BY <2>2, AsShownOne
  <2>4. OfKind(u, ks) = OfKind(o, ks)
    <3>1. OfKind(o, ks) = IF p.kind \in ks THEN o ELSE <<>>
      BY OfKindOne
    <3>2. OfKind(u, ks) = IF ShownPart[p].kind \in ks THEN u ELSE <<>>
      BY <2>2, OfKindOne
    <3> QED  BY <3>1, <3>2, ShownPartIs
  <2> HIDE DEF o, u
  <2>5. AsShown(d \o o) = AsShown(d) \o u /\ AsShown(d) \in Seq(AnyPart)
    BY <2>1, <2>3, AsShownCat, AsShownIs
  <2> DEFINE x == AsShown(d)
  <2>6. x \in Seq(AnyPart) /\ OfKind(x, ks) = OfKind(d, ks)
    BY <1>2, <2>5
  <2> HIDE DEF x
  <2>7. OfKind(x \o u, ks) = OfKind(x, ks) \o OfKind(u, ks)
    <3>1. OfKindSplits(x, u, ks)
      BY <2>3, <2>6, OfKindSplit
    <3> QED  BY <3>1 DEF OfKindSplits
  <2>8. OfKind(d \o o, ks) = OfKind(d, ks) \o OfKind(o, ks)
    <3>1. OfKindSplits(d, o, ks)
      BY <2>1, OfKindSplit
    <3> QED  BY <3>1 DEF OfKindSplits
  <2>9. OfKind(AsShown(d \o o), ks) = OfKind(d \o o, ks)
    BY <2>4, <2>5, <2>6, <2>7, <2>8 DEF x
  <2> QED  BY <2>1, <2>9
<1>3. Seq(AnyPart) \subseteq Q
  <2> HIDE DEF Q
  <2> QED  BY <1>1, <1>2, SeqInduction
<1> QED  BY <1>3

\* Results with an output_text, or with an output whose JSON it is, are shown alike.
ReadAlike(c) == \A i \in DOMAIN c : c[i].kind = "result" => c[i].form \in {"text", "json"}

LEMMA AsShownMarks ==
    ASSUME NEW c \in Seq(AnyPart), NEW ks, "result" \notin ks \/ ReadAlike(c)
    PROVE  Marks(AsShown(c), ks) = Marks(c, ks)
<1>1. CASE "result" \notin ks
  BY <1>1, AsShownOfKind DEF Marks
<1>2. CASE ReadAlike(c)
  <2> DEFINE P == {p \in AnyPart : p.kind = "result" => p.form \in {"text", "json"}}
             Q == {d \in Seq(P) : d \in Seq(AnyPart) /\ Marks(AsShown(d), ks) = Marks(d, ks)}
  <2>1. c \in Seq(P)
    <3>1. /\ Len(c) \in Nat /\ DOMAIN c = 1..Len(c)
          /\ \A i \in 1..Len(c) : c[i] \in AnyPart
          /\ c = [i \in 1..Len(c) |-> c[i]]
      BY LenProperties, ElementOfSeq
    <3>2. \A i \in 1..Len(c) : c[i] \in P
      BY <1>2, <3>1 DEF ReadAlike
    <3> HIDE DEF P
    <3> QED  BY <3>1, <3>2, SeqDef
  <2>2. <<>> \in Q
    BY EmptySeq, AsShownNone
  <2>3. ASSUME NEW d \in Seq(P), NEW p \in P, d \in Q
        PROVE  Append(d, p) \in Q
    <3> DEFINE o == <<p>>
               u == <<ShownPart[p]>>
    <3>0. Append(d, p) \in Seq(P)
      <4> HIDE DEF P, Q
      <4> QED  BY AppendProperties
    <3>1. d \in Seq(AnyPart) /\ p \in AnyPart /\ Marks(AsShown(d), ks) = Marks(d, ks)
      BY <2>3
    <3>2. Append(d, p) = d \o o /\ o \in Seq(AnyPart) /\ Append(d, p) \in Seq(AnyPart)
      BY <3>1, OnePart
    <3>3. ShownPart[p] \in AnyPart /\ ShownPart[p].kind = p.kind
          /\ (p.kind # "result" => ShownPart[p] = p)
          /\ (p.kind = "result" => MarkOf(ShownPart[p]) = MarkOf(p))
      BY <3>1, ShownPartIs
    <3>4. AsShown(o) = u /\ u \in Seq(AnyPart)
      BY <3>1, <3>3, AsShownOne
    <3>5. Marks(u, ks) = Marks(o, ks)
      <4>1. CASE p.kind # "result"
        BY <3>3, <4>1
      <4>2. CASE p.kind = "result" /\ p.kind \in ks
        <5>1. Marks(o, ks) = <<MarkOf(p)>>
          BY <3>1, <4>2, MarksOne
        <5>2. Marks(u, ks) = <<MarkOf(ShownPart[p])>>
          BY <3>3, <4>2, MarksOne
        <5> QED  BY <3>3, <4>2, <5>1, <5>2
      <4>3. CASE p.kind = "result" /\ p.kind \notin ks
        BY <3>1, <3>3, <4>3, MarksOne
      <4> QED  BY <4>1, <4>2, <4>3
    <3> HIDE DEF o, u, P, Q
    <3> DEFINE x == AsShown(d)
    <3>6. AsShown(d \o o) = x \o u /\ x \in Seq(AnyPart)
      BY <3>1, <3>2, <3>4, AsShownCat, AsShownIs
    <3>7. Marks(x, ks) = Marks(d, ks)
      BY <3>1
    <3> HIDE DEF x
    <3>8. Marks(x \o u, ks) = Marks(x, ks) \o Marks(u, ks)
      BY <3>4, <3>6, MarksCat
    <3>9. Marks(d \o o, ks) = Marks(d, ks) \o Marks(o, ks)
      BY <3>1, <3>2, MarksCat
    <3> QED  BY <3>0, <3>2, <3>5, <3>6, <3>7, <3>8, <3>9 DEF Q
  <2>4. Seq(P) \subseteq Q
    <3> HIDE DEF P, Q
    <3> QED  BY <2>2, <2>3, SeqInduction
  <2> QED  BY <2>1, <2>4
<1> QED  BY <1>1, <1>2

----------------------------------------------------------------------------
(* What a message is rendered as.                                          *)

AnswerEntry == [p \in AnyPart |-> Rendered("tool", <<p>>, <<>>)]

LEMMA AnswerEntryMaps == MapsInto(AnswerEntry, AnyPart, AnyEntry)
<1>1. \A p \in AnyPart : <<p>> \in Seq(AnyPart)
  OBVIOUS
<1>2. <<>> \in Seq(AnyId)
  BY EmptySeq
<1>3. \A p \in AnyPart : Rendered("tool", <<p>>, <<>>) \in AnyEntry
  BY <1>1, <1>2, RenderedTyped
<1> QED  BY <1>3 DEF MapsInto, AnswerEntry

LEMMA AnswerEntriesMarks ==
    ASSUME NEW c \in Seq(AnyPart)
    PROVE  EntryMarks(Mapped(AnswerEntry, c)) = Marks(c, EveryKind)
<1> DEFINE Q == {d \in Seq(AnyPart) : EntryMarks(Mapped(AnswerEntry, d)) = Marks(d, EveryKind)}
<1>1. <<>> \in Q
  <2>1. Mapped(AnswerEntry, <<>>) = <<>>
    BY DEF Mapped
  <2> QED  BY <2>1, EmptySeq, MarksNone, EntryMarksNone
<1>2. ASSUME NEW d \in Seq(AnyPart), NEW p \in AnyPart, d \in Q
      PROVE  Append(d, p) \in Q
  <2> DEFINE o == <<p>>
  <2>1. Append(d, p) = d \o o /\ o \in Seq(AnyPart) /\ Append(d, p) \in Seq(AnyPart)
    BY OnePart
  <2>2. Mapped(AnswerEntry, o) = <<Rendered("tool", o, <<>>)>>
    BY DEF Mapped, AnswerEntry
  <2> HIDE DEF o
  <2>3. EntryMarks(Mapped(AnswerEntry, o)) = Marks(o, EveryKind)
    BY <2>1, <2>2, EntryMarksOneNoCalls
  <2>4. Mapped(AnswerEntry, d \o o) = Mapped(AnswerEntry, d) \o Mapped(AnswerEntry, o)
    BY <2>1, AnswerEntryMaps, MapCat
  <2>5. Mapped(AnswerEntry, d) \in Seq(AnyEntry) /\ Mapped(AnswerEntry, o) \in Seq(AnyEntry)
    BY <2>1, AnswerEntryMaps, MapTyped
  <2>6. EntryMarks(Mapped(AnswerEntry, d) \o Mapped(AnswerEntry, o))
           = EntryMarks(Mapped(AnswerEntry, d)) \o EntryMarks(Mapped(AnswerEntry, o))
    BY <2>5, EntryMarksCat
  <2>7. Marks(d \o o, EveryKind) = Marks(d, EveryKind) \o Marks(o, EveryKind)
    BY <2>1, MarksCat
  <2>8. EntryMarks(Mapped(AnswerEntry, d)) = Marks(d, EveryKind)
    BY <1>2
  <2> QED  BY <2>1, <2>3, <2>4, <2>6, <2>7, <2>8
<1>3. Seq(AnyPart) \subseteq Q
  <2> HIDE DEF Q
  <2> QED  BY <1>1, <1>2, SeqInduction
<1> QED  BY <1>3

LEMMA TailIs ==
    ASSUME NEW c \in Seq(AnyPart)
    PROVE  /\ TailToolResults(c) = Mapped(AnswerEntry, OfKind(c, {"result"}))
           /\ TailToolResults(c) \in Seq(AnyEntry)
           /\ EntryMarks(TailToolResults(c)) = Marks(c, {"result"})
<1> DEFINE d == OfKind(c, {"result"})
<1>1. d \in Seq(AnyPart)
  BY OfKindIs
<1>2. Marks(d, EveryKind) = Marks(c, {"result"} \cap EveryKind)
  BY MarksOfKind
<1>3. {"result"} \cap EveryKind = {"result"}
  BY DEF EveryKind
<1>4. TailToolResults(c) = [i \in DOMAIN d |-> Rendered("tool", <<d[i]>>, <<>>)]
  BY DEF TailToolResults
<1> HIDE DEF d
<1>5. \A i \in DOMAIN d : d[i] \in AnyPart
  BY <1>1, LenProperties, ElementOfSeq
<1>6. TailToolResults(c) = Mapped(AnswerEntry, d)
  BY <1>4, <1>5 DEF Mapped, AnswerEntry
<1>7. Mapped(AnswerEntry, d) \in Seq(AnyEntry)
  BY <1>1, AnswerEntryMaps, MapTyped
<1>8. EntryMarks(Mapped(AnswerEntry, d)) = Marks(c, {"result"})
  BY <1>1, <1>2, <1>3, AnswerEntriesMarks
<1> QED  BY <1>6, <1>7, <1>8 DEF d

LEMMA CallIdsMarks ==
    ASSUME NEW c \in Seq(AnyPart)
    PROVE  /\ Ids(OfKind(c, {"call"})) = CallIds(c) /\ CallIds(c) \in Seq(AnyId)
           /\ CallMarks(CallIds(c)) = Marks(c, {"call"})
<1>1. Ids(OfKind(c, {"call"})) = CallIds(c)
  <2>1. \A i \in DOMAIN OfKind(c, {"call"}) : OfKind(c, {"call"})[i] \in AnyPart
    <3> DEFINE d == OfKind(c, {"call"})
    <3>1. d \in Seq(AnyPart)
      BY OfKindIs
    <3> HIDE DEF d
    <3>2. \A i \in DOMAIN d : d[i] \in AnyPart
      BY <3>1, LenProperties, ElementOfSeq
    <3> QED  BY <3>2 DEF d
  <2> QED  BY <2>1 DEF Ids, CallIds, Mapped, IdOf
<1> DEFINE Q == {d \in Seq(AnyPart) : CallMarks(CallIds(d)) = Marks(d, {"call"})}
<1>2. <<>> \in Q
  BY EmptySeq, PartsNone, CallMarksNone, MarksNone
<1>3. ASSUME NEW d \in Seq(AnyPart), NEW p \in AnyPart, d \in Q
      PROVE  Append(d, p) \in Q
  <2> DEFINE o == <<p>>
  <2>1. Append(d, p) = d \o o /\ o \in Seq(AnyPart) /\ Append(d, p) \in Seq(AnyPart)
    BY OnePart
  <2>2. CallMarks(CallIds(o)) = Marks(o, {"call"})
    <3>1. CASE p.kind # "call"
      <4>1. CallIds(o) = <<>> /\ Marks(o, {"call"}) = <<>>
        BY <3>1, PartsOne, MarksOne
      <4> QED  BY <4>1, CallMarksNone
    <3>2. CASE p.kind = "call"
      <4>1. CallIds(o) = <<p.id>> /\ Marks(o, {"call"}) = <<CallMark(p.id)>>
        BY <3>2, PartsOne, MarksOne DEF MarkOf
      <4>2. p.id \in AnyId
        BY DEF AnyPart, AnyId
      <4>3. Mapped(CallMarkFn, <<p.id>>) = <<CallMarkFn[p.id]>>
        BY DEF Mapped
      <4> QED  BY <4>1, <4>2, <4>3 DEF CallMarks, CallMarkFn
    <3> QED  BY <3>1, <3>2
  <2> HIDE DEF o
  <2>3. CallIds(d \o o) = CallIds(d) \o CallIds(o) /\ CallIds(d) \in Seq(AnyId) /\ CallIds(o) \in Seq(AnyId)
    BY <2>1, PartsCat, PartsTyped
  <2>4. CallMarks(CallIds(d) \o CallIds(o)) = CallMarks(CallIds(d)) \o CallMarks(CallIds(o))
    BY <2>3, CallMarksIs
  <2>5. Marks(d \o o, {"call"}) = Marks(d, {"call"}) \o Marks(o, {"call"})
    BY <2>1, MarksCat
  <2>6. CallMarks(CallIds(d)) = Marks(d, {"call"})
    BY <1>3
  <2> QED  BY <2>1, <2>2, <2>3, <2>4, <2>5, <2>6
<1>4. Seq(AnyPart) \subseteq Q
  <2> HIDE DEF Q
  <2> QED  BY <1>2, <1>3, SeqInduction
<1> QED  BY <1>1, <1>4, PartsTyped

\* The chunks of texts and labels that are joined.
LEMMA ChunksAre ==
    ASSUME NEW c \in Seq(AnyPart)
    PROVE  /\ Chunks(c) = Mapped(ShownBlock, OfKind(c, {"text", "file"}))
           /\ Chunks(c) \in Seq(AnyPart) /\ Joined(Chunks(c)) \in Seq(Token)
<1> DEFINE d == OfKind(c, {"text", "file"})
<1>1. d \in Seq(AnyPart)
  BY OfKindIs
<1>2. Chunks(c) = [i \in DOMAIN d |-> IF d[i].kind = "file" THEN TextPart(<<FileMark>>) ELSE d[i]]
  BY DEF Chunks
<1> HIDE DEF d
<1>3. \A i \in DOMAIN d : d[i] \in AnyPart
  BY <1>1, LenProperties, ElementOfSeq
<1>4. Chunks(c) = Mapped(ShownBlock, d)
  BY <1>2, <1>3 DEF Mapped, ShownBlock
<1>5. Mapped(ShownBlock, d) \in Seq(AnyPart)
  BY <1>1, RenderedMaps, MapTyped
<1> QED  BY <1>4, <1>5, JoinedIs DEF d

LEMMA ChunksCat ==
    ASSUME NEW c \in Seq(AnyPart), NEW d \in Seq(AnyPart)
    PROVE  Joined(Chunks(c \o d)) = Joined(Chunks(c)) \o Joined(Chunks(d))
<1> DEFINE ks == {"text", "file"}
           x == OfKind(c, ks)
           y == OfKind(d, ks)
<1>1. OfKind(c \o d, ks) = x \o y /\ x \in Seq(AnyPart) /\ y \in Seq(AnyPart)
  BY OfKindCat
<1>2. c \o d \in Seq(AnyPart)
  BY ConcatProperties
<1>3. /\ Chunks(c) = Mapped(ShownBlock, x) /\ Chunks(d) = Mapped(ShownBlock, y)
      /\ Chunks(c) \in Seq(AnyPart) /\ Chunks(d) \in Seq(AnyPart)
  BY ChunksAre
<1>4. Chunks(c \o d) = Mapped(ShownBlock, OfKind(c \o d, ks))
  <2> DEFINE e == c \o d
  <2>1. e \in Seq(AnyPart)
    BY <1>2
  <2> HIDE DEF e
  <2>2. Chunks(e) = Mapped(ShownBlock, OfKind(e, ks))
    BY <2>1, ChunksAre
  <2> QED  BY <2>2 DEF e
<1> HIDE DEF x, y, ks
<1>5. Mapped(ShownBlock, x \o y) = Mapped(ShownBlock, x) \o Mapped(ShownBlock, y)
  BY <1>1, RenderedMaps, MapCat, SMTT(60)
<1>6. Chunks(c \o d) = Chunks(c) \o Chunks(d)
  BY <1>1, <1>3, <1>4, <1>5
<1>7. Joined(Chunks(c) \o Chunks(d)) = Joined(Chunks(c)) \o Joined(Chunks(d))
  BY <1>3, JoinedCat
<1> QED  BY <1>6, <1>7

LEMMA ChunksOne ==
    ASSUME NEW p \in AnyPart
    PROVE  Joined(Chunks(<<p>>)) = IF p.kind = "text" THEN p.text
                                   ELSE IF p.kind = "file" THEN <<FileMark>> ELSE <<>>
<1> DEFINE o == <<p>>
<1>1. o \in Seq(AnyPart) /\ p.text \in Seq(Token)
  BY DEF AnyPart
<1>2. OfKind(o, {"text", "file"}) = IF p.kind \in {"text", "file"} THEN o ELSE <<>>
  BY OfKindOne
<1>3. Mapped(ShownBlock, o) = <<ShownBlock[p]>> /\ Mapped(ShownBlock, <<>>) = <<>>
  BY DEF Mapped
<1> HIDE DEF o
<1>4. Chunks(o) = Mapped(ShownBlock, OfKind(o, {"text", "file"}))
  BY <1>1, ChunksAre
<1>5. CASE p.kind = "text"
  <2>1. Chunks(o) = <<p>>
    BY <1>2, <1>3, <1>4, <1>5 DEF ShownBlock, o
  <2> QED  BY <1>5, <2>1, JoinedOne DEF o
<1>6. CASE p.kind = "file"
  <2> DEFINE t == TextPart(<<FileMark>>)
  <2>1. t \in AnyPart /\ t.text = <<FileMark>>
    BY FileMarkTyped, TextPartTyped DEF TextPart, Part
  <2>2. Chunks(o) = <<t>>
    BY <1>2, <1>3, <1>4, <1>6 DEF ShownBlock, o
  <2> HIDE DEF t
  <2>3. Joined(<<t>>) = t.text
    BY <2>1, JoinedOne
  <2> QED  BY <1>6, <2>1, <2>2, <2>3 DEF o
<1>7. CASE p.kind \notin {"text", "file"}
  <2>1. Chunks(o) = <<>>
    BY <1>2, <1>3, <1>4, <1>7
  <2> QED  BY <1>7, <2>1, JoinedNone DEF o
<1> QED  BY <1>5, <1>6, <1>7

LEMMA ChunksNone == Joined(Chunks(<<>>)) = <<>>
<1>1. Mapped(ShownBlock, <<>>) = <<>>
  BY DEF Mapped
<1>2. Chunks(<<>>) = <<>>
  BY <1>1, EmptySeq, ChunksAre, OfKindNone
<1> QED  BY <1>2, JoinedNone

\* The labels of files are no texts of the message.
LEMMA ChunksMarks ==
    ASSUME NEW c \in Seq(AnyPart)
    PROVE  TextMarks(Joined(Chunks(c))) = Marks(c, {"text"})
<1> DEFINE Q == {d \in Seq(AnyPart) : TextMarks(Joined(Chunks(d))) = Marks(d, {"text"})}
<1>1. <<>> \in Q
  BY EmptySeq, ChunksNone, TextMarksNone, MarksNone
<1>2. ASSUME NEW d \in Seq(AnyPart), NEW p \in AnyPart, d \in Q
      PROVE  Append(d, p) \in Q
  <2> DEFINE o == <<p>>
  <2>1. Append(d, p) = d \o o /\ o \in Seq(AnyPart) /\ Append(d, p) \in Seq(AnyPart)
    BY OnePart
  <2>2. TextMarks(Joined(Chunks(o))) = Marks(o, {"text"})
    <3>1. CASE p.kind = "text"
      BY <3>1, ChunksOne, MarksOne
    <3>2. CASE p.kind = "file"
      <4>1. <<FileMark>> \in Seq({FileMark})
        OBVIOUS
      <4>2. TextMarks(<<FileMark>>) = <<>>
        BY <4>1, TextMarksFiles
      <4>3. Joined(Chunks(o)) = <<FileMark>> /\ Marks(o, {"text"}) = <<>>
        BY <3>2, ChunksOne, MarksOne
      <4> QED  BY <4>2, <4>3
    <3>3. CASE p.kind \notin {"text", "file"}
      <4>1. Joined(Chunks(o)) = <<>> /\ Marks(o, {"text"}) = <<>>
        BY <3>3, ChunksOne, MarksOne
      <4> QED  BY <4>1, TextMarksNone
    <3> QED  BY <3>1, <3>2, <3>3
  <2> HIDE DEF o
  <2>3. Joined(Chunks(d \o o)) = Joined(Chunks(d)) \o Joined(Chunks(o))
        /\ Joined(Chunks(d)) \in Seq(Token) /\ Joined(Chunks(o)) \in Seq(Token)
    BY <2>1, ChunksCat, ChunksAre
  <2>4. TextMarks(Joined(Chunks(d)) \o Joined(Chunks(o)))
           = TextMarks(Joined(Chunks(d))) \o TextMarks(Joined(Chunks(o)))
    BY <2>3, TextMarksIs
  <2>5. Marks(d \o o, {"text"}) = Marks(d, {"text"}) \o Marks(o, {"text"})
    BY <2>1, MarksCat
  <2>6. TextMarks(Joined(Chunks(d))) = Marks(d, {"text"})
    BY <1>2
  <2> QED  BY <2>1, <2>2, <2>3, <2>4, <2>5, <2>6
<1>3. Seq(AnyPart) \subseteq Q
  <2> HIDE DEF Q
  <2> QED  BY <1>1, <1>2, SeqInduction
<1> QED  BY <1>3

\* A text is shown as it is.
LEMMA OneTextMarks ==
    ASSUME NEW text \in Seq(Token)
    PROVE  Marks(<<TextPart(text)>>, EveryKind) = TextMarks(text) /\ <<TextPart(text)>> \in Seq(AnyPart)
<1> DEFINE p == TextPart(text)
<1>1. p \in AnyPart /\ p.kind = "text" /\ p.text = text
  BY TextPartTyped DEF TextPart, Part
<1> HIDE DEF p
<1>2. p.kind \in EveryKind
  BY <1>1 DEF EveryKind
<1>3. Marks(<<p>>, EveryKind) = TextMarks(p.text)
  BY <1>1, <1>2, MarksOne
<1> QED  BY <1>1, <1>3, TextPartTyped DEF p

LEMMA OpenAIContentMarks ==
    ASSUME NEW c \in Seq(AnyPart)
    PROVE  /\ OpenAIContent(c) \in Seq(AnyPart)
           /\ Marks(OpenAIContent(c), EveryKind) = Marks(c, {"text"})
<1>1. CASE HasKind(c, "image")
  <2>1. OpenAIContent(c) = OfKind(c, {"text", "image"})
    BY <1>1 DEF OpenAIContent
  <2>2. {"text", "image"} \cap EveryKind = {"text"}
    BY DEF EveryKind
  <2>3. Marks(OfKind(c, {"text", "image"}), EveryKind) = Marks(c, {"text", "image"} \cap EveryKind)
    BY MarksOfKind
  <2>4. OfKind(c, {"text", "image"}) \in Seq(AnyPart)
    BY OfKindIs
  <2> QED  BY <2>1, <2>2, <2>3, <2>4
<1>2. CASE ~HasKind(c, "image") /\ Chunks(c) = <<>>
  <2>1. OpenAIContent(c) = <<>>
    BY <1>2 DEF OpenAIContent
  <2>2. TextMarks(Joined(Chunks(c))) = <<>>
    BY <1>2, JoinedNone, TextMarksNone
  <2> QED  BY <2>1, <2>2, ChunksMarks, MarksNone, EmptySeq
<1>3. CASE ~HasKind(c, "image") /\ Chunks(c) # <<>>
  <2>1. OpenAIContent(c) = <<TextPart(Joined(Chunks(c)))>>
    BY <1>3 DEF OpenAIContent
  <2> QED  BY <2>1, ChunksAre, ChunksMarks, OneTextMarks
<1> QED  BY <1>1, <1>2, <1>3

\* What one message is rendered as for OpenAI, and its marks.
LEMMA OpenAIMarks ==
    ASSUME NEW msg \in AnyMessage
    PROVE  /\ ToOpenAIChatCompletion(msg) \in Seq(AnyEntry)
           /\ msg.role # "tool" =>
                 EntryMarks(ToOpenAIChatCompletion(msg))
                    = (Marks(AsShown(msg.content), {"text"}) \o Marks(AsShown(msg.content), {"call"}))
                      \o Marks(AsShown(msg.content), {"result"})
           /\ msg.role = "tool" /\ HasKind(AsShown(msg.content), "result") =>
                 EntryMarks(ToOpenAIChatCompletion(msg)) = Marks(AsShown(msg.content), {"result"})
           /\ msg.role = "tool" /\ ~HasKind(AsShown(msg.content), "result") =>
                 EntryMarks(ToOpenAIChatCompletion(msg)) = Marks(AsShown(msg.content), {"text"})
<1> DEFINE c == AsShown(msg.content)
           tail == TailToolResults(c)
           ids == Ids(OfKind(c, {"call"}))
           first == <<Rendered(msg.role, OpenAIContent(c), ids)>>
           text == <<Rendered("tool", <<TextPart(Joined(Chunks(c)))>>, <<>>)>>
<1>1. c \in Seq(AnyPart) /\ msg.role \in {"user", "system", "tool", "assistant"}
  BY AsShownIs DEF AnyMessage
<1>2. ToOpenAIChatCompletion(msg) =
         IF msg.role # "tool" THEN first \o tail ELSE IF tail # <<>> THEN tail ELSE text
  BY DEF ToOpenAIChatCompletion
<1> HIDE DEF c
<1>3. tail \in Seq(AnyEntry) /\ EntryMarks(tail) = Marks(c, {"result"})
      /\ tail = Mapped(AnswerEntry, OfKind(c, {"result"}))
  BY <1>1, TailIs
<1>4. first \in Seq(AnyEntry)
      /\ EntryMarks(first) = Marks(c, {"text"}) \o Marks(c, {"call"})
  <2>1. ids \in Seq(AnyId) /\ CallMarks(ids) = Marks(c, {"call"})
    BY <1>1, CallIdsMarks
  <2>2. OpenAIContent(c) \in Seq(AnyPart) /\ Marks(OpenAIContent(c), EveryKind) = Marks(c, {"text"})
    BY <1>1, OpenAIContentMarks
  <2> DEFINE role == msg.role
             d == OpenAIContent(c)
  <2>3. role \in {"user", "system", "tool", "assistant"} /\ d \in Seq(AnyPart)
    BY <1>1, <2>2
  <2> HIDE DEF ids, role, d
  <2>4. /\ <<Rendered(role, d, ids)>> \in Seq(AnyEntry)
        /\ EntryMarks(<<Rendered(role, d, ids)>>) = Marks(d, EveryKind) \o CallMarks(ids)
    BY <2>1, <2>3, EntryMarksOne
  <2> QED  BY <2>1, <2>2, <2>4 DEF role, d
<1>5. text \in Seq(AnyEntry) /\ EntryMarks(text) = Marks(c, {"text"})
  <2> DEFINE t == Joined(Chunks(c))
             d == <<TextPart(t)>>
  <2>1. t \in Seq(Token) /\ TextMarks(t) = Marks(c, {"text"})
    BY <1>1, ChunksAre, ChunksMarks
  <2> HIDE DEF t
  <2>2. d \in Seq(AnyPart) /\ Marks(d, EveryKind) = TextMarks(t)
    BY <2>1, OneTextMarks
  <2> HIDE DEF d
  <2>3. <<Rendered("tool", d, <<>>)>> \in Seq(AnyEntry)
        /\ EntryMarks(<<Rendered("tool", d, <<>>)>>) = Marks(d, EveryKind)
    BY <2>2, EntryMarksOneNoCalls
  <2> QED  BY <2>1, <2>2, <2>3 DEF t, d
<1> HIDE DEF first, text, tail
<1>6. CASE msg.role # "tool"
  <2>1. EntryMarks(first \o tail) = EntryMarks(first) \o EntryMarks(tail)
    BY <1>3, <1>4, EntryMarksCat
  <2>2. first \o tail \in Seq(AnyEntry)
    BY <1>3, <1>4, ConcatProperties
  <2> QED  BY <1>2, <1>3, <1>4, <1>6, <2>1, <2>2 DEF c
<1>7. CASE msg.role = "tool" /\ HasKind(c, "result")
  <2>1. tail # <<>>
    <3>1. PICK i \in DOMAIN c : c[i].kind = "result"
      BY <1>7 DEF HasKind
    <3>2. OfKind(c, {"result"}) # <<>>
      <4> DEFINE F == Keeper(AnyPart, Kinds({"result"}))
      <4>1. c[i] \in AnyPart /\ i \in 1..Len(c)
        BY <1>1, <3>1, LenProperties, ElementOfSeq
      <4>2. F[c[i]] = <<c[i]>> /\ MapsInto(F, AnyPart, Seq(AnyPart))
        BY <3>1, <4>1, KeeperMaps DEF Keeper, Kinds
      <4>3. OfKind(c, {"result"}) = FlatMap(F, c)
        BY <1>1, OfKindIs
      <4> HIDE DEF F
      <4>4. \E j \in 1..Len(FlatMap(F, c)) : FlatMap(F, c)[j] = c[i]
        BY <1>1, <4>1, <4>2, FlatMapHas
      <4> QED  BY <4>3, <4>4
    <3>3. OfKind(c, {"result"}) \in Seq(AnyPart)
      BY <1>1, OfKindIs
    <3> DEFINE d == OfKind(c, {"result"})
    <3>4. d \in Seq(AnyPart) /\ d # <<>>
      BY <3>2, <3>3
    <3> HIDE DEF d
    <3>5. Len(Mapped(AnswerEntry, d)) = Len(d) /\ Len(d) # 0
      BY <3>4, AnswerEntryMaps, MapTyped, EmptySeq
    <3> QED  BY <1>3, <3>5 DEF d
  <2> QED  BY <1>2, <1>3, <1>7, <2>1 DEF c
<1>8. CASE msg.role = "tool" /\ ~HasKind(c, "result")
  <2>1. OfKind(c, {"result"}) = <<>>
    <3>1. \A i \in DOMAIN c : c[i].kind \notin {"result"}
      BY <1>8 DEF HasKind
    <3> QED  BY <1>1, <3>1, NoneOfKind
  <2>2. tail = <<>>
    BY <1>3, <2>1 DEF Mapped
  <2> QED  BY <1>2, <1>5, <1>8, <2>2 DEF c
<1> QED  BY <1>6, <1>7, <1>8 DEF c

LEMMA EntryIfAnyMarks ==
    ASSUME NEW role \in {"user", "system", "tool", "assistant"}, NEW c \in Seq(AnyPart)
    PROVE  EntryIfAny(role, c) \in Seq(AnyEntry) /\ EntryMarks(EntryIfAny(role, c)) = Marks(c, EveryKind)
<1>1. CASE c = <<>>
  BY <1>1, EmptySeq, EntryMarksNone, MarksNone DEF EntryIfAny
<1>2. CASE c # <<>>
  BY <1>2, EntryMarksOneNoCalls DEF EntryIfAny
<1> QED  BY <1>1, <1>2

\* What one message is rendered as for Anthropic, and its marks.
LEMMA AnthropicMarks ==
    ASSUME NEW msg \in AnyMessage
    PROVE  /\ ToAnthropicMessages(msg) \in Seq(AnyEntry)
           /\ msg.role = "tool" => EntryMarks(ToAnthropicMessages(msg)) = Marks(AsShown(msg.content), {"result"})
           /\ msg.role # "tool" =>
                 EntryMarks(ToAnthropicMessages(msg))
                    = Marks(AsShown(msg.content), {"text", "call"}) \o Marks(AsShown(msg.content), {"result"})
<1> DEFINE c == AsShown(msg.content)
           pending == OfKind(c, {"result"})
           blocks == OfKind(c, {"text", "image", "call"})
           role == MapRoleAnthropic(msg.role)
           alone == <<Rendered("user", pending, <<>>)>>
           x == EntryIfAny(role, blocks)
           y == EntryIfAny("user", pending)
           Split == msg.role = "tool" \/ (msg.role # "user" /\ pending # <<>> /\ blocks = <<>>)
<1>1. c \in Seq(AnyPart) /\ msg.role \in {"user", "system", "tool", "assistant"}
  BY AsShownIs DEF AnyMessage
<1>2. ToAnthropicMessages(msg) = IF Split THEN alone ELSE x \o y
  BY DEF ToAnthropicMessages
<1> HIDE DEF c
<1>3. pending \in Seq(AnyPart) /\ Marks(pending, EveryKind) = Marks(c, {"result"})
  <2>1. {"result"} \cap EveryKind = {"result"}
    BY DEF EveryKind
  <2>2. Marks(pending, EveryKind) = Marks(c, {"result"} \cap EveryKind)
    BY <1>1, MarksOfKind
  <2> QED  BY <1>1, <2>1, <2>2, OfKindIs
<1>4. blocks \in Seq(AnyPart) /\ Marks(blocks, EveryKind) = Marks(c, {"text", "call"})
  <2>1. {"text", "image", "call"} \cap EveryKind = {"text", "call"}
    BY DEF EveryKind
  <2>2. Marks(blocks, EveryKind) = Marks(c, {"text", "image", "call"} \cap EveryKind)
    BY <1>1, MarksOfKind
  <2> QED  BY <1>1, <2>1, <2>2, OfKindIs
<1>5. role \in {"user", "system", "tool", "assistant"}
  BY <1>1 DEF MapRoleAnthropic
<1> HIDE DEF pending, blocks, role
<1>6. alone \in Seq(AnyEntry) /\ EntryMarks(alone) = Marks(c, {"result"})
  BY <1>3, EntryMarksOneNoCalls
<1>7. x \in Seq(AnyEntry) /\ EntryMarks(x) = Marks(c, {"text", "call"})
  BY <1>4, <1>5, EntryIfAnyMarks
<1>8. y \in Seq(AnyEntry) /\ EntryMarks(y) = Marks(c, {"result"})
  BY <1>3, EntryIfAnyMarks
<1> HIDE DEF alone, x, y
<1>9. CASE ~Split
  <2>1. EntryMarks(x \o y) = EntryMarks(x) \o EntryMarks(y) /\ x \o y \in Seq(AnyEntry)
    BY <1>7, <1>8, EntryMarksCat, ConcatProperties
  <2> QED  BY <1>2, <1>7, <1>8, <1>9, <2>1 DEF c
<1>10. CASE Split
  <2>1. msg.role # "tool" => Marks(c, {"text", "call"}) = <<>>
    BY <1>4, <1>10, MarksNone
  <2>2. Marks(c, {"result"}) \in Seq(Mark)
    BY <1>1, MarksAre
  <2>3. <<>> \o Marks(c, {"result"}) = Marks(c, {"result"})
    BY <2>2, ConcatEmptySeq
  <2> QED  BY <1>2, <1>6, <1>10, <2>1, <2>3 DEF c
<1> QED  BY <1>9, <1>10

----------------------------------------------------------------------------
(* The same marks, kind by kind, of a message and of its entries.          *)

LEMMA KindByKind ==
    ASSUME NEW c \in Seq(AnyPart), NEW kind \in EveryKind
    PROVE  /\ Only((Marks(c, {"text"}) \o Marks(c, {"call"})) \o Marks(c, {"result"}), {kind}) = Marks(c, {kind})
           /\ Only(Marks(c, {"text", "call"}) \o Marks(c, {"result"}), {kind}) = Marks(c, {kind})
<1> DEFINE t == Marks(c, {"text"})
           k == Marks(c, {"call"})
           r == Marks(c, {"result"})
           b == Marks(c, {"text", "call"})
<1>1. t \in Seq(Mark) /\ k \in Seq(Mark) /\ r \in Seq(Mark) /\ b \in Seq(Mark)
  BY MarksAre
<1>2. Only(t, {kind}) = IF kind = "text" THEN Marks(c, {kind}) ELSE <<>>
  BY OnlyMarks
<1>3. Only(k, {kind}) = IF kind = "call" THEN Marks(c, {kind}) ELSE <<>>
  BY OnlyMarks
<1>4. Only(r, {kind}) = IF kind = "result" THEN Marks(c, {kind}) ELSE <<>>
  BY OnlyMarks
<1>5. Only(b, {kind}) = IF kind \in {"text", "call"} THEN Marks(c, {kind}) ELSE <<>>
  BY OnlyMarks
<1> HIDE DEF t, k, r, b
<1>6. t \o k \in Seq(Mark) /\ Only(t \o k, {kind}) = Only(t, {kind}) \o Only(k, {kind})
  <2>1. t \o k \in Seq(Mark)
    BY <1>1, ConcatProperties
  <2>2. Only(t \o k, {kind}) = Only(t, {kind}) \o Only(k, {kind})
    <3>1. t \in Seq(Mark) /\ k \in Seq(Mark)
      BY <1>1
    <3> QED
      <4>1. OnlySplits(t, k, {kind})
        BY <3>1, OnlySplit
      <4> QED  BY <4>1 DEF OnlySplits
  <2> QED  BY <2>1, <2>2
<1>7. Only(b \o r, {kind}) = Only(b, {kind}) \o Only(r, {kind})
  <2>1. OnlySplits(b, r, {kind})
    BY <1>1, OnlySplit
  <2> QED  BY <2>1 DEF OnlySplits
<1>8. Only((t \o k) \o r, {kind}) = Only(t \o k, {kind}) \o Only(r, {kind})
  <2> DEFINE u == t \o k
  <2>1. u \in Seq(Mark)
    BY <1>6
  <2> HIDE DEF u
  <2>2. Only(u \o r, {kind}) = Only(u, {kind}) \o Only(r, {kind})
    <3>1. OnlySplits(u, r, {kind})
      BY <1>1, <2>1, OnlySplit
    <3> QED  BY <3>1 DEF OnlySplits
  <2> QED  BY <2>2 DEF u
<1> DEFINE m == Marks(c, {kind})
<1>9. m \o <<>> = m /\ <<>> \o m = m /\ <<>> \o <<>> = <<>>
  <2>1. m \in Seq(Mark)
    BY MarksAre
  <2> QED  BY <2>1, ConcatEmptySeq
<1> HIDE DEF m
<1>10. Only(t, {kind}) \o Only(k, {kind}) = IF kind \in {"text", "call"} THEN m ELSE <<>>
  BY <1>2, <1>3, <1>9 DEF m, EveryKind
<1>11. (IF kind \in {"text", "call"} THEN m ELSE <<>>) \o Only(r, {kind}) = m
  BY <1>4, <1>9 DEF m, EveryKind
<1> QED  BY <1>5, <1>6, <1>7, <1>8, <1>10, <1>11 DEF t, k, r, b, m

\* A message that fits its role has no marks of other kinds than its role shows.
LEMMA RoleMarks ==
    ASSUME NEW msg \in AnyMessage, FitsItsRole(msg), NEW kind \in EveryKind
    PROVE  /\ msg.role # "tool" =>
                 Only(Marks(msg.content, Shown[msg.role]), {kind}) = Marks(msg.content, {kind})
           /\ msg.role = "tool" =>
                 /\ Only(Marks(msg.content, Shown[msg.role]), {kind}) = Only(Marks(msg.content, {"result"}), {kind})
                 /\ ~HasKind(msg.content, "result") =>
                       Marks(msg.content, {"text"}) = <<>> /\ Marks(msg.content, {"result"}) = <<>>
<1> DEFINE c == msg.content
<1>1. c \in Seq(AnyPart) /\ msg.role \in {"user", "system", "tool", "assistant"}
  BY DEF AnyMessage
<1>2. ASSUME NEW k, ~HasKind(c, k)
      PROVE  Marks(c, {k}) = <<>>
  <2>1. \A i \in DOMAIN c : c[i].kind \notin {k}
    BY <1>2 DEF HasKind
  <2> HIDE DEF c
  <2>2. OfKind(c, {k}) = <<>>
    BY <1>1, <2>1, NoneOfKind
  <2> QED  BY <1>1, <2>2, NoMarks
<1>3. msg.role \in {"user", "system"} => Marks(c, {"call"}) = <<>> /\ Marks(c, {"result"}) = <<>>
  BY <1>2 DEF FitsItsRole
<1>4. msg.role = "tool" /\ ~HasKind(c, "result") => Marks(c, {"text"}) = <<>> /\ Marks(c, {"result"}) = <<>>
  BY <1>2 DEF FitsItsRole
<1>5. Only(Marks(c, Shown[msg.role]), {kind}) = IF kind \in Shown[msg.role] THEN Marks(c, {kind}) ELSE <<>>
  <2> HIDE DEF c
  <2> QED  BY <1>1, OnlyMarks
<1>6. msg.role \in {"user", "system"} => Shown[msg.role] = {"text"}
  BY ShownIs
<1>7. msg.role = "assistant" => Shown[msg.role] = EveryKind
  BY ShownIs DEF EveryKind
<1>8. msg.role = "tool" => Shown[msg.role] = {"result"}
  BY ShownIs
<1>9. CASE msg.role \in {"user", "system"}
  BY <1>3, <1>5, <1>6, <1>9 DEF EveryKind
<1>10. CASE msg.role = "assistant"
  BY <1>5, <1>7, <1>10
<1>11. CASE msg.role = "tool"
  BY <1>4, <1>8, <1>11
<1> QED  BY <1>1, <1>9, <1>10, <1>11

LEMMA MessageSame ==
    ASSUME NEW msg \in AnyMessage, FitsItsRole(msg), NEW kind \in EveryKind
    PROVE  /\ Only(EntryMarks(ToOpenAIChatCompletion(msg)), {kind})
                 = Only(Marks(AsShown(msg.content), Shown[msg.role]), {kind})
           /\ Only(EntryMarks(ToAnthropicMessages(msg)), {kind})
                 = Only(Marks(AsShown(msg.content), Shown[msg.role]), {kind})
<1> DEFINE c == AsShown(msg.content)
           n == Message(msg.role, c)
<1>1. /\ c \in Seq(AnyPart) /\ msg.role \in {"user", "system", "tool", "assistant"}
      /\ \A k : HasKind(c, k) <=> HasKind(msg.content, k)
  BY AsShownIs DEF AnyMessage, HasKind
<1> HIDE DEF c
<1>2. n \in AnyMessage /\ n.role = msg.role /\ n.content = c
  BY <1>1 DEF Message, AnyMessage
<1> HIDE DEF n
<1>3. FitsItsRole(n)
  BY <1>1, <1>2 DEF FitsItsRole
<1>4. /\ n.role # "tool" => Only(Marks(n.content, Shown[n.role]), {kind}) = Marks(n.content, {kind})
      /\ n.role = "tool" =>
            /\ Only(Marks(n.content, Shown[n.role]), {kind}) = Only(Marks(n.content, {"result"}), {kind})
            /\ ~HasKind(n.content, "result") =>
                  Marks(n.content, {"text"}) = <<>> /\ Marks(n.content, {"result"}) = <<>>
  BY <1>2, <1>3, RoleMarks
<1>5. CASE msg.role # "tool"
  <2>1. Only(EntryMarks(ToOpenAIChatCompletion(msg)), {kind}) = Marks(c, {kind})
    BY <1>1, <1>5, OpenAIMarks, KindByKind DEF c
  <2>2. Only(EntryMarks(ToAnthropicMessages(msg)), {kind}) = Marks(c, {kind})
    BY <1>1, <1>5, AnthropicMarks, KindByKind DEF c
  <2> QED  BY <1>2, <1>4, <1>5, <2>1, <2>2 DEF c
<1>6. CASE msg.role = "tool"
  <2>1. EntryMarks(ToOpenAIChatCompletion(msg)) = Marks(c, {"result"})
    BY <1>2, <1>4, <1>6, OpenAIMarks DEF c
  <2>2. EntryMarks(ToAnthropicMessages(msg)) = Marks(c, {"result"})
    BY <1>6, AnthropicMarks DEF c
  <2> QED  BY <1>2, <1>4, <1>6, <2>1, <2>2 DEF c
<1> QED  BY <1>5, <1>6

\* A thread is rendered message by message.
OpenAIEntries == [msg \in AnyMessage |-> ToOpenAIChatCompletion(msg)]
AnthropicEntries == [msg \in AnyMessage |-> ToAnthropicMessages(msg)]

LEMMA EntriesMap == MapsInto(OpenAIEntries, AnyMessage, Seq(AnyEntry))
                    /\ MapsInto(AnthropicEntries, AnyMessage, Seq(AnyEntry))
  BY OpenAIMarks, AnthropicMarks DEF MapsInto, OpenAIEntries, AnthropicEntries

LEMMA ThreadsAre ==
    ASSUME thread \in Seq(AnyMessage)
    PROVE  /\ OpenAIThread = FlatMap(OpenAIEntries, thread)
           /\ AnthropicThread = FlatMap(AnthropicEntries, thread)
<1>1. \A i \in DOMAIN thread : thread[i] \in AnyMessage
  BY LenProperties, ElementOfSeq
<1>2. [i \in DOMAIN thread |-> ToOpenAIChatCompletion(thread[i])] = Mapped(OpenAIEntries, thread)
  BY <1>1 DEF Mapped, OpenAIEntries
<1>3. [i \in DOMAIN thread |-> ToAnthropicMessages(thread[i])] = Mapped(AnthropicEntries, thread)
  BY <1>1 DEF Mapped, AnthropicEntries
<1> QED  BY <1>2, <1>3 DEF OpenAIThread, AnthropicThread, FlatMap

\* Mapping a sequence looks at its elements only.
LEMMA RestrictedMap ==
    ASSUME NEW A, NEW F, NEW t \in Seq(A)
    PROVE  FlatMap(F, t) = FlatMap([x \in A |-> F[x]], t)
<1> DEFINE f == [x \in A |-> F[x]]
<1>1. \A i \in DOMAIN t : t[i] \in A
  BY LenProperties, ElementOfSeq
<1>2. Mapped(f, t) = Mapped(F, t)
  BY <1>1 DEF Mapped
<1> QED  BY <1>2 DEF FlatMap

\* The marks of some kinds of what a sequence is mapped to are those of each element.
LEMMA OnlyOfEach ==
    ASSUME NEW A, NEW G, NEW H, NEW ks, NEW t \in Seq(A),
           \A x \in A : /\ G[x] \in Seq(Mark) /\ H[x] \in Seq(Mark)
                        /\ Only(G[x], ks) = Only(H[x], ks)
    PROVE  Only(FlatMap(G, t), ks) = Only(FlatMap(H, t), ks)
<1> DEFINE K == Keeper(Mark, OfSort(ks))
           p == [x \in A |-> G[x]]
           q == [x \in A |-> H[x]]
           g == [x \in A |-> FlatMap(K, p[x])]
           h == [x \in A |-> FlatMap(K, q[x])]
<1>1. MapsInto(K, Mark, Seq(Mark))
  BY KeeperMaps
<1>2. \A s \in Seq(Mark) : Only(s, ks) = FlatMap(K, s)
  BY OnlyIs
<1>3. MapsInto(p, A, Seq(Mark)) /\ MapsInto(q, A, Seq(Mark))
  BY DEF MapsInto
<1> HIDE DEF K
<1>4. g = h
  BY <1>2
<1>5. FlatMap(G, t) = FlatMap(p, t) /\ FlatMap(H, t) = FlatMap(q, t)
  <2> HIDE DEF g, h
  <2>1. FlatMap(G, t) = FlatMap(p, t)
    BY RestrictedMap
  <2>2. FlatMap(H, t) = FlatMap(q, t)
    BY RestrictedMap
  <2> QED  BY <2>1, <2>2
<1> HIDE DEF p, q
<1>6. FlatMap(p, t) \in Seq(Mark) /\ FlatMap(q, t) \in Seq(Mark)
  BY <1>3, FlatMapTyped
<1>7. FlatMap(K, FlatMap(p, t)) = FlatMap(g, t)
  BY <1>1, <1>3, FlatMapThen
<1>8. FlatMap(K, FlatMap(q, t)) = FlatMap(h, t)
  BY <1>1, <1>3, FlatMapThen
<1> HIDE DEF g, h
<1> QED  BY <1>2, <1>4, <1>5, <1>6, <1>7, <1>8

\* The marks of a thread as OpenAI and Anthropic are shown it.
ShownMark == [m \in AnyMessage |-> Marks(AsShown(m.content), Shown[m.role])]
ShownMarks(t) == FlatMap(ShownMark, t)

LEMMA ShownMarkMaps == MapsInto(ShownMark, AnyMessage, Seq(Mark)) /\ MapsInto(MessageMark, AnyMessage, Seq(Mark))
<1>1. \A m \in AnyMessage : m.content \in Seq(AnyPart)
  BY DEF AnyMessage
<1> QED  BY <1>1, AsShownIs, MarksAre DEF MapsInto, ShownMark, MessageMark

LEMMA SequenceOf ==
    ASSUME NEW S, NEW T, NEW t \in Seq(S), \A i \in DOMAIN t : t[i] \in T
    PROVE  t \in Seq({x \in S : x \in T})
<1>1. /\ Len(t) \in Nat /\ DOMAIN t = 1..Len(t)
      /\ \A i \in 1..Len(t) : t[i] \in S
      /\ t = [i \in 1..Len(t) |-> t[i]]
  BY LenProperties, ElementOfSeq
<1> QED  BY <1>1, SeqDef

LEMMA ThreadSame ==
    ASSUME NEW F, MapsInto(F, AnyMessage, Seq(AnyEntry)), NEW kind,
           \A msg \in AnyMessage : FitsItsRole(msg) =>
              Only(EntryMarks(F[msg]), {kind}) = Only(Marks(AsShown(msg.content), Shown[msg.role]), {kind}),
           NEW t \in Seq(AnyMessage), Fits(t)
    PROVE  Only(EntryMarks(FlatMap(F, t)), {kind}) = Only(ShownMarks(t), {kind})
<1> DEFINE T == {m \in AnyMessage : FitsItsRole(m)}
           A == {m \in AnyMessage : m \in T}
           f == [m \in A |-> F[m]]
           G == [m \in A |-> FlatMap(EntryMark, f[m])]
<1>1. t \in Seq(A)
  <2>1. \A i \in DOMAIN t : t[i] \in T
    BY LenProperties, ElementOfSeq DEF Fits
  <2> HIDE DEF T
  <2> QED  BY <2>1, SequenceOf
<1>2. \A m \in A : /\ m \in AnyMessage /\ F[m] \in Seq(AnyEntry)
                   /\ Only(EntryMarks(F[m]), {kind}) = Only(ShownMark[m], {kind})
  BY DEF MapsInto, ShownMark
<1> HIDE DEF T, A
<1>3. \A m \in A : G[m] = EntryMarks(F[m]) /\ G[m] \in Seq(Mark)
  BY <1>2, EntryMarksAre
<1>4. MapsInto(f, A, Seq(AnyEntry)) /\ \A m \in A : ShownMark[m] \in Seq(Mark)
  BY <1>2, ShownMarkMaps DEF MapsInto
<1>5. FlatMap(F, t) = FlatMap(f, t)
  BY <1>1, RestrictedMap
<1> HIDE DEF f
<1>6. FlatMap(f, t) \in Seq(AnyEntry)
  BY <1>1, <1>4, FlatMapTyped
<1>7. FlatMap(EntryMark, FlatMap(f, t)) = FlatMap(G, t)
  BY <1>1, <1>4, EntryMarkMaps, FlatMapThen
<1> HIDE DEF G
<1>8. EntryMarks(FlatMap(F, t)) = FlatMap(G, t)
  BY <1>5, <1>6, <1>7, EntryMarksAre
<1>9. \A m \in A : /\ G[m] \in Seq(Mark) /\ ShownMark[m] \in Seq(Mark)
                   /\ Only(G[m], {kind}) = Only(ShownMark[m], {kind})
  BY <1>2, <1>3, <1>4
<1>10. Only(FlatMap(G, t), {kind}) = Only(FlatMap(ShownMark, t), {kind})
  <2> DEFINE ks == {kind}
  <2>1. \A m \in A : /\ G[m] \in Seq(Mark) /\ ShownMark[m] \in Seq(Mark)
                     /\ Only(G[m], ks) = Only(ShownMark[m], ks)
    BY <1>9
  <2> HIDE DEF ks
  <2>2. Only(FlatMap(G, t), ks) = Only(FlatMap(ShownMark, t), ks)
    BY <1>1, <2>1, OnlyOfEach
  <2> QED  BY <2>2 DEF ks
<1> QED  BY <1>8, <1>10 DEF ShownMarks

\* Both providers are shown the marks of the thread, kind by kind.
LEMMA ProvidersShowThread ==
    ASSUME thread \in Seq(AnyMessage), Fits(thread), NEW kind \in EveryKind
    PROVE  /\ Only(EntryMarks(OpenAIThread), {kind}) = Only(ShownMarks(thread), {kind})
           /\ Only(EntryMarks(AnthropicThread), {kind}) = Only(ShownMarks(thread), {kind})
<1>1. \A msg \in AnyMessage : FitsItsRole(msg) =>
         Only(EntryMarks(OpenAIEntries[msg]), {kind}) = Only(Marks(AsShown(msg.content), Shown[msg.role]), {kind})
  BY MessageSame DEF OpenAIEntries
<1>2. \A msg \in AnyMessage : FitsItsRole(msg) =>
         Only(EntryMarks(AnthropicEntries[msg]), {kind}) = Only(Marks(AsShown(msg.content), Shown[msg.role]), {kind})
  BY MessageSame DEF AnthropicEntries
<1>3. Only(EntryMarks(FlatMap(OpenAIEntries, thread)), {kind}) = Only(ShownMarks(thread), {kind})
  BY <1>1, EntriesMap, ThreadSame
<1>4. Only(EntryMarks(FlatMap(AnthropicEntries, thread)), {kind}) = Only(ShownMarks(thread), {kind})
  BY <1>2, EntriesMap, ThreadSame
<1> QED  BY <1>3, <1>4, ThreadsAre

\* Those are the marks of the thread, but for results that are shown as JSON.
LEMMA ShownAlike ==
    ASSUME thread \in Seq(AnyMessage), NEW kind, kind # "result" \/ ResultsAre({"text", "json"})
    PROVE  Only(ShownMarks(thread), {kind}) = Only(ThreadMarks(thread), {kind})
<1> DEFINE T == {m \in AnyMessage : kind # "result" \/ ReadAlike(m.content)}
           A == {m \in AnyMessage : m \in T}
<1>1. thread \in Seq(A)
  <2>1. \A i \in DOMAIN thread : thread[i] \in T
    BY LenProperties, ElementOfSeq DEF ResultsAre, ReadAlike
  <2> HIDE DEF T
  <2> QED  BY <2>1, SequenceOf
<1>2. ASSUME NEW m \in A
      PROVE  Only(ShownMark[m], {kind}) = Only(MessageMark[m], {kind})
  <2> DEFINE c == m.content
             ks == Shown[m.role]
  <2>1. m \in AnyMessage /\ c \in Seq(AnyPart) /\ AsShown(c) \in Seq(AnyPart)
    BY AsShownIs DEF AnyMessage
  <2>2. "result" \notin {kind} \/ ReadAlike(c)
    OBVIOUS
  <2>3. ShownMark[m] = Marks(AsShown(c), ks) /\ MessageMark[m] = Marks(c, ks)
    BY <2>1 DEF ShownMark, MessageMark
  <2> HIDE DEF c, ks
  <2>4. Marks(AsShown(c), {kind}) = Marks(c, {kind})
    BY <2>1, <2>2, AsShownMarks
  <2>5. Only(Marks(AsShown(c), ks), {kind}) = IF kind \in ks THEN Marks(AsShown(c), {kind}) ELSE <<>>
    BY <2>1, OnlyMarks
  <2>6. Only(Marks(c, ks), {kind}) = IF kind \in ks THEN Marks(c, {kind}) ELSE <<>>
    BY <2>1, OnlyMarks
  <2> QED  BY <2>3, <2>4, <2>5, <2>6
<1>3. \A m \in A : m \in AnyMessage
  OBVIOUS
<1> HIDE DEF T, A
<1>4. \A m \in A : /\ ShownMark[m] \in Seq(Mark) /\ MessageMark[m] \in Seq(Mark)
                   /\ Only(ShownMark[m], {kind}) = Only(MessageMark[m], {kind})
  BY <1>2, <1>3, ShownMarkMaps DEF MapsInto
<1>5. Only(FlatMap(ShownMark, thread), {kind}) = Only(FlatMap(MessageMark, thread), {kind})
  <2> DEFINE ks == {kind}
  <2>1. \A m \in A : /\ ShownMark[m] \in Seq(Mark) /\ MessageMark[m] \in Seq(Mark)
                     /\ Only(ShownMark[m], ks) = Only(MessageMark[m], ks)
    BY <1>4
  <2> HIDE DEF ks
  <2>2. Only(FlatMap(ShownMark, thread), ks) = Only(FlatMap(MessageMark, thread), ks)
    BY <1>1, <2>1, OnlyOfEach
  <2> QED  BY <2>2 DEF ks
<1> QED  BY <1>5, ThreadMarksAre DEF ShownMarks

----------------------------------------------------------------------------
(* A persisted turn, as the thread it becomes.                             *)

\* A field that was written is found.
LEMMA WrittenFound ==
    ASSUME NEW raw, NEW name, name # "data", NEW value, Wrote(raw, name, value), NEW other
    PROVE  Get(Merged(raw), name, other) = value
<1> DEFINE data == Get(raw, "data", <<>>)
<1>1. CASE name \in DOMAIN data
  <2>1. raw["data"][name] = value
    BY <1>1 DEF Wrote
  <2>2. "data" \in DOMAIN raw
    <3>1. DOMAIN <<>> = {}
      OBVIOUS
    <3>2. CASE "data" \notin DOMAIN raw
      BY <1>1, <3>1, <3>2 DEF Get
    <3> QED  BY <3>2
  <2>3. data = raw["data"]
    BY <2>2 DEF Get
  <2>4. DOMAIN Over(data, raw) = (DOMAIN data \cup DOMAIN raw) \ {"data"}
        /\ \A n \in (DOMAIN data \cup DOMAIN raw) \ {"data"} : Over(data, raw)[n] = Get(data, n, raw[n])
    BY DEF Over
  <2>5. name \in DOMAIN Over(data, raw) /\ Over(data, raw)[name] = value
    BY <1>1, <2>1, <2>3, <2>4 DEF Get
  <2> QED  BY <2>5 DEF Merged, Get
<1>2. CASE name \notin DOMAIN data
  <2>1. name \in DOMAIN raw /\ raw[name] = value
    BY <1>2 DEF Wrote
  <2> HIDE DEF data
  <2>4. DOMAIN Over(data, raw) = (DOMAIN data \cup DOMAIN raw) \ {"data"}
        /\ \A n \in (DOMAIN data \cup DOMAIN raw) \ {"data"} : Over(data, raw)[n] = Get(data, n, raw[n])
    BY DEF Over
  <2>5. name \in DOMAIN Over(data, raw) /\ Over(data, raw)[name] = value
    BY <1>2, <2>1, <2>4 DEF Get
  <2> QED  BY <2>5 DEF Merged, Get, data
<1> QED  BY <1>1, <1>2

LEMMA UnwrittenMissing ==
    ASSUME NEW raw, NEW name, Unwritten(raw, name), NEW other
    PROVE  Get(Merged(raw), name, other) = other
<1> DEFINE data == Get(raw, "data", <<>>)
<1>1. name \notin DOMAIN data \cup DOMAIN raw
  BY DEF Unwritten
<1> HIDE DEF data
<1>2. DOMAIN Over(data, raw) = (DOMAIN data \cup DOMAIN raw) \ {"data"}
  BY DEF Over
<1> QED  BY <1>1, <1>2 DEF Merged, Get, data

\* What a block becomes, whatever its type.
PartOf(raw) == IF IsMapped(raw) THEN MappedPart(raw) ELSE Part("unknown", None, <<>>)

LEMMA OtherKinds ==
    /\ {"file", "citation", "dynamic", "unknown"} \subseteq Kind
    /\ \A kind \in {"file", "citation", "dynamic", "unknown"} :
          Part(kind, None, <<>>) \in AnyPart /\ Part(kind, None, <<>>).kind = kind
<1>1. {"file", "citation", "dynamic", "unknown"} \subseteq Kind
  BY TurnAssumption
<1>2. <<>> \in Seq(Token)
  OBVIOUS
<1> QED  BY <1>1, <1>2 DEF Part, AnyPart

LEMMA ResultIs ==
    ASSUME NEW part \in AnyPart, part.kind = "result"
    PROVE  Result(part.id, part.form, part.text) = part
  BY DEF Result, Part, AnyPart

\* It is what the block says: a text, a call or a result the same one, of anything else
\* nothing a model is shown.
LEMMA BlockSays ==
    ASSUME NEW part \in AnyPart, NEW raw, raw # None, SaidBy(part, raw)
    PROVE  /\ PartOf(raw) \in AnyPart
           /\ part.kind \in EveryKind => PartOf(raw).kind = part.kind
           /\ part.kind = "text" => PartOf(raw).text = part.text
           /\ part.kind = "call" => MarkOf(PartOf(raw)) = MarkOf(part)
           /\ part.kind = "result" => PartOf(raw) = part
           /\ part.kind \notin EveryKind => PartOf(raw).kind \notin EveryKind
<1>0. part.text \in Seq(Token) /\ part.id \in AnyId /\ part.kind \in Kind /\ <<>> \in Seq(Token)
  BY DEF AnyPart, AnyId
<1>1. CASE part.kind \notin EveryKind
  <2>1. BlockType(raw) \notin {"text", "tool_call", "tool_result"}
    BY <1>1 DEF SaidBy, EveryKind
  <2>2. CASE ~IsMapped(raw)
    BY <1>1, <2>2, OtherKinds DEF PartOf, EveryKind
  <2>3. CASE IsMapped(raw) /\ BlockType(raw) = "citation"
    <3>1. PartOf(raw) = Part("citation", None, <<>>)
      BY <2>3 DEF PartOf, MappedPart
    <3> QED  BY <1>1, <3>1, OtherKinds DEF EveryKind
  <2>4. CASE IsMapped(raw) /\ BlockType(raw) = "dynamic"
    <3>1. PartOf(raw) = Part("dynamic", None, <<>>)
      BY <2>4 DEF PartOf, MappedPart
    <3> QED  BY <1>1, <3>1, OtherKinds DEF EveryKind
  <2>5. CASE IsMapped(raw) /\ BlockType(raw) \in {"attachment", "document", "file"}
    <3>1. PartOf(raw) = Part("file", None, <<>>)
      BY <2>5 DEF PartOf, MappedPart
    <3> QED  BY <1>1, <3>1, OtherKinds DEF EveryKind
  <2> QED  BY <2>1, <2>2, <2>3, <2>4, <2>5 DEF IsMapped
<1>2. CASE part.kind = "text"
  <2>1. BlockType(raw) = "text" /\ Wrote(raw, "text", part.text)
    BY <1>2 DEF SaidBy
  <2>2. PartOf(raw) = TextPart(Get(Merged(raw), "text", <<>>))
    BY <2>1 DEF PartOf, IsMapped, MappedPart
  <2>3. Get(Merged(raw), "text", <<>>) = part.text
    BY <2>1, WrittenFound
  <2>4. TextPart(part.text) \in AnyPart
    BY <1>0, TextPartTyped
  <2> QED  BY <1>2, <2>2, <2>3, <2>4 DEF TextPart, Part, EveryKind
<1>3. CASE part.kind = "call"
  <2>1. BlockType(raw) = "tool_call" /\ Wrote(raw, "id", part.id)
    BY <1>3 DEF SaidBy
  <2> DEFINE id == Named(part.id)
             e == <<>>
  <2>2. PartOf(raw) = Part("call", Named(Get(Merged(raw), "id", None)), e)
    BY <2>1 DEF PartOf, IsMapped, MappedPart
  <2>3. Get(Merged(raw), "id", None) = part.id
    BY <2>1, WrittenFound
  <2>4. id \in Id /\ Named(id) = id /\ e \in Seq(Token)
    BY <1>0, NamedTyped
  <2>5. MarkOf(part) = CallMark(part.id) /\ CallMark(id) = CallMark(part.id)
    BY <1>0, <1>3, NamedTyped DEF MarkOf
  <2> HIDE DEF id, e
  <2>6. Part("call", id, e) \in AnyPart /\ Part("call", id, e).kind = "call" /\ Part("call", id, e).id = id
    BY <2>4, KindsKnown DEF Part, AnyPart
  <2>7. MarkOf(Part("call", id, e)) = CallMark(id)
    BY <2>6 DEF MarkOf
  <2>8. PartOf(raw) = Part("call", id, e)
    BY <2>2, <2>3 DEF id
  <2> QED  BY <1>3, <2>5, <2>6, <2>7, <2>8 DEF EveryKind
<1>4. CASE part.kind = "result"
  <2> DEFINE second == Get(Merged(raw), "call_id", None)
             id == Get(Merged(raw), "tool_call_id", second)
             nothing == [form |-> "null", text |-> <<>>]
             said == [form |-> part.form, text |-> part.text]
             content == Get(Merged(raw), "content", nothing)
             output == Get(Merged(raw), "output", content)
             text == Get(Merged(raw), "output_text", None)
  <2>1. BlockType(raw) = "tool_result"
    BY <1>4 DEF SaidBy
  <2>2. PartOf(raw) = CoworkResult(id, Merged(raw))
    BY <2>1 DEF PartOf, IsMapped, MappedPart
  <2>3. id = part.id
    <3>1. CASE Wrote(raw, "tool_call_id", part.id)
      BY <3>1, WrittenFound
    <3>2. CASE Unwritten(raw, "tool_call_id") /\ Wrote(raw, "call_id", part.id)
      <4>1. second = part.id
        BY <3>2, WrittenFound
      <4>2. Get(Merged(raw), "tool_call_id", second) = second
        BY <3>2, UnwrittenMissing
      <4> QED  BY <4>1, <4>2
    <3> QED  BY <1>4, <3>1, <3>2 DEF SaidBy
  <2>4. CoworkResult(id, Merged(raw)) = IF text # None THEN Result(id, "text", text)
                                        ELSE Result(id, output.form, output.text)
    BY DEF CoworkResult
  <2>5. CASE part.form = "text"
    <3>1. Wrote(raw, "output_text", part.text)
      BY <1>4, <2>5 DEF SaidBy
    <3>2. text = part.text
      BY <3>1, WrittenFound
    <3>3. part.text # None
      BY <1>0, GivenAssumption
    <3> HIDE DEF id, text, output
    <3>4. PartOf(raw) = Result(part.id, part.form, part.text)
      BY <2>2, <2>3, <2>4, <2>5, <3>2, <3>3
    <3> QED  BY <1>4, <3>4, ResultIs DEF EveryKind
  <2>6. CASE part.form # "text"
    <3>1. /\ Missing(raw, "output_text")
          /\ \/ Wrote(raw, "output", said)
             \/ Unwritten(raw, "output") /\ Wrote(raw, "content", said)
      BY <1>4, <2>6 DEF SaidBy
    <3>2. text = None
      BY <3>1, WrittenFound, UnwrittenMissing DEF Missing
    <3> HIDE DEF said, nothing
    <3>3. output = said
      <4>1. CASE Wrote(raw, "output", said)
        BY <4>1, WrittenFound
      <4>2. CASE Unwritten(raw, "output") /\ Wrote(raw, "content", said)
        <5>1. content = said
          BY <4>2, WrittenFound
        <5>2. output = content
          BY <4>2, UnwrittenMissing
        <5> QED  BY <5>1, <5>2
      <4> QED  BY <3>1, <4>1, <4>2
    <3>4. said.form = part.form /\ said.text = part.text
      BY DEF said
    <3> HIDE DEF id, text, output
    <3>5. PartOf(raw) = Result(part.id, part.form, part.text)
      BY <2>2, <2>3, <2>4, <3>2, <3>3, <3>4
    <3> QED  BY <1>4, <3>5, ResultIs DEF EveryKind
  <2> QED  BY <2>5, <2>6
<1> QED  BY <1>1, <1>2, <1>3, <1>4 DEF EveryKind

\* Its marks are those of the part that was said, and so they are as it is shown.
AlikeAs(c, d) ==
    Marks(c, EveryKind) = Marks(d, EveryKind) /\ Marks(AsShown(c), EveryKind) = Marks(AsShown(d), EveryKind)

LEMMA BlockMarks ==
    ASSUME NEW part \in AnyPart, NEW raw, raw # None, SaidBy(part, raw)
    PROVE  PartOf(raw) \in AnyPart /\ AlikeAs(<<PartOf(raw)>>, <<part>>)
<1> DEFINE p == PartOf(raw)
<1>1. /\ p \in AnyPart
      /\ part.kind \in EveryKind => p.kind = part.kind
      /\ part.kind = "text" => p.text = part.text
      /\ part.kind = "call" => MarkOf(p) = MarkOf(part)
      /\ part.kind = "result" => p = part
      /\ part.kind \notin EveryKind => p.kind \notin EveryKind
  BY BlockSays
<1> HIDE DEF p
<1>2. CASE part.kind = "result"
  BY <1>1, <1>2 DEF AlikeAs, p
<1>3. CASE part.kind # "result"
  <2>1. p.kind # "result"
    BY <1>1, <1>3 DEF EveryKind
  <2>2. AsShown(<<p>>) = <<p>> /\ AsShown(<<part>>) = <<part>>
    BY <1>1, <1>3, <2>1, AsShownOne, ShownPartIs
  <2>3. Marks(<<p>>, EveryKind) = Marks(<<part>>, EveryKind)
    <3>1. CASE part.kind \notin EveryKind
      BY <1>1, <3>1, MarksOne
    <3>2. CASE part.kind = "text"
      <4>1. Marks(<<p>>, EveryKind) = TextMarks(p.text)
        BY <1>1, <3>2, MarksOne DEF EveryKind
      <4>2. Marks(<<part>>, EveryKind) = TextMarks(part.text)
        BY <3>2, MarksOne DEF EveryKind
      <4> QED  BY <1>1, <3>2, <4>1, <4>2
    <3>3. CASE part.kind = "call"
      <4>1. Marks(<<p>>, EveryKind) = <<MarkOf(p)>>
        BY <1>1, <3>3, MarksOne DEF EveryKind
      <4>2. Marks(<<part>>, EveryKind) = <<MarkOf(part)>>
        BY <3>3, MarksOne DEF EveryKind
      <4> QED  BY <1>1, <3>3, <4>1, <4>2
    <3> QED  BY <1>3, <3>1, <3>2, <3>3 DEF EveryKind
  <2> QED  BY <1>1, <2>2, <2>3 DEF AlikeAs, p
<1> QED  BY <1>1, <1>2, <1>3 DEF p

\* Mapping is replacing every element by one.
LEMMA MapIsFlatMap ==
    ASSUME NEW A, NEW B, NEW F, MapsInto(F, A, B), NEW s \in Seq(A)
    PROVE  Mapped(F, s) = FlatMap([x \in A |-> <<F[x]>>], s)
<1> DEFINE G == [x \in A |-> <<F[x]>>]
           One == [y \in B |-> <<y>>]
           t == Mapped(F, s)
<1>1. t \in Seq(B) /\ DOMAIN t = DOMAIN s
  BY MapTyped DEF Mapped
<1>2. \A i \in DOMAIN s : s[i] \in A /\ F[s[i]] \in B
  BY LenProperties, ElementOfSeq DEF MapsInto
<1>3. Mapped(One, t) = Mapped(G, s)
  BY <1>2 DEF Mapped
<1>4. \A y \in B : One[y] = <<y>>
  OBVIOUS
<1> HIDE DEF G, One, t
<1>5. FlatMap(One, t) = t
  BY <1>1, <1>4, FlatMapSame
<1>6. FlatMap(G, s) = t
  BY <1>3, <1>5 DEF FlatMap
<1> QED  BY <1>6 DEF G, t

TurnTyped(t) ==
    /\ t.says \in Seq(AnyPart) /\ t.blocks = [i \in 1..Len(t.says) |-> t.blocks[i]]
    /\ \A i \in 1..Len(t.says) : SaidBy(t.says[i], t.blocks[i])

\* The parts a list of blocks becomes, and what it was meant to say, block by block.
Places(t) == [i \in 1..Len(t.says) |-> i]
BlockParts(t) == [i \in 1..Len(t.says) |-> IF t.blocks[i] # None THEN <<PartOf(t.blocks[i])>> ELSE <<>>]
SaidParts(t) == [i \in 1..Len(t.says) |-> <<t.says[i]>>]

LEMMA PlacesTyped ==
    ASSUME NEW t, TurnTyped(t)
    PROVE  Places(t) \in Seq(1..Len(t.says)) /\ DOMAIN Places(t) = 1..Len(t.says)
<1>1. Len(t.says) \in Nat
  BY LenProperties DEF TurnTyped
<1> QED  BY <1>1, SeqDef DEF Places

LEMMA BlockPartsTyped ==
    ASSUME NEW t, TurnTyped(t)
    PROVE  /\ MapsInto(BlockParts(t), 1..Len(t.says), Seq(AnyPart))
           /\ MapsInto(SaidParts(t), 1..Len(t.says), Seq(AnyPart))
<1>1. \A i \in 1..Len(t.says) : t.says[i] \in AnyPart
  BY ElementOfSeq DEF TurnTyped
<1>2. \A i \in 1..Len(t.says) : t.blocks[i] # None => PartOf(t.blocks[i]) \in AnyPart
  BY <1>1, BlockSays DEF TurnTyped
<1>3. <<>> \in Seq(AnyPart) /\ \A p \in AnyPart : <<p>> \in Seq(AnyPart)
  OBVIOUS
<1> QED  BY <1>1, <1>2, <1>3 DEF BlockParts, SaidParts, MapsInto

LEMMA SaysIs ==
    ASSUME NEW t, TurnTyped(t)
    PROVE  FlatMap(SaidParts(t), Places(t)) = t.says
<1> DEFINE One == [p \in AnyPart |-> <<p>>]
<1>1. t.says \in Seq(AnyPart) /\ DOMAIN t.says = 1..Len(t.says)
      /\ \A i \in 1..Len(t.says) : t.says[i] \in AnyPart
  BY LenProperties, ElementOfSeq DEF TurnTyped
<1>2. Mapped(SaidParts(t), Places(t)) = Mapped(One, t.says)
  BY <1>1 DEF Mapped, SaidParts, Places
<1>3. \A p \in AnyPart : One[p] = <<p>>
  OBVIOUS
<1> HIDE DEF One
<1>4. FlatMap(One, t.says) = t.says
  BY <1>1, <1>3, FlatMapSame
<1> QED  BY <1>2, <1>4 DEF FlatMap

\* The content of the message.
TurnContent(t) == FlatMap(BlockParts(t), Places(t))

LEMMA ContentIs ==
    ASSUME NEW t, TurnTyped(t)
    PROVE  LET dicts == Kept(t.blocks, {i \in DOMAIN t.blocks : t.blocks[i] # None})
           IN  [i \in DOMAIN dicts |-> IF IsMapped(dicts[i]) THEN MappedPart(dicts[i])
                                       ELSE Part("unknown", None, <<>>)] = TurnContent(t)
<1> DEFINE A == 1..Len(t.says)
           B == {t.blocks[i] : i \in {j \in A : t.blocks[j] # None}}
           H == [i \in A |-> IF t.blocks[i] # None THEN <<t.blocks[i]>> ELSE <<>>]
           Made == [b \in B |-> PartOf(b)]
           G == [b \in B |-> <<Made[b]>>]
           dicts == Kept(t.blocks, {i \in DOMAIN t.blocks : t.blocks[i] # None})
<1>1. DOMAIN t.blocks = A
  BY DEF TurnTyped
<1>2. dicts = FlatMap(H, Places(t))
  <2>1. DOMAIN Places(t) = A /\ \A i \in A : Places(t)[i] = i
    BY DEF Places
  <2>2. Mapped(H, Places(t)) =
           [i \in DOMAIN t.blocks |-> IF i \in {j \in DOMAIN t.blocks : t.blocks[j] # None}
                                      THEN <<t.blocks[i]>> ELSE <<>>]
    BY <1>1, <2>1 DEF Mapped
  <2> QED  BY <2>2 DEF Kept, FlatMap
<1>3. MapsInto(H, A, Seq(B))
  <2>1. \A i \in A : t.blocks[i] # None => t.blocks[i] \in B
    OBVIOUS
  <2> HIDE DEF A, B
  <2>2. \A i \in A : t.blocks[i] # None => <<t.blocks[i]>> \in Seq(B)
    BY <2>1
  <2>3. <<>> \in Seq(B)
    OBVIOUS
  <2> QED  BY <2>2, <2>3 DEF MapsInto
<1>4. MapsInto(Made, B, AnyPart)
  <2>1. \A i \in A : t.blocks[i] # None => PartOf(t.blocks[i]) \in AnyPart
    BY BlockSays, ElementOfSeq DEF TurnTyped
  <2> QED  BY <2>1 DEF MapsInto
<1>5. MapsInto(G, B, Seq(AnyPart))
  <2> HIDE DEF B, Made
  <2>1. \A b \in B : Made[b] \in AnyPart
    BY <1>4 DEF MapsInto
  <2>2. \A b \in B : <<Made[b]>> \in Seq(AnyPart)
    BY <2>1
  <2> QED  BY <2>2 DEF MapsInto
<1>6. Places(t) \in Seq(A)
  BY PlacesTyped
<1>7. dicts \in Seq(B)
  <2> HIDE DEF H, B, A, dicts
  <2> QED  BY <1>2, <1>3, <1>6, FlatMapTyped
<1>8. [i \in DOMAIN dicts |-> IF IsMapped(dicts[i]) THEN MappedPart(dicts[i])
                              ELSE Part("unknown", None, <<>>)] = Mapped(Made, dicts)
  <2> HIDE DEF dicts, B
  <2>1. \A i \in DOMAIN dicts : dicts[i] \in B
    BY <1>7, LenProperties, ElementOfSeq
  <2> QED  BY <2>1 DEF Mapped, PartOf
<1>9. Mapped(Made, dicts) = FlatMap(G, dicts)
  <2> HIDE DEF Made, B, dicts
  <2> QED  BY <1>4, <1>7, MapIsFlatMap
<1>10. FlatMap(G, dicts) = FlatMap([i \in A |-> FlatMap(G, H[i])], Places(t))
  <2> HIDE DEF G, H, B, A, dicts
  <2> QED  BY <1>2, <1>3, <1>5, <1>6, FlatMapThen
<1>11. [i \in A |-> FlatMap(G, H[i])] = BlockParts(t)
  <2>1. ASSUME NEW i \in A
        PROVE  FlatMap(G, H[i]) = BlockParts(t)[i]
    <3>1. CASE t.blocks[i] # None
      <4>1. H[i] = <<t.blocks[i]>> /\ t.blocks[i] \in B
        BY <3>1
      <4>2. FlatMap(G, <<t.blocks[i]>>) = G[t.blocks[i]]
        BY FlatMapOne
      <4>3. G[t.blocks[i]] = <<PartOf(t.blocks[i])>>
        BY <4>1
      <4> QED  BY <3>1, <4>1, <4>2, <4>3 DEF BlockParts
    <3>2. CASE t.blocks[i] = None
      <4>1. H[i] = <<>>
        BY <3>2
      <4> HIDE DEF G, H
      <4> QED  BY <3>2, <4>1, FlatMapEmpty DEF BlockParts
    <3> QED  BY <3>1, <3>2
  <2> HIDE DEF G, H
  <2> QED  BY <2>1 DEF BlockParts
<1> HIDE DEF H, G, Made, B, dicts
<1> QED  BY <1>8, <1>9, <1>10, <1>11 DEF TurnContent, dicts

LEMMA AlikeCat ==
    ASSUME NEW c \in Seq(AnyPart), NEW d \in Seq(AnyPart), NEW e \in Seq(AnyPart), NEW f \in Seq(AnyPart),
           AlikeAs(c, e), AlikeAs(d, f)
    PROVE  AlikeAs(c \o d, e \o f)
<1> DEFINE C == AsShown(c)
           D == AsShown(d)
           E == AsShown(e)
           F == AsShown(f)
<1>1. C \in Seq(AnyPart) /\ D \in Seq(AnyPart) /\ E \in Seq(AnyPart) /\ F \in Seq(AnyPart)
  BY AsShownIs
<1>2. AsShown(c \o d) = C \o D
  BY AsShownCat
<1>3. AsShown(e \o f) = E \o F
  BY AsShownCat
<1>4. /\ Marks(c, EveryKind) = Marks(e, EveryKind) /\ Marks(d, EveryKind) = Marks(f, EveryKind)
      /\ Marks(C, EveryKind) = Marks(E, EveryKind) /\ Marks(D, EveryKind) = Marks(F, EveryKind)
  BY DEF AlikeAs
<1> HIDE DEF C, D, E, F
<1>5. MarksSplits(c, d, EveryKind) /\ MarksSplits(e, f, EveryKind)
  BY MarksSplit
<1>6. MarksSplits(C, D, EveryKind) /\ MarksSplits(E, F, EveryKind)
  BY <1>1, MarksSplit
<1>7. Marks(c \o d, EveryKind) = Marks(e \o f, EveryKind)
  BY <1>4, <1>5 DEF MarksSplits
<1>8. Marks(C \o D, EveryKind) = Marks(E \o F, EveryKind)
  BY <1>4, <1>6 DEF MarksSplits
<1> QED  BY <1>2, <1>3, <1>7, <1>8 DEF AlikeAs

\* It has the marks of what the turn says.
LEMMA ContentMarks ==
    ASSUME NEW t, TurnTyped(t)
    PROVE  TurnContent(t) \in Seq(AnyPart) /\ AlikeAs(TurnContent(t), t.says)
<1> DEFINE A == 1..Len(t.says)
           F == BlockParts(t)
           S == SaidParts(t)
           Q == {s \in Seq(A) : AlikeAs(FlatMap(F, s), FlatMap(S, s))}
<1>1. MapsInto(F, A, Seq(AnyPart)) /\ MapsInto(S, A, Seq(AnyPart)) /\ Places(t) \in Seq(A)
  BY BlockPartsTyped, PlacesTyped
<1>2. \A i \in A : AlikeAs(F[i], S[i])
  <2>1. ASSUME NEW i \in A
        PROVE  AlikeAs(F[i], S[i])
    <3>1. t.says[i] \in AnyPart /\ SaidBy(t.says[i], t.blocks[i]) /\ S[i] = <<t.says[i]>>
      BY ElementOfSeq DEF TurnTyped, SaidParts
    <3>2. CASE t.blocks[i] # None
      <4>1. F[i] = <<PartOf(t.blocks[i])>>
        BY <3>2 DEF BlockParts
      <4> QED  BY <3>1, <3>2, <4>1, BlockMarks
    <3>3. CASE t.blocks[i] = None
      <4> DEFINE p == t.says[i]
                 o == <<p>>
      <4>1. F[i] = <<>>
        BY <3>3 DEF BlockParts
      <4>2. p \in AnyPart /\ p.kind \notin EveryKind /\ S[i] = o
        BY <3>1, <3>3 DEF SaidBy, EveryKind
      <4> HIDE DEF p, F, S
      <4>3. Marks(o, EveryKind) = <<>>
        BY <4>2, MarksOne
      <4>4. AsShown(o) = o
        BY <4>2, AsShownOne, ShownPartIs DEF EveryKind
      <4> HIDE DEF o
      <4> QED  BY <4>1, <4>2, <4>3, <4>4, MarksNone, AsShownNone DEF AlikeAs
    <3> QED  BY <3>2, <3>3
  <2> QED  BY <2>1
<1> HIDE DEF F, S, A
<1>3. <<>> \in Q
  <2>1. AlikeAs(FlatMap(F, <<>>), FlatMap(S, <<>>))
    BY FlatMapEmpty DEF AlikeAs
  <2> QED  BY <2>1, EmptySeq
<1>4. ASSUME NEW s \in Seq(A), NEW x \in A, s \in Q
      PROVE  Append(s, x) \in Q
  <2>1. Append(s, x) \in Seq(A)
    BY AppendProperties
  <2>2. FlatMap(F, Append(s, x)) = FlatMap(F, s) \o F[x] /\ FlatMap(S, Append(s, x)) = FlatMap(S, s) \o S[x]
    <3>1. FlatMap(F, Append(s, x)) = FlatMap(F, s) \o F[x]
      BY <1>1, FlatMapMore, ZenonT(60)
    <3>2. FlatMap(S, Append(s, x)) = FlatMap(S, s) \o S[x]
      BY <1>1, FlatMapMore, ZenonT(60)
    <3> QED  BY <3>1, <3>2
  <2>3. /\ FlatMap(F, s) \in Seq(AnyPart) /\ F[x] \in Seq(AnyPart)
        /\ FlatMap(S, s) \in Seq(AnyPart) /\ S[x] \in Seq(AnyPart)
    BY <1>1, FlatMapTyped DEF MapsInto
  <2>4. AlikeAs(FlatMap(F, s), FlatMap(S, s)) /\ AlikeAs(F[x], S[x])
    BY <1>2, <1>4
  <2>5. AlikeAs(FlatMap(F, s) \o F[x], FlatMap(S, s) \o S[x])
    <3> DEFINE c == FlatMap(F, s)
               d == F[x]
               e == FlatMap(S, s)
               f == S[x]
    <3>1. /\ c \in Seq(AnyPart) /\ d \in Seq(AnyPart) /\ e \in Seq(AnyPart) /\ f \in Seq(AnyPart)
          /\ AlikeAs(c, e) /\ AlikeAs(d, f)
      BY <2>3, <2>4
    <3> HIDE DEF c, d, e, f
    <3>2. AlikeAs(c \o d, e \o f)
      BY <3>1, AlikeCat
    <3> QED  BY <3>2 DEF c, d, e, f
  <2> QED  BY <2>1, <2>2, <2>5
<1>5. Seq(A) \subseteq Q
  <2> HIDE DEF Q
  <2> QED  BY <1>3, <1>4, SeqInduction
<1>6. AlikeAs(FlatMap(F, Places(t)), FlatMap(S, Places(t)))
  BY <1>1, <1>5
<1>7. FlatMap(F, Places(t)) \in Seq(AnyPart)
  BY <1>1, FlatMapTyped
<1> QED  BY <1>6, <1>7, SaysIs DEF TurnContent, F, S

----------------------------------------------------------------------------
(* Whichever adapter a thread is rendered by.                              *)

\* When all is converted nothing is pending, and the messages added have what the
\* thread has, kind by kind.
LEMMA AddedShowThread ==
    ASSUME LCInv, ChronologyKept, Extends, Converted, NEW kind \in EveryKind
    PROVE  Only(LCMarks(Added), {kind}) = Only(ThreadMarks(thread), {kind})
<1>1. PICK l \in Seq(AnyLC) : lc = prior \o l
  BY DEF Extends
<1>2. /\ todo = <<>> /\ parts = None /\ texts = <<>> /\ calls = <<>> /\ results = <<>>
      /\ prior \in Seq(AnyLC) /\ lc \in Seq(AnyLC) /\ thread \in Seq(AnyMessage)
  BY DEF Converted, LCInv, LCTypes, LCPhases
<1>3. PICK kinds \in KindsInOrder : kind \in kinds
  BY DEF KindsInOrder, EveryKind
<1> DEFINE P == LCMarks(prior)
           L == LCMarks(l)
           T == ThreadMarks(thread)
<1>4. P \in Seq(Mark) /\ L \in Seq(Mark) /\ T \in Seq(Mark) /\ LCMarks(lc) = P \o L /\ LCMarks(lc) \in Seq(Mark)
  BY <1>1, <1>2, LCMarksAre, ThreadMarksAre, LCMarksCat
<1>5. Whole(lc, texts, calls, results, parts, todo) = LCMarks(lc)
  <2>1. GroupOf(<<>>, <<>>, <<>>) = <<>> /\ Remaining(None) = <<>>
    BY DEF GroupOf, Remaining
  <2>2. ThreadMarks(<<>>) = <<>>
    BY EmptySeq, ThreadMarksAre, FlatMapEmpty
  <2>3. lc \o <<>> = lc /\ LCMarks(lc) \o <<>> = LCMarks(lc)
    BY <1>2, <1>4, ConcatEmptySeq
  <2> QED  BY <1>2, <2>1, <2>2, <2>3 DEF Whole
<1> HIDE DEF P, L, T
<1>6. Only(P \o L, kinds) = Only(P \o T, kinds)
  BY <1>3, <1>4, <1>5, ChronologyIs DEF P, T
<1>7. Only(P \o L, kinds) = Only(P, kinds) \o Only(L, kinds) /\ Only(P \o T, kinds) = Only(P, kinds) \o Only(T, kinds)
  <2>1. P \in Seq(Mark) /\ L \in Seq(Mark) /\ T \in Seq(Mark)
    BY <1>4
  <2>2. Only(P \o L, kinds) = Only(P, kinds) \o Only(L, kinds)
    <3>1. OnlySplits(P, L, kinds)
      BY <2>1, OnlySplit
    <3> QED  BY <3>1 DEF OnlySplits
  <2>3. Only(P \o T, kinds) = Only(P, kinds) \o Only(T, kinds)
    <3>1. OnlySplits(P, T, kinds)
      BY <2>1, OnlySplit
    <3> QED  BY <3>1 DEF OnlySplits
  <2> QED  BY <2>2, <2>3
<1>8. Only(P, kinds) \in Seq(Mark) /\ Only(L, kinds) \in Seq(Mark) /\ Only(T, kinds) \in Seq(Mark)
  BY <1>4, OnlyIs
<1>9. Only(L, kinds) = Only(T, kinds)
  <2> DEFINE p == Only(P, kinds)
             x == Only(L, kinds)
             y == Only(T, kinds)
  <2>1. p \in Seq(Mark) /\ x \in Seq(Mark) /\ y \in Seq(Mark) /\ p \o x = p \o y
    BY <1>6, <1>7, <1>8
  <2> HIDE DEF p, x, y
  <2>2. x = y
    BY <2>1, ConcatSimplifications
  <2> QED  BY <2>2 DEF x, y
<1>10. Only(L, {kind}) = Only(T, {kind})
  <2>1. Only(Only(L, kinds), {kind}) = Only(L, {kind})
    BY <1>3, <1>4, OnlyOnly
  <2>2. Only(Only(T, kinds), {kind}) = Only(T, {kind})
    BY <1>3, <1>4, OnlyOnly
  <2> QED  BY <1>9, <2>1, <2>2
<1>11. Added = l
  BY <1>1, <1>2, AddedIs
<1> QED  BY <1>10, <1>11 DEF L, T

LEMMA SameWhenConverted ==
    ASSUME LCInv, ChronologyKept, Extends, OutFits
    PROVE  SameForEveryProvider
<1>1. thread \in Seq(AnyMessage) /\ Fits(thread)
  BY DEF LCInv, LCTypes, OutFits
<1>2. ASSUME Converted, NEW kind \in EveryKind
      PROVE  /\ Only(EntryMarks(OpenAIThread), {kind}) = Only(EntryMarks(AnthropicThread), {kind})
             /\ kind # "result" \/ ResultsAre({"text", "json"}) =>
                   Only(EntryMarks(OpenAIThread), {kind}) = Only(LCMarks(Added), {kind})
  <2>1. /\ Only(EntryMarks(OpenAIThread), {kind}) = Only(ShownMarks(thread), {kind})
        /\ Only(EntryMarks(AnthropicThread), {kind}) = Only(ShownMarks(thread), {kind})
    BY <1>1, ProvidersShowThread
  <2>2. Only(LCMarks(Added), {kind}) = Only(ThreadMarks(thread), {kind})
    BY <1>2, AddedShowThread
  <2>3. kind # "result" \/ ResultsAre({"text", "json"}) =>
           Only(ShownMarks(thread), {kind}) = Only(ThreadMarks(thread), {kind})
    BY <1>1, ShownAlike
  <2> QED  BY <2>1, <2>2, <2>3
<1> QED  BY <1>2 DEF SameForEveryProvider, EveryKind

LEMMA CoworkSteps == [CoworkNext]_coworkVars => [LCNext]_lcVars /\ turn' = turn
  BY DEF CoworkNext, coworkVars

LEMMA TurnIs ==
    ASSUME NEW t \in Turn
    PROVE  /\ TurnTyped(t) /\ t # None
           /\ FromCoworkBlocks(t) = IF Refused(t.blocks) THEN <<>> ELSE <<Message("assistant", TurnContent(t))>>
<1>1. TurnTyped(t) /\ t # None /\ t.role \notin {"user", "system", "tool"}
  BY TurnAssumption DEF TurnTyped
<1>2. (IF t.role \in {"user", "assistant", "system", "tool"} THEN t.role ELSE "assistant") = "assistant"
  BY <1>1
<1> HIDE DEF Message
<1> QED  BY <1>1, <1>2, ContentIs DEF FromCoworkBlocks

\* A turn is an assistant's message, or no thread at all.
LEMMA TurnThread ==
    ASSUME NEW t \in Turn
    PROVE  FromCoworkBlocks(t) \in Seq(AnyMessage) /\ Fits(FromCoworkBlocks(t))
<1>1. /\ TurnTyped(t)
      /\ FromCoworkBlocks(t) = IF Refused(t.blocks) THEN <<>> ELSE <<Message("assistant", TurnContent(t))>>
  BY TurnIs
<1> DEFINE m == Message("assistant", TurnContent(t))
<1>2. m \in AnyMessage /\ m.role = "assistant"
  BY <1>1, ContentMarks, MessageTyped
<1> HIDE DEF m
<1>3. FitsItsRole(m)
  BY <1>2, AssistantFits
<1>4. <<m>> \in Seq(AnyMessage) /\ <<>> \in Seq(AnyMessage) /\ Fits(<<m>>) /\ Fits(<<>>)
  BY <1>2, <1>3 DEF Fits
<1> QED  BY <1>1, <1>4 DEF m

LEMMA TurnIsReady ==
    ASSUME turn \in Turn, LCStart([prior |-> <<>>, thread |-> FromCoworkBlocks(turn)])
    PROVE  LCReady /\ Fits(thread) /\ thread = FromCoworkBlocks(turn)
<1> DEFINE g == [prior |-> <<>>, thread |-> FromCoworkBlocks(turn)]
<1>1. g.thread = FromCoworkBlocks(turn) /\ g.prior = <<>> /\ <<>> \in Seq(AnyLC)
  BY EmptySeq
<1>2. LCStart(g)
  OBVIOUS
<1> HIDE DEF g
<1>3. g.thread \in Seq(AnyMessage) /\ Fits(g.thread)
  BY <1>1, TurnThread
<1>4. LCReady
  BY <1>1, <1>2, <1>3, StartIsReady
<1>5. thread = g.thread
  BY <1>2 DEF LCStart
<1> QED  BY <1>1, <1>3, <1>4, <1>5

LEMMA CoworkIsReady == CoworkInit => LCReady
  BY GivenIsReady, TurnIsReady DEF CoworkInit

LEMMA CoworkFits ==
    ASSUME RolesFit, CoworkInit
    PROVE  LCReady /\ Fits(thread)
<1>1. CASE LCInit
  <2>1. PICK g \in Given : LCStart(g)
    BY <1>1 DEF LCInit
  <2>2. thread = g.thread
    BY <2>1 DEF LCStart
  <2>3. Fits(thread)
    BY <2>2 DEF RolesFit, Fits
  <2> QED  BY <1>1, <2>3, GivenIsReady
<1>2. CASE turn \in Turn /\ LCStart([prior |-> <<>>, thread |-> FromCoworkBlocks(turn)])
  BY <1>2, TurnIsReady
<1> QED  BY <1>1, <1>2 DEF CoworkInit

\* What LangChainProofs shows of every conversion, of that of a turn too.
LCOrder == LCInv /\ ChronologyKept /\ Extends

LEMMA LCOrderInit == LCReady => LCOrder
  BY LCInvInit, ChronologyInit, ExtendsInit DEF LCOrder

LEMMA LCOrderNext == LCOrder /\ [LCNext]_lcVars => LCOrder'
<1> SUFFICES ASSUME LCOrder, [LCNext]_lcVars
             PROVE  LCOrder'
  OBVIOUS
<1>1. LCInv /\ ChronologyKept /\ Extends
  BY DEF LCOrder
<1>2. LCInv'
  BY <1>1, LCInvNext
<1>3. ChronologyKept'
  BY <1>1, <1>2, ChronologyNext
<1>4. Extends'
  BY <1>1, <1>2, ExtendsNext
<1> QED  BY <1>2, <1>3, <1>4 DEF LCOrder

\* What the formats are documented to lose is no text, call or result
\* (UNIVERSAL_MESSAGE_SPEC.md:649-650): of every thread whose messages have the parts
\* their roles are for, and of what comes back of it, the three adapters show a model
\* the same texts and the same calls, each in the same order; OpenAI and Anthropic show it
\* the same results, id and text, and LangChain does where no output that is a string or
\* null stands in for an output_text.
THEOREM AdaptersAgree ==
    ASSUME RolesFit
    PROVE  CoworkSpec => []SameForEveryProvider
<1>1. CoworkInit => LCOrder /\ OutFits
  BY CoworkFits, LCOrderInit, OutFitsInit
<1>2. LCOrder /\ OutFits /\ [CoworkNext]_coworkVars => (LCOrder /\ OutFits)'
  BY CoworkSteps, LCOrderNext, OutFitsNext DEF LCOrder
<1>3. LCOrder /\ OutFits => SameForEveryProvider
  BY SameWhenConverted DEF LCOrder
<1> QED  BY <1>1, <1>2, <1>3, PTL DEF CoworkSpec

----------------------------------------------------------------------------
(* What is shown of a turn.                                                *)

FirstFromTurn == turn # None /\ before = None => turn \in Turn /\ thread = FromCoworkBlocks(turn)

LEMMA FirstFromTurnNext == LCInv /\ FirstFromTurn /\ [CoworkNext]_coworkVars => FirstFromTurn'
<1> SUFFICES ASSUME LCInv, FirstFromTurn, [CoworkNext]_coworkVars, turn' # None, before' = None
             PROVE  turn' \in Turn /\ thread' = FromCoworkBlocks(turn')
  BY DEF FirstFromTurn
<1>1. turn' = turn /\ [LCNext]_lcVars
  BY CoworkSteps
<1>2. ~Resume
  <2>1. lc # None
    BY GivenAssumption DEF LCInv, LCTypes
  <2> QED  BY <2>1 DEF Resume
<1>3. UNCHANGED <<thread, before>>
  BY <1>1, <1>2 DEF LCNext, Convert, OpenAssistant, TakeText, TakeCall, TakeResult, DropPart, CloseAssistant,
     FromHuman, FromAI, FromTool, FromOther, FromEnd, BackNext, given, lcVars
<1>4. turn \in Turn /\ thread = FromCoworkBlocks(turn)
  BY <1>1, <1>3 DEF FirstFromTurn
<1>5. thread' = FromCoworkBlocks(turn)
  BY <1>3, <1>4
<1> QED  BY <1>1, <1>4, <1>5

LEMMA TurnMarks ==
    ASSUME NEW t \in Turn, ~Refused(t.blocks)
    PROVE  /\ ThreadMarks(FromCoworkBlocks(t)) = Marks(t.says, EveryKind)
           /\ ShownMarks(FromCoworkBlocks(t)) = Marks(AsShown(t.says), EveryKind)
<1> DEFINE c == TurnContent(t)
           m == Message("assistant", c)
<1>1. FromCoworkBlocks(t) = <<m>> /\ TurnTyped(t)
  BY TurnIs
<1>2. /\ c \in Seq(AnyPart) /\ Marks(c, EveryKind) = Marks(t.says, EveryKind)
      /\ Marks(AsShown(c), EveryKind) = Marks(AsShown(t.says), EveryKind)
  BY <1>1, ContentMarks DEF AlikeAs
<1> HIDE DEF c
<1>3. m \in AnyMessage /\ m.role = "assistant" /\ m.content = c
  BY <1>2, MessageTyped
<1> HIDE DEF m
<1>4. /\ <<m>> \in Seq(AnyMessage) /\ ThreadMarks(<<m>>) = MessageMark[m]
      /\ ShownMarks(<<m>>) = ShownMark[m]
  <2>1. <<m>> \in Seq(AnyMessage)
    BY <1>3
  <2>2. FlatMap(MessageMark, <<m>>) = MessageMark[m] /\ FlatMap(ShownMark, <<m>>) = ShownMark[m]
    BY FlatMapOne
  <2> QED  BY <2>1, <2>2, ThreadMarksAre DEF ShownMarks
<1>5. MessageMark[m] = Marks(c, EveryKind) /\ ShownMark[m] = Marks(AsShown(c), EveryKind)
  BY <1>3, ShownIs DEF MessageMark, ShownMark, EveryKind
<1> QED  BY <1>1, <1>2, <1>4, <1>5

\* "unwraps ``data`` into the matching ContentPart" (adapters.py:132): whatever was
\* written under data and beside it, all three adapters show a model the texts, the calls
\* and the results of a turn, each in order, under its id and with its text, which
\* OpenAI and Anthropic are shown as JSON when it is an output.
THEOREM TurnsAreShownWhole == CoworkSpec => []TurnComesThrough
<1>1. CoworkInit => LCOrder /\ FirstFromTurn
  BY CoworkIsReady, LCOrderInit, TurnIsReady DEF CoworkInit, FirstFromTurn
<1>2. LCOrder /\ FirstFromTurn /\ [CoworkNext]_coworkVars => (LCOrder /\ FirstFromTurn)'
  BY CoworkSteps, LCOrderNext, FirstFromTurnNext DEF LCOrder
<1>3. LCOrder /\ FirstFromTurn => TurnComesThrough
  <2> SUFFICES ASSUME LCOrder, FirstFromTurn, turn # None, ~Refused(turn.blocks), before = None, Converted,
                      NEW kind \in EveryKind
               PROVE  /\ Only(LCMarks(Added), {kind}) = Only(Marks(turn.says, EveryKind), {kind})
                      /\ Only(EntryMarks(OpenAIThread), {kind})
                            = Only(Marks(AsShown(turn.says), EveryKind), {kind})
                      /\ Only(EntryMarks(AnthropicThread), {kind})
                            = Only(Marks(AsShown(turn.says), EveryKind), {kind})
    BY DEF TurnComesThrough, EveryKind
  <2>1. turn \in Turn /\ thread = FromCoworkBlocks(turn)
    BY DEF FirstFromTurn
  <2>2. thread \in Seq(AnyMessage) /\ Fits(thread) /\ ThreadMarks(thread) = Marks(turn.says, EveryKind)
        /\ ShownMarks(thread) = Marks(AsShown(turn.says), EveryKind)
    BY <2>1, TurnThread, TurnMarks
  <2>3. Only(LCMarks(Added), {kind}) = Only(ThreadMarks(thread), {kind})
    BY AddedShowThread DEF LCOrder
  <2> QED  BY <2>2, <2>3, ProvidersShowThread
<1> QED  BY <1>1, <1>2, <1>3, PTL DEF CoworkSpec

\* Splitting, coming back and resuming keep what LangChainProofs shows of them for a
\* thread that a turn was made into, too.
THEOREM TurnsAreConverted ==
    CoworkSpec => [](ChronologyKept /\ ComesBack /\ RoundsStayPaired /\ ComesBackInline /\ ResumesTheSame)
<1> DEFINE I == LCOrder /\ ComesBack /\ RoundsInv /\ InlineInv /\ CameBack /\ GoesForth
<1>1. CoworkInit => I
  BY CoworkIsReady, LCOrderInit, ComesBackInit, RoundsInvInit, InlineInvInit, ResumesInit
<1>2. I /\ [CoworkNext]_coworkVars => I'
  BY CoworkSteps, LCOrderNext, LCInvNext, ComesBackNext, RoundsInvNext, InlineInvNext, CameBackNext, GoesForthNext
     DEF LCOrder
<1>3. I => ChronologyKept /\ ComesBack /\ RoundsStayPaired /\ ComesBackInline /\ ResumesTheSame
  <2>1. RoundsInv => RoundsStayPaired
    BY DEF RoundsInv, RoundsGiven, RoundsStayPaired
  <2>2. InlineInv => ComesBackInline
    BY DEF InlineInv, ComesBackInline, AllAnswerAnId
  <2> QED  BY <2>1, <2>2, GoesForthResumes DEF LCOrder
<1> QED  BY <1>1, <1>2, <1>3, PTL DEF CoworkSpec

----------------------------------------------------------------------------
(* Files, as labels in texts.                                              *)

LabelsIn(text) == FlatMap(Keeper(Token, {FileMark}), text)

LEMMA LabelsInTyped ==
    ASSUME NEW s \in Seq(Token), NEW t \in Seq(Token)
    PROVE  /\ LabelsIn(s) \in Seq({FileMark})
           /\ LabelsIn(s \o t) = LabelsIn(s) \o LabelsIn(t)
<1>1. Token \cap {FileMark} = {FileMark}
  BY GivenAssumption
<1>2. /\ MapsInto(Keeper(Token, {FileMark}), Token, Seq(Token))
      /\ MapsInto(Keeper(Token, {FileMark}), Token, Seq({FileMark}))
  BY <1>1, KeeperMaps
<1>3. LabelsIn(s) \in Seq({FileMark})
  BY <1>2, FlatMapTyped DEF LabelsIn
<1>4. LabelsIn(s \o t) = LabelsIn(s) \o LabelsIn(t)
  <2> DEFINE K == Keeper(Token, {FileMark})
  <2>1. MapsInto(K, Token, Seq(Token))
    BY <1>2
  <2> HIDE DEF K
  <2>2. FlatMap(K, s \o t) = FlatMap(K, s) \o FlatMap(K, t)
    BY <2>1, FlatMapCat
  <2> QED  BY <2>2 DEF LabelsIn, K
<1> QED  BY <1>3, <1>4

LEMMA LabelsInNone == LabelsIn(<<>>) = <<>>
  BY FlatMapEmpty DEF LabelsIn

LEMMA LabelsInLabels ==
    ASSUME NEW t \in Seq({FileMark})
    PROVE  LabelsIn(t) = t
<1>1. \A x \in {FileMark} : Keeper(Token, {FileMark})[x] = <<x>>
  BY GivenAssumption DEF Keeper
<1> QED  BY <1>1, FlatMapSame DEF LabelsIn

LEMMA LabelsAre ==
    ASSUME NEW c \in Seq(AnyPart)
    PROVE  Labels(c) = LabelsIn(GatherText(c)) /\ Labels(c) \in Seq({FileMark})
<1> DEFINE text == GatherText(c)
           I == {i \in DOMAIN text : text[i] = FileMark}
<1>1. text \in Seq(Token)
  BY GatherTextTyped
<1>2. Labels(c) = Kept(text, I)
  BY DEF Labels
<1> HIDE DEF text
<1>3. ChosenBy(text, I, {FileMark})
  BY DEF ChosenBy
<1> HIDE DEF I
<1>4. Kept(text, I) = LabelsIn(text)
  BY <1>1, <1>3, KeptIs DEF LabelsIn
<1> QED  BY <1>1, <1>2, <1>4, LabelsInTyped DEF text

LEMMA LabelsOf ==
    ASSUME NEW text \in Seq(Token)
    PROVE  Labels(<<TextPart(text)>>) = LabelsIn(text) /\ <<TextPart(text)>> \in Seq(AnyPart)
<1> DEFINE p == TextPart(text)
<1>1. p \in AnyPart /\ p.kind = "text" /\ p.text = text
  BY TextPartTyped DEF TextPart, Part
<1> HIDE DEF p
<1>2. <<p>> \in Seq(AnyPart) /\ GatherText(<<p>>) = text
  <2>1. <<p>> \in Seq(AnyPart)
    BY <1>1
  <2>2. GatherText(<<p>>) = IF p.kind = "text" THEN p.text ELSE <<>>
    BY <1>1, PartsOne
  <2> QED  BY <1>1, <2>1, <2>2
<1> QED  BY <1>2, LabelsAre DEF p

\* Files, part by part.
FileLabel == [p \in AnyPart |-> IF p.kind = "file" THEN <<FileMark>> ELSE <<>>]

LEMMA FileLabelMaps == MapsInto(FileLabel, AnyPart, Seq({FileMark}))
<1>1. <<FileMark>> \in Seq({FileMark}) /\ <<>> \in Seq({FileMark})
  OBVIOUS
<1> QED  BY <1>1 DEF FileLabel, MapsInto

LEMMA FilesAre ==
    ASSUME NEW c \in Seq(AnyPart)
    PROVE  Files(c) = FlatMap(FileLabel, c)
<1> DEFINE One == [p \in AnyPart |-> <<FileMark>>]
           K == Keeper(AnyPart, Kinds({"file"}))
           files == OfKind(c, {"file"})
           t == [i \in DOMAIN files |-> TextPart(<<FileMark>>)]
<1>1. files = FlatMap(K, c) /\ files \in Seq(AnyPart)
  BY OfKindIs
<1>2. Files(c) = FlattenSeq([i \in DOMAIN t |-> t[i].text])
  BY DEF Files, Joined
<1>3. MapsInto(K, AnyPart, Seq(AnyPart))
  BY KeeperMaps
<1> HIDE DEF files
<1>4. [i \in DOMAIN t |-> t[i].text] = Mapped(One, files)
  <2>1. TextPart(<<FileMark>>).text = <<FileMark>>
    BY DEF TextPart, Part
  <2>2. \A i \in DOMAIN files : files[i] \in AnyPart
    BY <1>1, LenProperties, ElementOfSeq
  <2> QED  BY <2>1, <2>2 DEF Mapped
<1>5. MapsInto(One, AnyPart, Seq({FileMark}))
  <2>1. <<FileMark>> \in Seq({FileMark})
    OBVIOUS
  <2> QED  BY <2>1 DEF MapsInto
<1>6. [p \in AnyPart |-> FlatMap(One, K[p])] = FileLabel
  <2>1. ASSUME NEW p \in AnyPart
        PROVE  FlatMap(One, K[p]) = FileLabel[p]
    <3>1. FlatMap(One, <<p>>) = One[p] /\ One[p] = <<FileMark>>
      BY FlatMapOne
    <3>2. FlatMap(One, <<>>) = <<>>
      BY FlatMapEmpty
    <3>3. K[p] = IF p.kind = "file" THEN <<p>> ELSE <<>>
      BY DEF Keeper, Kinds
    <3> QED  BY <3>1, <3>2, <3>3 DEF FileLabel
  <2> HIDE DEF One, K
  <2> QED  BY <2>1 DEF FileLabel
<1> HIDE DEF One, K, t
<1>7. FlatMap(One, FlatMap(K, c)) = FlatMap(FileLabel, c)
  BY <1>3, <1>5, <1>6, FlatMapThen
<1> QED  BY <1>1, <1>2, <1>4, <1>7 DEF FlatMap

AnyLabel == {FileMark}

\* Labels are all the same: which of them come first makes no difference.
LEMMA LabelsCommute ==
    ASSUME NEW s \in Seq(AnyLabel), NEW t \in Seq(AnyLabel)
    PROVE  s \o t = t \o s
<1>1. /\ s \o t \in Seq(AnyLabel) /\ Len(s \o t) = Len(s) + Len(t)
      /\ t \o s \in Seq(AnyLabel) /\ Len(t \o s) = Len(t) + Len(s)
      /\ Len(s) \in Nat /\ Len(t) \in Nat
  BY ConcatProperties, LenProperties
<1> DEFINE u == s \o t
           v == t \o s
<1>2. u \in Seq(AnyLabel) /\ v \in Seq(AnyLabel) /\ Len(u) = Len(v)
  BY <1>1
<1> HIDE DEF u, v
<1>3. \A i \in 1..Len(u) : u[i] \in AnyLabel /\ v[i] \in AnyLabel
  BY <1>2, ElementOfSeq
<1>4. \A i \in 1..Len(u) : u[i] = v[i]
  BY <1>3 DEF AnyLabel
<1>5. u = v
  BY <1>2, <1>4, SeqEqual
<1> QED  BY <1>5 DEF u, v

LEMMA LabelsMix ==
    ASSUME NEW a \in Seq(AnyLabel), NEW b \in Seq(AnyLabel), NEW c \in Seq(AnyLabel), NEW d \in Seq(AnyLabel)
    PROVE  (a \o b) \o (c \o d) = (a \o c) \o (b \o d)
<1>1. c \o d \in Seq(AnyLabel) /\ b \o d \in Seq(AnyLabel)
  BY ConcatProperties
<1>2. a \o (b \o (c \o d)) = (a \o b) \o (c \o d)
  <2>1. Regroups(a, b, c \o d)
    BY <1>1, CatRegroups
  <2> QED  BY <2>1 DEF Regroups
<1>3. b \o (c \o d) = (b \o c) \o d /\ c \o (b \o d) = (c \o b) \o d
  <2>1. Regroups(b, c, d) /\ Regroups(c, b, d)
    BY CatRegroups
  <2> QED  BY <2>1 DEF Regroups
<1>4. b \o c = c \o b
  BY LabelsCommute
<1>5. a \o (c \o (b \o d)) = (a \o c) \o (b \o d)
  <2>1. Regroups(a, c, b \o d)
    BY <1>1, CatRegroups
  <2> QED  BY <2>1 DEF Regroups
<1> QED  BY <1>2, <1>3, <1>4, <1>5

LEMMA UploadsTyped ==
    ASSUME NEW c \in Seq(AnyPart)
    PROVE  /\ Uploads(c) \in Seq({FileMark})
           /\ Labels(c) \in Seq({FileMark}) /\ Files(c) \in Seq({FileMark})
<1>1. Labels(c) \in Seq({FileMark}) /\ Files(c) \in Seq({FileMark})
  BY LabelsAre, FilesAreFiles
<1>2. Labels(c) \o Files(c) \in Seq({FileMark})
  BY <1>1, ConcatProperties
<1> QED  BY <1>1, <1>2 DEF Uploads

LEMMA LabelsCat ==
    ASSUME NEW c \in Seq(AnyPart), NEW d \in Seq(AnyPart)
    PROVE  Labels(c \o d) = Labels(c) \o Labels(d)
<1>1. c \o d \in Seq(AnyPart)
  BY ConcatProperties
<1>2. GatherText(c \o d) = GatherText(c) \o GatherText(d)
  BY PartsCat
<1>3. GatherText(c) \in Seq(Token) /\ GatherText(d) \in Seq(Token)
  BY GatherTextTyped
<1>4. LabelsIn(GatherText(c) \o GatherText(d)) = LabelsIn(GatherText(c)) \o LabelsIn(GatherText(d))
  BY <1>3, LabelsInTyped
<1> QED  BY <1>1, <1>2, <1>4, LabelsAre

LEMMA UploadsCat ==
    ASSUME NEW c \in Seq(AnyPart), NEW d \in Seq(AnyPart)
    PROVE  Uploads(c \o d) = Uploads(c) \o Uploads(d)
<1>1. Labels(c \o d) = Labels(c) \o Labels(d)
  BY LabelsCat
<1>2. Files(c \o d) = Files(c) \o Files(d)
  <2>1. c \o d \in Seq(AnyPart)
    BY ConcatProperties
  <2>2. FlatMap(FileLabel, c \o d) = FlatMap(FileLabel, c) \o FlatMap(FileLabel, d)
    BY FileLabelMaps, FlatMapCat
  <2> QED  BY <2>1, <2>2, FilesAre
<1>3. /\ Labels(c) \in Seq({FileMark}) /\ Files(c) \in Seq({FileMark})
      /\ Labels(d) \in Seq({FileMark}) /\ Files(d) \in Seq({FileMark})
  BY UploadsTyped
<1>4. (Labels(c) \o Labels(d)) \o (Files(c) \o Files(d)) = (Labels(c) \o Files(c)) \o (Labels(d) \o Files(d))
  <2> DEFINE k == Labels(c)
             l == Labels(d)
             m == Files(c)
             n == Files(d)
  <2>1. k \in Seq(AnyLabel) /\ l \in Seq(AnyLabel) /\ m \in Seq(AnyLabel) /\ n \in Seq(AnyLabel)
    BY <1>3 DEF AnyLabel
  <2> HIDE DEF k, l, m, n
  <2>2. \A x, y \in Seq(AnyLabel) : (k \o l) \o (x \o y) = (k \o x) \o (l \o y)
    BY <2>1, LabelsMix
  <2>3. (k \o l) \o (m \o n) = (k \o m) \o (l \o n)
    BY <2>1, <2>2
  <2> QED  BY <2>3 DEF k, l, m, n
<1> QED  BY <1>1, <1>2, <1>4 DEF Uploads

LEMMA UploadsOne ==
    ASSUME NEW p \in AnyPart
    PROVE  Uploads(<<p>>) = IF p.kind = "text" THEN LabelsIn(p.text)
                            ELSE IF p.kind = "file" THEN <<FileMark>> ELSE <<>>
<1>1. <<p>> \in Seq(AnyPart) /\ p.text \in Seq(Token)
  BY DEF AnyPart
<1>2. Labels(<<p>>) = IF p.kind = "text" THEN LabelsIn(p.text) ELSE <<>>
  BY <1>1, LabelsAre, PartsOne, LabelsInNone
<1>3. Files(<<p>>) = IF p.kind = "file" THEN <<FileMark>> ELSE <<>>
  <2>1. FlatMap(FileLabel, <<p>>) = FileLabel[p]
    BY FlatMapOne
  <2> QED  BY <1>1, <2>1, FilesAre DEF FileLabel
<1>4. LabelsIn(p.text) \in Seq({FileMark}) /\ <<FileMark>> \in Seq({FileMark}) /\ <<>> \in Seq({FileMark})
  BY <1>1, LabelsInTyped
<1>5. LabelsIn(p.text) \o <<>> = LabelsIn(p.text) /\ <<>> \o <<FileMark>> = <<FileMark>> /\ <<>> \o <<>> = <<>>
  BY <1>4, ConcatEmptySeq
<1> QED  BY <1>2, <1>3, <1>5 DEF Uploads

LEMMA UploadsNone == Uploads(<<>>) = <<>>
<1>1. <<>> \in Seq(AnyPart) /\ <<>> \o <<>> = <<>>
  BY EmptySeq
<1>2. Labels(<<>>) = <<>>
  BY <1>1, LabelsAre, PartsNone, LabelsInNone
<1>3. Files(<<>>) = <<>>
  BY <1>1, FilesAre, FlatMapEmpty
<1> QED  BY <1>1, <1>2, <1>3 DEF Uploads

\* A map of contents to labels that takes the parts one by one makes the uploads, when it
\* does so of every part.
LEMMA UploadsBy ==
    ASSUME NEW L,
           \A c \in Seq(AnyPart) : L[c] \in Seq({FileMark}),
           L[<<>>] = <<>>,
           \A c \in Seq(AnyPart), p \in AnyPart :
              L[Append(c, p)] = L[c] \o (IF p.kind = "text" THEN LabelsIn(p.text)
                                         ELSE IF p.kind = "file" THEN <<FileMark>> ELSE <<>>),
           NEW content \in Seq(AnyPart)
    PROVE  L[content] = Uploads(content)
<1> DEFINE Q == {c \in Seq(AnyPart) : L[c] = Uploads(c)}
<1>1. <<>> \in Q
  BY UploadsNone, EmptySeq
<1>2. ASSUME NEW c \in Seq(AnyPart), NEW p \in AnyPart, c \in Q
      PROVE  Append(c, p) \in Q
  <2>1. Append(c, p) = c \o <<p>> /\ <<p>> \in Seq(AnyPart) /\ Append(c, p) \in Seq(AnyPart)
    BY OnePart
  <2>2. Uploads(c \o <<p>>) = Uploads(c) \o Uploads(<<p>>)
    BY <2>1, UploadsCat
  <2>3. L[c] = Uploads(c)
    BY <1>2
  <2>4. L[Append(c, p)] = L[c] \o Uploads(<<p>>)
    BY UploadsOne
  <2> QED  BY <2>1, <2>2, <2>3, <2>4
<1>3. Seq(AnyPart) \subseteq Q
  <2> HIDE DEF Q
  <2> QED  BY <1>1, <1>2, SeqInduction
<1> QED  BY <1>3

\* The texts and labels for OpenAI, a user's texts and labels, and a user's blocks have
\* the uploads of their content.
LEMMA ChunksLabels ==
    ASSUME NEW content \in Seq(AnyPart)
    PROVE  LabelsIn(Joined(Chunks(content))) = Uploads(content)
<1> DEFINE L == [c \in Seq(AnyPart) |-> LabelsIn(Joined(Chunks(c)))]
<1>1. \A c \in Seq(AnyPart) : L[c] \in Seq({FileMark})
  BY ChunksAre, LabelsInTyped
<1>2. L[<<>>] = <<>>
  BY EmptySeq, ChunksNone, LabelsInNone
<1>3. ASSUME NEW c \in Seq(AnyPart), NEW p \in AnyPart
      PROVE  L[Append(c, p)] = L[c] \o (IF p.kind = "text" THEN LabelsIn(p.text)
                                        ELSE IF p.kind = "file" THEN <<FileMark>> ELSE <<>>)
  <2> DEFINE x == Joined(Chunks(c))
             y == Joined(Chunks(<<p>>))
  <2>1. Append(c, p) = c \o <<p>> /\ <<p>> \in Seq(AnyPart) /\ Append(c, p) \in Seq(AnyPart)
    BY OnePart
  <2>2. Joined(Chunks(c \o <<p>>)) = x \o y
    BY <2>1, ChunksCat
  <2>3. x \in Seq(Token) /\ y \in Seq(Token)
    BY <2>1, ChunksAre
  <2>4. y = IF p.kind = "text" THEN p.text ELSE IF p.kind = "file" THEN <<FileMark>> ELSE <<>>
    BY ChunksOne
  <2>5. L[Append(c, p)] = LabelsIn(x \o y) /\ L[c] = LabelsIn(x)
    BY <2>1, <2>2
  <2> HIDE DEF x, y, L
  <2>6. LabelsIn(x \o y) = LabelsIn(x) \o LabelsIn(y)
    BY <2>3, LabelsInTyped
  <2>7. LabelsIn(<<FileMark>>) = <<FileMark>>
    <3>1. <<FileMark>> \in Seq({FileMark})
      OBVIOUS
    <3> QED  BY <3>1, LabelsInLabels
  <2>8. LabelsIn(y) = IF p.kind = "text" THEN LabelsIn(p.text)
                      ELSE IF p.kind = "file" THEN <<FileMark>> ELSE <<>>
    BY <2>4, <2>7, LabelsInNone
  <2> QED  BY <2>5, <2>6, <2>8
<1>4. L[content] = LabelsIn(Joined(Chunks(content)))
  OBVIOUS
<1> HIDE DEF L
<1>5. L[content] = Uploads(content)
  BY <1>1, <1>2, <1>3, UploadsBy
<1> QED  BY <1>4, <1>5

LEMMA OpenAILabels ==
    ASSUME NEW msg \in AnyMessage, HasNoImage(msg), msg.role # "tool"
    PROVE  Labels(ToOpenAIChatCompletion(msg)[1].content) = Uploads(msg.content)
<1> DEFINE c == AsShown(msg.content)
           text == Joined(Chunks(c))
           e == Rendered(msg.role, OpenAIContent(c), Ids(OfKind(c, {"call"})))
           tail == TailToolResults(c)
<1>1. c \in Seq(AnyPart) /\ Uploads(c) = Uploads(msg.content) /\ ~HasKind(c, "image")
  <2>1. msg.content \in Seq(AnyPart)
    BY DEF AnyMessage
  <2>2. \A kind : HasKind(c, kind) <=> HasKind(msg.content, kind)
    BY <2>1, AsShownIs DEF HasKind
  <2>3. OfKind(c, {"text"}) = OfKind(msg.content, {"text"}) /\ OfKind(c, {"file"}) = OfKind(msg.content, {"file"})
    BY <2>1, AsShownOfKind
  <2>4. Uploads(c) = Uploads(msg.content)
    <3> HIDE DEF c
    <3> QED  BY <2>3 DEF Uploads, Labels, Files, GatherText
  <2> QED  BY <2>1, <2>2, <2>4, AsShownIs DEF HasNoImage
<1>2. ToOpenAIChatCompletion(msg) = <<e>> \o tail
  BY DEF ToOpenAIChatCompletion
<1>3. e.content = OpenAIContent(c)
  BY DEF Rendered
<1>4. tail \in Seq(AnyEntry) /\ e \in AnyEntry
  <2>1. msg.role \in {"user", "system", "tool", "assistant"}
    BY DEF AnyMessage
  <2> HIDE DEF c
  <2>2. OpenAIContent(c) \in Seq(AnyPart) /\ Ids(OfKind(c, {"call"})) \in Seq(AnyId)
    BY <1>1, OpenAIContentMarks, CallIdsMarks
  <2> QED  BY <1>1, <2>1, <2>2, TailIs, RenderedTyped
<1> HIDE DEF e, tail
<1>5. (<<e>> \o tail)[1] = e
  <2> DEFINE s == <<e>>
  <2>1. s \in Seq(AnyEntry) /\ Len(s) = 1 /\ s[1] = e
    BY <1>4
  <2> HIDE DEF s
  <2>2. (s \o tail)[1] = s[1]
    BY <1>4, <2>1, ConcatProperties
  <2> QED  BY <2>1, <2>2 DEF s
<1>6. OpenAIContent(c) = IF Chunks(c) = <<>> THEN <<>> ELSE <<TextPart(text)>>
  BY <1>1 DEF OpenAIContent
<1> HIDE DEF c
<1>7. text \in Seq(Token) /\ LabelsIn(text) = Uploads(c)
  BY <1>1, ChunksAre, ChunksLabels
<1>8. CASE Chunks(c) = <<>>
  <2>1. text = <<>>
    BY <1>8, JoinedNone
  <2>2. Uploads(c) = <<>>
    BY <1>7, <2>1, LabelsInNone
  <2>3. Labels(<<>>) = <<>>
    BY EmptySeq, LabelsAre, PartsNone, LabelsInNone
  <2> QED  BY <1>1, <1>2, <1>3, <1>5, <1>6, <1>8, <2>2, <2>3
<1>9. CASE Chunks(c) # <<>>
  <2> HIDE DEF text
  <2>1. Labels(<<TextPart(text)>>) = LabelsIn(text)
    BY <1>7, LabelsOf
  <2> QED  BY <1>1, <1>2, <1>3, <1>5, <1>6, <1>7, <1>9, <2>1
<1> QED  BY <1>8, <1>9

LEMMA BlocksLabels ==
    ASSUME NEW content \in Seq(AnyPart)
    PROVE  Labels(Blocks(content)) = Uploads(content)
<1> DEFINE A == Keeper(AnyPart, BlockShown)
           L == [c \in Seq(AnyPart) |-> Labels(Blocks(c))]
<1>0. MapsInto(A, AnyPart, Seq(AnyPart))
  BY KeeperMaps
<1>1. \A c \in Seq(AnyPart) : Blocks(c) \in Seq(AnyPart) /\ L[c] \in Seq({FileMark})
  BY BlocksMarks, LabelsAre
<1>2. L[<<>>] = <<>>
  <2>1. Mapped(ShownBlock, <<>>) = <<>>
    BY DEF Mapped
  <2>2. Blocks(<<>>) = <<>>
    BY <2>1, FlatMapEmpty DEF Blocks
  <2>3. Labels(<<>>) = <<>>
    BY EmptySeq, LabelsAre, PartsNone, LabelsInNone
  <2> QED  BY <2>2, <2>3, EmptySeq
<1>3. ASSUME NEW c \in Seq(AnyPart), NEW p \in AnyPart
      PROVE  L[Append(c, p)] = L[c] \o (IF p.kind = "text" THEN LabelsIn(p.text)
                                        ELSE IF p.kind = "file" THEN <<FileMark>> ELSE <<>>)
  <2> DEFINE s == FlatMap(A, c)
             z == A[p]
             x == Mapped(ShownBlock, s)
             y == Mapped(ShownBlock, z)
  <2>1. /\ Append(c, p) \in Seq(AnyPart) /\ <<p>> \in Seq(AnyPart)
        /\ p.text \in Seq(Token) /\ <<>> \in Seq(AnyPart)
    BY OnePart, EmptySeq DEF AnyPart
  <2>2. z = IF p \in BlockShown THEN <<p>> ELSE <<>>
    BY DEF Keeper
  <2>3. s \in Seq(AnyPart)
    BY <1>0, FlatMapTyped
  <2>4. z \in Seq(AnyPart)
    BY <2>1, <2>2
  <2>5. Mapped(ShownBlock, <<p>>) = <<ShownBlock[p]>> /\ Mapped(ShownBlock, <<>>) = <<>>
    BY DEF Mapped
  <2>6. Labels(y) = IF p.kind = "text" THEN LabelsIn(p.text)
                    ELSE IF p.kind = "file" THEN <<FileMark>> ELSE <<>>
    <3>0. Labels(<<>>) = <<>>
      BY EmptySeq, LabelsAre, PartsNone, LabelsInNone
    <3>1. CASE p.kind = "file"
      <4>1. y = <<TextPart(<<FileMark>>)>>
        BY <2>2, <2>5, <3>1 DEF BlockShown, ShownBlock
      <4>2. <<FileMark>> \in Seq({FileMark})
        OBVIOUS
      <4>3. Labels(<<TextPart(<<FileMark>>)>>) = LabelsIn(<<FileMark>>)
        BY FileMarkTyped, LabelsOf
      <4>4. LabelsIn(<<FileMark>>) = <<FileMark>>
        BY <4>2, LabelsInLabels
      <4> QED  BY <3>1, <4>1, <4>3, <4>4
    <3>2. CASE p.kind # "file" /\ p \in BlockShown
      <4>1. y = <<p>>
        BY <2>2, <2>5, <3>2 DEF ShownBlock
      <4>2. GatherText(<<p>>) = IF p.kind = "text" THEN p.text ELSE <<>>
        BY PartsOne
      <4>3. Labels(<<p>>) = LabelsIn(GatherText(<<p>>))
        BY <2>1, LabelsAre
      <4> QED  BY <3>2, <4>1, <4>2, <4>3, LabelsInNone
    <3>3. CASE p \notin BlockShown
      <4>1. y = <<>>
        BY <2>2, <2>5, <3>3
      <4>2. p.kind # "file" /\ (p.kind # "text" \/ p.text = <<>>)
        BY <3>3 DEF BlockShown
      <4> QED  BY <3>0, <4>1, <4>2, LabelsInNone
    <3> QED  BY <3>1, <3>2, <3>3
  <2>7. FlatMap(A, Append(c, p)) = s \o z
    BY <1>0, FlatMapMore
  <2>8. L[Append(c, p)] = Labels(Mapped(ShownBlock, s \o z)) /\ L[c] = Labels(x)
    BY <2>1, <2>7 DEF Blocks
  <2> HIDE DEF s, z, L
  <2>9. Mapped(ShownBlock, s \o z) = x \o y /\ x \in Seq(AnyPart) /\ y \in Seq(AnyPart)
    <3>1. x \in Seq(AnyPart) /\ y \in Seq(AnyPart)
      BY <2>3, <2>4, RenderedMaps, MapTyped
    <3>2. Mapped(ShownBlock, s \o z) = x \o y
      BY <2>3, <2>4, RenderedMaps, MapCat, SMTT(60)
    <3> QED  BY <3>1, <3>2
  <2> HIDE DEF x, y
  <2>10. Labels(x \o y) = Labels(x) \o Labels(y)
    BY <2>9, LabelsCat
  <2> QED  BY <2>6, <2>8, <2>9, <2>10
<1>4. L[content] = Labels(Blocks(content))
  OBVIOUS
<1>5. \A c \in Seq(AnyPart) : L[c] \in Seq({FileMark})
  BY <1>1
<1> HIDE DEF L
<1>6. L[content] = Uploads(content)
  BY <1>2, <1>3, <1>5, UploadsBy
<1> QED  BY <1>4, <1>6

LEMMA UserLabels ==
    ASSUME NEW content \in Seq(AnyPart)
    PROVE  Labels(UserContentToLC(content)) = Uploads(content)
<1>1. CASE HasKind(content, "image")
  <2>1. UserContentToLC(content) = Blocks(content)
    BY <1>1, BlocksAre DEF Blocks
  <2> QED  BY <2>1, BlocksLabels
<1>2. CASE ~HasKind(content, "image")
  <2> DEFINE g == GatherText(content)
             f == Files(content)
  <2>1. UserContentToLC(content) = <<TextPart(g \o f)>>
    BY <1>2 DEF UserContentToLC
  <2>2. g \in Seq(Token) /\ f \in Seq(Token) /\ LabelsIn(f) = f
    BY GatherTextTyped, FilesAreFiles, TextMarksFiles, LabelsInLabels
  <2>3. Labels(content) = LabelsIn(g)
    BY LabelsAre
  <2>4. Uploads(content) = LabelsIn(g) \o f
    BY <2>3 DEF Uploads
  <2> HIDE DEF f, g
  <2>5. g \o f \in Seq(Token)
    BY <2>2, ConcatProperties
  <2>6. LabelsIn(g \o f) = LabelsIn(g) \o LabelsIn(f)
    BY <2>2, LabelsInTyped
  <2>7. Labels(<<TextPart(g \o f)>>) = LabelsIn(g \o f)
    BY <2>5, LabelsOf
  <2> QED  BY <2>1, <2>2, <2>4, <2>6, <2>7
<1> QED  BY <1>1, <1>2

\* The labels of the user's messages, in a thread and in a list of LangChain messages.
UserUpload == [m \in AnyMessage |-> IF m.role = "user" THEN Uploads(m.content) ELSE <<>>]
HumanLabel == [m \in AnyLC |-> IF m.type = "human" THEN Labels(m.content) ELSE <<>>]

UserUploads(t) == FlatMap(UserUpload, t)
HumanLabels(l) == FlatMap(HumanLabel, l)

LEMMA UserLabelMaps ==
    MapsInto(UserUpload, AnyMessage, Seq(AnyLabel)) /\ MapsInto(HumanLabel, AnyLC, Seq(AnyLabel))
<1>1. <<>> \in Seq(AnyLabel)
  BY EmptySeq
<1>2. ASSUME NEW m \in AnyMessage
      PROVE  UserUpload[m] \in Seq(AnyLabel)
  <2>1. m.content \in Seq(AnyPart)
    BY DEF AnyMessage
  <2>2. Uploads(m.content) \in Seq({FileMark})
    BY <2>1, UploadsTyped
  <2> QED  BY <1>1, <2>2 DEF UserUpload, AnyLabel
<1>3. ASSUME NEW m \in AnyLC
      PROVE  HumanLabel[m] \in Seq(AnyLabel)
  <2>1. m.content \in Seq(AnyPart)
    BY LCFields
  <2>2. Labels(m.content) \in Seq({FileMark})
    BY <2>1, LabelsAre
  <2> QED  BY <1>1, <2>2 DEF HumanLabel, AnyLabel
<1>4. MapsInto(UserUpload, AnyMessage, Seq(AnyLabel))
  BY <1>2 DEF MapsInto, UserUpload
<1>5. MapsInto(HumanLabel, AnyLC, Seq(AnyLabel))
  BY <1>3 DEF MapsInto, HumanLabel
<1> QED  BY <1>4, <1>5

NotHuman == {m \in AnyLC : m.type # "human"}

LEMMA NoHumanLabels ==
    ASSUME NEW l \in Seq(NotHuman)
    PROVE  HumanLabels(l) = <<>>
<1>1. \A m \in NotHuman : HumanLabel[m] = <<>>
  BY DEF NotHuman, HumanLabel
<1> QED  BY <1>1, FlatMapNothing DEF HumanLabels

LEMMA NoUploads ==
    ASSUME NEW c \in Seq(AnyPart), \A i \in DOMAIN c : c[i].kind \notin {"text", "file"}
    PROVE  Uploads(c) = <<>>
<1>1. OfKind(c, {"text"}) = <<>> /\ OfKind(c, {"file"}) = <<>>
  BY NoneOfKind
<1>2. Labels(c) = <<>>
  BY <1>1, LabelsAre, JoinedNone, LabelsInNone DEF GatherText
<1>3. Files(c) = <<>>
  <2>1. [i \in DOMAIN OfKind(c, {"file"}) |-> TextPart(<<FileMark>>)] = <<>>
    BY <1>1
  <2> QED  BY <2>1, JoinedNone DEF Files
<1>4. <<>> \o <<>> = <<>>
  OBVIOUS
<1> QED  BY <1>2, <1>3, <1>4 DEF Uploads

LEMMA MessageLabels ==
    ASSUME NEW msg \in AnyMessage, ~Walked(msg)
    PROVE  HumanLabels(ToLC(msg)) = UserUpload[msg]
<1>0. msg.content \in Seq(AnyPart) /\ msg.role \in {"user", "system", "tool", "assistant"}
  BY DEF AnyMessage
<1>1. CASE IsFeedbackOnly(msg)
  <2>1. \A i \in DOMAIN msg.content : msg.content[i].kind \notin {"text", "file"}
    BY <1>1 DEF IsFeedbackOnly
  <2>2. Uploads(msg.content) = <<>>
    BY <1>0, <2>1, NoUploads
  <2>3. ToLC(msg) = <<>> /\ HumanLabels(<<>>) = <<>>
    BY <1>1, FlatMapEmpty DEF ToLC, HumanLabels
  <2> QED  BY <2>2, <2>3 DEF UserUpload
<1>2. CASE ~IsFeedbackOnly(msg) /\ msg.role = "user"
  <2> DEFINE m == Human(UserContentToLC(msg.content))
  <2>1. ToLC(msg) = <<m>>
    BY <1>2 DEF ToLC
  <2>2. m \in AnyLC /\ m.type = "human" /\ m.content = UserContentToLC(msg.content)
    BY <1>0, HumanTyped DEF Human
  <2>3. Labels(UserContentToLC(msg.content)) = Uploads(msg.content)
    BY <1>0, UserLabels
  <2> HIDE DEF m
  <2>4. HumanLabels(<<m>>) = HumanLabel[m]
    BY FlatMapOne DEF HumanLabels
  <2> QED  BY <1>2, <2>1, <2>2, <2>3, <2>4 DEF HumanLabel, UserUpload
<1>3. CASE ~IsFeedbackOnly(msg) /\ msg.role = "system"
  <2> DEFINE m == System(<<TextPart(GatherText(msg.content))>>)
  <2>1. ToLC(msg) = <<m>>
    BY <1>3 DEF ToLC
  <2>2. m \in AnyLC
    BY <1>0, GatherTextTyped, SystemTyped
  <2>3. m.type # "human"
    BY DEF System
  <2> HIDE DEF m
  <2>4. <<m>> \in Seq(NotHuman)
    BY <2>2, <2>3 DEF NotHuman
  <2> QED  BY <1>3, <2>1, <2>4, NoHumanLabels DEF UserUpload
<1>4. CASE ~IsFeedbackOnly(msg) /\ msg.role = "tool"
  <2> DEFINE answers == OfKind(msg.content, {"result"})
  <2>1. ToLC(msg) = [i \in DOMAIN answers |-> ToolResultToLC(answers[i])]
    BY <1>4 DEF ToLC
  <2>2. ToLC(msg) = Mapped(Answer, answers) /\ answers \in Seq(AnyPart)
    BY <1>0, <2>1, AnswersAre, OfKindIs
  <2> HIDE DEF answers
  <2>3. MapsInto(Answer, AnyPart, NotHuman)
    BY ToolTyped DEF MapsInto, Answer, NotHuman
  <2>4. ToLC(msg) \in Seq(NotHuman)
    BY <2>2, <2>3, MapTyped
  <2> QED  BY <1>4, <2>4, NoHumanLabels DEF UserUpload
<1> QED  BY <1>0, <1>1, <1>2, <1>3, <1>4 DEF Walked

LEMMA GroupLabels ==
    ASSUME LCInv
    PROVE  /\ Group \in Seq(AnyLC) /\ HumanLabels(Group) = <<>>
           /\ Closing \in Seq(AnyLC) /\ HumanLabels(Closing) = <<>>
<1>0. texts \in Seq(Seq(Token)) /\ calls \in Seq(AnyId) /\ results \in Seq(AnyTool)
  BY DEF LCInv, LCTypes
<1>1. ASSUME NEW text \in Seq(Token), NEW ids \in Seq(AnyId)
      PROVE  <<AI(text, ids)>> \in Seq(NotHuman)
  <2>1. AI(text, ids) \in AnyLC
    BY AITyped
  <2>2. AI(text, ids).type # "human"
    BY DEF AI
  <2> QED  BY <2>1, <2>2 DEF NotHuman
<1>2. results \in Seq(NotHuman)
  <2>1. AnyTool \subseteq NotHuman
    BY DEF AnyTool, NotHuman
  <2> QED  BY <1>0, <2>1, SeqMonotonic
<1>3. Group \in Seq(NotHuman)
  <2>1. <<AI(FlattenSeq(texts), calls)>> \in Seq(NotHuman)
    BY <1>0, <1>1, FlattenTyped
  <2>2. <<AI(FlattenSeq(texts), calls)>> \o results \in Seq(NotHuman)
    BY <1>2, <2>1, ConcatProperties
  <2> QED  BY <2>2, EmptySeq DEF Group
<1>4. Closing \in Seq(NotHuman)
  <2>1. <<AI(<<>>, <<>>)>> \in Seq(NotHuman)
    BY <1>1, EmptySeq
  <2> QED  BY <1>3, <2>1 DEF Closing
<1>5. NotHuman \subseteq AnyLC
  BY DEF NotHuman
<1>6. Group \in Seq(AnyLC) /\ Closing \in Seq(AnyLC)
  BY <1>3, <1>4, <1>5, SeqMonotonic
<1> QED  BY <1>3, <1>4, <1>6, NoHumanLabels

\* The files of the user's messages that were converted are mentioned in what was added.
FilesInv ==
    \E l \in Seq(AnyLC) : lc = prior \o l /\ HumanLabels(l) \o UserUploads(todo) = UserUploads(thread)

LEMMA FilesInvInit == LCReady => FilesInv
<1> SUFFICES ASSUME LCReady
             PROVE  FilesInv
  OBVIOUS
<1>1. lc = prior \o <<>> /\ <<>> \in Seq(AnyLC) /\ todo = thread /\ thread \in Seq(AnyMessage)
  BY EmptySeq, ConcatEmptySeq DEF LCReady
<1>2. HumanLabels(<<>>) = <<>>
  BY FlatMapEmpty DEF HumanLabels
<1>3. UserUploads(thread) \in Seq(AnyLabel)
  BY <1>1, UserLabelMaps, FlatMapTyped DEF UserUploads
<1>4. <<>> \o UserUploads(thread) = UserUploads(thread)
  BY <1>3, ConcatEmptySeq
<1> QED  BY <1>1, <1>2, <1>4 DEF FilesInv

LEMMA FilesGrow ==
    ASSUME LCInv, LCInv', FilesInv, NEW g, Grows(g), thread' = thread,
           HumanLabels(g) \o UserUploads(todo') = UserUploads(todo)
    PROVE  FilesInv'
<1>1. PICK l \in Seq(AnyLC) : lc = prior \o l /\ HumanLabels(l) \o UserUploads(todo) = UserUploads(thread)
  BY DEF FilesInv
<1>2. g \in Seq(AnyLC) /\ lc' = (prior \o l) \o g /\ prior' = prior /\ prior \in Seq(AnyLC)
  BY <1>1 DEF Grows, LCInv, LCTypes
<1>3. (prior \o l) \o g = prior \o (l \o g) /\ l \o g \in Seq(AnyLC)
  <2>1. Regroups(prior, l, g)
    BY <1>2, CatRegroups
  <2>2. l \o g \in Seq(AnyLC)
    BY <1>2, ConcatProperties
  <2> QED  BY <2>1, <2>2 DEF Regroups
<1>4. HumanLabels(l \o g) = HumanLabels(l) \o HumanLabels(g)
  BY <1>2, UserLabelMaps, FlatMapCat DEF HumanLabels
<1>5. HumanLabels(l) \in Seq(AnyLabel) /\ HumanLabels(g) \in Seq(AnyLabel)
  BY <1>2, UserLabelMaps, FlatMapTyped DEF HumanLabels
<1>6. todo' \in Seq(AnyMessage)
  BY DEF LCInv, LCTypes
<1>7. UserUploads(todo') \in Seq(AnyLabel)
  BY <1>6, UserLabelMaps, FlatMapTyped DEF UserUploads
<1>8. HumanLabels(l) \o (HumanLabels(g) \o UserUploads(todo')) = (HumanLabels(l) \o HumanLabels(g)) \o UserUploads(todo')
  <2>1. Regroups(HumanLabels(l), HumanLabels(g), UserUploads(todo'))
    BY <1>5, <1>7, CatRegroups
  <2> QED  BY <2>1 DEF Regroups
<1>9. lc' = prior' \o (l \o g) /\ HumanLabels(l \o g) \o UserUploads(todo') = UserUploads(thread')
  BY <1>1, <1>2, <1>3, <1>4, <1>8
<1> QED  BY <1>3, <1>9 DEF FilesInv

LEMMA FilesStay ==
    ASSUME LCInv, LCInv', FilesInv, NEW g, Grows(g), thread' = thread, todo' = todo, HumanLabels(g) = <<>>
    PROVE  FilesInv'
<1>1. UserUploads(todo) \in Seq(AnyLabel)
  BY UserLabelMaps, FlatMapTyped DEF UserUploads, LCInv, LCTypes
<1>2. <<>> \o UserUploads(todo) = UserUploads(todo)
  BY <1>1, ConcatEmptySeq
<1>3. HumanLabels(g) \o UserUploads(todo') = UserUploads(todo)
  BY <1>2
<1> QED  BY <1>3, FilesGrow

LEMMA FilesInvNext == LCInv /\ FilesInv /\ [LCNext]_lcVars => FilesInv'
<1> SUFFICES ASSUME LCInv, FilesInv, [LCNext]_lcVars
             PROVE  FilesInv'
  OBVIOUS
<1>0. LCInv'
  BY LCInvNext
<1>1. HumanLabels(<<>>) = <<>> /\ <<>> \in Seq(AnyLC) /\ lc = lc \o <<>>
  BY FlatMapEmpty, EmptySeq, ConcatEmptySeq DEF HumanLabels, LCInv, LCTypes
<1>2. ASSUME lc' = lc, prior' = prior
      PROVE  Grows(<<>>)
  BY <1>1, <1>2 DEF Grows
<1>3. ASSUME todo # <<>>
      PROVE  /\ Head(todo) \in AnyMessage
             /\ UserUploads(todo) = UserUpload[Head(todo)] \o UserUploads(Tail(todo))
             /\ UserUploads(Tail(todo)) \in Seq(AnyLabel)
  <2>1. todo \in Seq(AnyMessage)
    BY DEF LCInv, LCTypes
  <2>2. Head(todo) \in AnyMessage /\ Tail(todo) \in Seq(AnyMessage)
    BY <1>3, <2>1, HeadTyped
  <2>3. UserUploads(todo) = UserUpload[Head(todo)] \o UserUploads(Tail(todo))
    BY <1>3, <2>1, UserLabelMaps, FlatMapHead DEF UserUploads
  <2>4. UserUploads(Tail(todo)) \in Seq(AnyLabel)
    BY <2>2, UserLabelMaps, FlatMapTyped DEF UserUploads
  <2> QED  BY <2>2, <2>3, <2>4
<1>4. CASE Convert
  <2>1. /\ todo # <<>> /\ ~Walked(Head(todo)) /\ todo' = Tail(todo) /\ thread' = thread /\ prior' = prior
        /\ lc' = lc \o ToLC(Head(todo))
    BY <1>4 DEF Convert, given
  <2>2. Head(todo) \in AnyMessage
    BY <1>3, <2>1
  <2>3. ToLC(Head(todo)) \in Seq(AnyLC) /\ HumanLabels(ToLC(Head(todo))) = UserUpload[Head(todo)]
    BY <2>1, <2>2, ToLCTyped, MessageLabels
  <2>4. Grows(ToLC(Head(todo)))
    BY <2>1, <2>3 DEF Grows
  <2>5. HumanLabels(ToLC(Head(todo))) \o UserUploads(todo') = UserUploads(todo)
    BY <1>3, <2>1, <2>3
  <2> QED  BY <1>0, <2>1, <2>4, <2>5, FilesGrow
<1>5. CASE OpenAssistant
  <2>1. /\ todo # <<>> /\ Walked(Head(todo)) /\ todo' = Tail(todo) /\ thread' = thread /\ prior' = prior
        /\ lc' = lc
    BY <1>5 DEF OpenAssistant, given
  <2>2. UserUpload[Head(todo)] = <<>>
    BY <1>3, <2>1 DEF UserUpload, Walked
  <2>3. <<>> \o UserUploads(Tail(todo)) = UserUploads(Tail(todo))
    BY <1>3, <2>1, ConcatEmptySeq
  <2>4. HumanLabels(<<>>) \o UserUploads(todo') = UserUploads(todo)
    BY <1>1, <1>3, <2>1, <2>2, <2>3
  <2>5. Grows(<<>>)
    BY <1>2, <2>1
  <2> QED  BY <1>0, <2>1, <2>4, <2>5, FilesGrow
<1>6. ASSUME NEW chunks, NEW ids, GoOn(chunks, ids), UNCHANGED <<given, todo>>
      PROVE  FilesInv'
  <2>1. CASE lastWasToolResult
    <3>1. Group \in Seq(AnyLC) /\ HumanLabels(Group) = <<>>
      BY GroupLabels
    <3>2. Grows(Group) /\ thread' = thread /\ todo' = todo
      BY <1>6, <2>1, <3>1 DEF GoOn, Grows, given
    <3> QED  BY <1>0, <3>1, <3>2, FilesStay
  <2>2. CASE ~lastWasToolResult
    <3>1. Grows(<<>>) /\ thread' = thread /\ todo' = todo
      BY <1>2, <1>6, <2>2 DEF GoOn, given
    <3> QED  BY <1>0, <1>1, <3>1, FilesStay
  <2> QED  BY <2>1, <2>2
<1>7. CASE TakeText \/ TakeCall
  BY <1>6, <1>7 DEF TakeText, TakeCall
<1>8. CASE CloseAssistant
  <2>1. Closing \in Seq(AnyLC) /\ HumanLabels(Closing) = <<>>
    BY GroupLabels
  <2>2. Grows(Closing) /\ thread' = thread /\ todo' = todo
    BY <1>8, <2>1 DEF CloseAssistant, Closing, Grows, given
  <2> QED  BY <1>0, <2>1, <2>2, FilesStay
<1>9. CASE \/ TakeResult \/ DropPart \/ FromHuman \/ FromAI \/ FromTool \/ FromOther \/ FromEnd
           \/ UNCHANGED lcVars
  <2>1. UNCHANGED <<given, todo, lc>>
    BY <1>9 DEF TakeResult, DropPart, FromHuman, FromAI, FromTool, FromOther, FromEnd, BackNext, lcVars
  <2>2. Grows(<<>>) /\ thread' = thread /\ todo' = todo
    BY <1>2, <2>1 DEF given
  <2> QED  BY <1>0, <1>1, <2>2, FilesStay
<1>10. CASE Resume
  <2>1. thread' = out /\ todo' = out /\ prior' = <<>> /\ lc' = <<>> /\ out \in Seq(AnyMessage)
    BY <1>10 DEF Resume, LCInv, LCTypes
  <2>2. UserUploads(out) \in Seq(AnyLabel)
    BY <2>1, UserLabelMaps, FlatMapTyped DEF UserUploads
  <2>3. HumanLabels(<<>>) \o UserUploads(out) = UserUploads(out) /\ <<>> \o <<>> = <<>>
    BY <1>1, <2>2, ConcatEmptySeq
  <2>4. lc' = prior' \o <<>> /\ HumanLabels(<<>>) \o UserUploads(todo') = UserUploads(thread')
    BY <2>1, <2>3
  <2> QED  BY <1>1, <2>4 DEF FilesInv
<1> QED  BY <1>4, <1>5, <1>7, <1>8, <1>9, <1>10 DEF LCNext

UploadOf == [m \in AnyMessage |-> Uploads(m.content)]

LEMMA UserUploadsAre ==
    ASSUME thread \in Seq(AnyMessage)
    PROVE  FlattenSeq([i \in DOMAIN UserMessages |-> Uploads(UserMessages[i].content)]) = UserUploads(thread)
<1> DEFINE Users == {m \in AnyMessage : m.role = "user"}
           I == {i \in DOMAIN thread : thread[i].role = "user"}
           K == Keeper(AnyMessage, Users)
           u == Kept(thread, I)
           H == [m \in AnyMessage |-> FlatMap(UploadOf, K[m])]
<1>1. DOMAIN thread = 1..Len(thread) /\ \A i \in 1..Len(thread) : thread[i] \in AnyMessage
  BY LenProperties, ElementOfSeq
<1>2. ChosenBy(thread, I, Users)
  BY <1>1 DEF ChosenBy
<1> HIDE DEF I
<1>3. u = FlatMap(K, thread) /\ u \in Seq(AnyMessage)
  <2> HIDE DEF Users
  <2> QED  BY <1>2, KeptIs
<1>4. UserMessages = u
  BY DEF UserMessages, I
<1> HIDE DEF u
<1>5. FlattenSeq([i \in DOMAIN u |-> Uploads(u[i].content)]) = FlatMap(UploadOf, u)
  <2>1. DOMAIN u = 1..Len(u) /\ \A i \in 1..Len(u) : u[i] \in AnyMessage
    BY <1>3, LenProperties, ElementOfSeq
  <2>2. [i \in DOMAIN u |-> Uploads(u[i].content)] = Mapped(UploadOf, u)
    BY <2>1 DEF Mapped, UploadOf
  <2> QED  BY <2>2 DEF FlatMap
<1>6. MapsInto(UploadOf, AnyMessage, Seq(AnyLabel))
  <2>1. ASSUME NEW m \in AnyMessage
        PROVE  UploadOf[m] \in Seq(AnyLabel)
    <3>1. m.content \in Seq(AnyPart)
      BY DEF AnyMessage
    <3>2. Uploads(m.content) \in Seq({FileMark})
      BY <3>1, UploadsTyped
    <3> QED  BY <3>2 DEF UploadOf, AnyLabel
  <2> QED  BY <2>1 DEF MapsInto, UploadOf
<1>7. MapsInto(K, AnyMessage, Seq(AnyMessage))
  BY KeeperMaps
<1>8. FlatMap(UploadOf, FlatMap(K, thread)) = FlatMap(H, thread)
  <2> HIDE DEF K
  <2> QED  BY <1>6, <1>7, FlatMapThen
<1>9. H = UserUpload
  <2>1. ASSUME NEW m \in AnyMessage
        PROVE  FlatMap(UploadOf, K[m]) = UserUpload[m]
    <3>1. K[m] = IF m.role = "user" THEN <<m>> ELSE <<>>
      BY DEF Keeper
    <3>2. FlatMap(UploadOf, <<m>>) = UploadOf[m] /\ FlatMap(UploadOf, <<>>) = <<>>
      BY FlatMapOne, FlatMapEmpty
    <3> QED  BY <3>1, <3>2 DEF UploadOf, UserUpload
  <2> HIDE DEF K
  <2> QED  BY <2>1 DEF UserUpload
<1> QED  BY <1>3, <1>4, <1>5, <1>8, <1>9 DEF UserUploads

LEMMA HumanLabelsAre ==
    ASSUME NEW l \in Seq(AnyLC)
    PROVE  FlattenSeq([i \in DOMAIN l |-> IF l[i].type = "human" THEN Labels(l[i].content) ELSE <<>>])
              = HumanLabels(l)
<1>1. DOMAIN l = 1..Len(l) /\ \A i \in 1..Len(l) : l[i] \in AnyLC
  BY LenProperties, ElementOfSeq
<1>2. [i \in DOMAIN l |-> IF l[i].type = "human" THEN Labels(l[i].content) ELSE <<>>] = Mapped(HumanLabel, l)
  BY <1>1 DEF Mapped, HumanLabel
<1> QED  BY <1>2 DEF HumanLabels, FlatMap

LEMMA MentionedWhenConverted ==
    ASSUME LCInv, FilesInv
    PROVE  FilesMentioned
<1> SUFFICES ASSUME Converted
             PROVE  /\ FlattenSeq([i \in DOMAIN Added |->
                          IF Added[i].type = "human" THEN Labels(Added[i].content) ELSE <<>>])
                       = FlattenSeq([i \in DOMAIN UserMessages |-> Uploads(UserMessages[i].content)])
                    /\ \A i \in DOMAIN thread : HasNoImage(thread[i]) /\ thread[i].role # "tool" =>
                          Labels(ToOpenAIChatCompletion(thread[i])[1].content) = Uploads(thread[i].content)
  BY DEF FilesMentioned
<1>0. thread \in Seq(AnyMessage) /\ prior \in Seq(AnyLC) /\ todo = <<>>
  BY DEF LCInv, LCTypes, Converted
<1>1. PICK l \in Seq(AnyLC) : lc = prior \o l /\ HumanLabels(l) \o UserUploads(todo) = UserUploads(thread)
  BY DEF FilesInv
<1>2. Added = l
  BY <1>0, <1>1, AddedIs
<1>3. HumanLabels(l) = UserUploads(thread)
  <2>1. HumanLabels(l) \in Seq(AnyLabel)
    BY UserLabelMaps, FlatMapTyped DEF HumanLabels
  <2>2. UserUploads(<<>>) = <<>>
    BY FlatMapEmpty DEF UserUploads
  <2>3. HumanLabels(l) \o <<>> = HumanLabels(l)
    BY <2>1, ConcatEmptySeq
  <2> QED  BY <1>0, <1>1, <2>2, <2>3
<1>4. \A i \in DOMAIN thread : thread[i] \in AnyMessage
  BY <1>0, LenProperties, ElementOfSeq
<1> QED  BY <1>0, <1>2, <1>3, <1>4, HumanLabelsAre, UserUploadsAre, OpenAILabels

\* "file part becomes text breadcrumb" (test_langchain.py:339): of every thread and every
\* persisted turn, whatever else is in the messages, a LangChain model is shown as many
\* file labels as the user sent files, and so is OpenAI for messages without an image.
THEOREM FilesAreMentioned == CoworkSpec => []FilesMentioned
<1>1. CoworkInit => LCInv /\ FilesInv
  BY CoworkIsReady, LCInvInit, FilesInvInit
<1>2. LCInv /\ FilesInv /\ [CoworkNext]_coworkVars => (LCInv /\ FilesInv)'
  BY CoworkSteps, LCInvNext, FilesInvNext
<1>3. LCInv /\ FilesInv => FilesMentioned
  BY MentionedWhenConverted
<1> QED  BY <1>1, <1>2, <1>3, PTL DEF CoworkSpec

----------------------------------------------------------------------------
(* Results follow the entry that has their call.                           *)

ResultsOnly(entry) ==
    /\ entry.content # <<>> /\ entry.calls = <<>>
    /\ \A q \in DOMAIN entry.content : entry.content[q].kind = "result"

\* Entries without a result, and entries that are answers to the calls of C.
NoAnswers(e) == \A i \in DOMAIN e : \A p \in DOMAIN e[i].content : e[i].content[p].kind # "result"
AnswersTo(e, C) ==
    \A i \in DOMAIN e : ResultsOnly(e[i]) /\ \A p \in DOMAIN e[i].content : e[i].content[p].id \in C

\* The calls that an answer after e would follow.
OpenFrom(e, j) == \A k \in j+1..Len(e) : ResultsOnly(e[k])
OpenIn(e) == {id \in AnyId : \E j \in 1..Len(e) : id \in CallsOf(e[j]) /\ OpenFrom(e, j)}

AnsweredAt(e, i, id) ==
    \E j \in 1..i-1 : id \in CallsOf(e[j]) /\ \A k \in j+1..i : ResultsOnly(e[k])

LEMMA AnsweredIs ==
    ASSUME NEW e
    PROVE  AnsweredInTurn(e) <=>
              \A i \in DOMAIN e : \A p \in DOMAIN e[i].content :
                 e[i].content[p].kind = "result" => AnsweredAt(e, i, e[i].content[p].id)
  BY DEF AnsweredInTurn, AnsweredAt, ResultsOnly

LEMMA EntriesCat ==
    ASSUME NEW e \in Seq(AnyEntry), NEW g \in Seq(AnyEntry)
    PROVE  /\ e \o g \in Seq(AnyEntry) /\ Len(e) \in Nat /\ Len(g) \in Nat
           /\ Len(e \o g) = Len(e) + Len(g) /\ DOMAIN (e \o g) = 1..Len(e) + Len(g)
           /\ DOMAIN e = 1..Len(e) /\ DOMAIN g = 1..Len(g)
           /\ \A i \in 1..Len(e) : (e \o g)[i] = e[i]
           /\ \A i \in 1..Len(g) : (e \o g)[Len(e) + i] = g[i]
           /\ \A i \in 1..Len(e) + Len(g) : i \in 1..Len(e) \/ \E n \in 1..Len(g) : i = Len(e) + n
<1>1. /\ e \o g \in Seq(AnyEntry) /\ Len(e) \in Nat /\ Len(g) \in Nat
      /\ Len(e \o g) = Len(e) + Len(g)
      /\ \A i \in 1..Len(e) + Len(g) : (e \o g)[i] = IF i <= Len(e) THEN e[i] ELSE g[i - Len(e)]
  BY ConcatProperties, LenProperties
<1>2. DOMAIN (e \o g) = 1..Len(e) + Len(g) /\ DOMAIN e = 1..Len(e) /\ DOMAIN g = 1..Len(g)
  BY <1>1, LenProperties
<1>3. \A i \in 1..Len(e) : (e \o g)[i] = e[i]
  BY <1>1
<1>4. ASSUME NEW i \in 1..Len(g)
      PROVE  (e \o g)[Len(e) + i] = g[i]
  <2> DEFINE k == Len(e) + i
  <2>1. k \in 1..Len(e) + Len(g) /\ ~(k <= Len(e)) /\ k - Len(e) = i
    BY <1>1
  <2> HIDE DEF k
  <2>2. (e \o g)[k] = g[k - Len(e)]
    BY <1>1, <2>1
  <2> QED  BY <2>1, <2>2 DEF k
<1>5. ASSUME NEW i \in 1..Len(e) + Len(g), i \notin 1..Len(e)
      PROVE  \E n \in 1..Len(g) : i = Len(e) + n
  <2>1. i - Len(e) \in 1..Len(g) /\ i = Len(e) + (i - Len(e))
    BY <1>1, <1>5
  <2> QED  BY <2>1
<1> QED  BY <1>1, <1>2, <1>3, <1>4, <1>5

LEMMA NoAnswersCat ==
    ASSUME NEW e \in Seq(AnyEntry), NEW g \in Seq(AnyEntry), AnsweredInTurn(e), NoAnswers(g)
    PROVE  AnsweredInTurn(e \o g)
<1> DEFINE w == e \o g
           n == Len(e)
<1>1. /\ n \in Nat /\ DOMAIN w = 1..n + Len(g) /\ DOMAIN e = 1..n /\ DOMAIN g = 1..Len(g)
      /\ \A i \in 1..n : w[i] = e[i]
      /\ \A i \in 1..Len(g) : w[n + i] = g[i]
      /\ \A i \in 1..n + Len(g) : i \in 1..n \/ \E k \in 1..Len(g) : i = n + k
  BY EntriesCat
<1> HIDE DEF w, n
<1>2. ASSUME NEW i \in DOMAIN w, NEW p \in DOMAIN w[i].content, w[i].content[p].kind = "result"
      PROVE  AnsweredAt(w, i, w[i].content[p].id)
  <2>1. i \in 1..n
    <3>1. ASSUME NEW k \in 1..Len(g), i = n + k
          PROVE  FALSE
      <4>1. w[i] = g[k] /\ k \in DOMAIN g
        BY <1>1, <3>1
      <4> QED  BY <1>2, <4>1 DEF NoAnswers
    <3> QED  BY <1>1, <3>1
  <2>2. w[i] = e[i]
    BY <1>1, <2>1
  <2>3. AnsweredAt(e, i, e[i].content[p].id)
    BY <1>1, <1>2, <2>1, <2>2, AnsweredIs
  <2>4. PICK j \in 1..i-1 : e[i].content[p].id \in CallsOf(e[j]) /\ \A k \in j+1..i : ResultsOnly(e[k])
    BY <2>3 DEF AnsweredAt
  <2>5. w[j] = e[j] /\ \A k \in j+1..i : w[k] = e[k]
    BY <1>1, <2>1, <2>4
  <2> QED  BY <2>2, <2>4, <2>5 DEF AnsweredAt
<1>3. AnsweredInTurn(w)
  BY <1>2, AnsweredIs
<1> QED  BY <1>3 DEF w

LEMMA AnswersCat ==
    ASSUME NEW e \in Seq(AnyEntry), NEW g \in Seq(AnyEntry), NEW C, C \subseteq OpenIn(e),
           AnsweredInTurn(e), AnswersTo(g, C)
    PROVE  AnsweredInTurn(e \o g) /\ C \subseteq OpenIn(e \o g)
<1> DEFINE w == e \o g
           n == Len(e)
<1>1. /\ n \in Nat /\ Len(w) = n + Len(g) /\ DOMAIN w = 1..n + Len(g) /\ DOMAIN e = 1..n
      /\ DOMAIN g = 1..Len(g) /\ Len(g) \in Nat
      /\ \A i \in 1..n : w[i] = e[i]
      /\ \A i \in 1..Len(g) : w[n + i] = g[i]
      /\ \A i \in 1..n + Len(g) : i \in 1..n \/ \E k \in 1..Len(g) : i = n + k
  BY EntriesCat
<1> HIDE DEF w
<1>2. ASSUME NEW id \in C
      PROVE  id \in AnyId /\ \E j \in 1..n : id \in CallsOf(w[j]) /\ \A k \in j+1..n + Len(g) : ResultsOnly(w[k])
  <2>1. PICK j \in 1..n : id \in CallsOf(e[j]) /\ OpenFrom(e, j)
    BY DEF OpenIn
  <2>2. \A k \in j+1..n : ResultsOnly(e[k])
    BY <2>1 DEF OpenFrom
  <2>3. ASSUME NEW k \in j+1..n + Len(g)
        PROVE  ResultsOnly(w[k])
    <3>1. k \in 1..n + Len(g)
      BY <1>1, <2>1
    <3>2. CASE k \in 1..n
      BY <1>1, <2>2, <3>2
    <3>3. ASSUME NEW m \in 1..Len(g), k = n + m
          PROVE  ResultsOnly(w[k])
      <4>1. w[k] = g[m]
        BY <1>1, <3>3
      <4>2. ResultsOnly(g[m])
        BY <1>1 DEF AnswersTo
      <4> QED  BY <4>1, <4>2
    <3> QED  BY <1>1, <3>1, <3>2, <3>3
  <2>4. w[j] = e[j]
    BY <1>1
  <2> QED  BY <2>1, <2>3, <2>4 DEF OpenIn
<1> HIDE DEF n
<1>3. ASSUME NEW i \in DOMAIN w, NEW p \in DOMAIN w[i].content, w[i].content[p].kind = "result"
      PROVE  AnsweredAt(w, i, w[i].content[p].id)
  <2>1. CASE i \in 1..n
    <3>1. w[i] = e[i]
      BY <1>1, <2>1
    <3>2. AnsweredAt(e, i, e[i].content[p].id)
      BY <1>1, <1>3, <2>1, <3>1, AnsweredIs
    <3>3. PICK j \in 1..i-1 : e[i].content[p].id \in CallsOf(e[j]) /\ \A k \in j+1..i : ResultsOnly(e[k])
      BY <3>2 DEF AnsweredAt
    <3>4. w[j] = e[j] /\ \A k \in j+1..i : w[k] = e[k]
      BY <1>1, <2>1, <3>3
    <3> QED  BY <3>1, <3>3, <3>4 DEF AnsweredAt
  <2>2. ASSUME NEW m \in 1..Len(g), i = n + m
        PROVE  AnsweredAt(w, i, w[i].content[p].id)
    <3>1. w[i] = g[m] /\ m \in DOMAIN g
      BY <1>1, <2>2
    <3>2. w[i].content[p].id \in C
      BY <1>3, <3>1 DEF AnswersTo
    <3>3. PICK j \in 1..n : /\ w[i].content[p].id \in CallsOf(w[j])
                            /\ \A k \in j+1..n + Len(g) : ResultsOnly(w[k])
      BY <1>2, <3>2
    <3>4. j \in 1..i-1 /\ \A k \in j+1..i : ResultsOnly(w[k])
      BY <1>1, <2>2, <3>3
    <3> QED  BY <3>3, <3>4 DEF AnsweredAt
  <2> QED  BY <1>1, <2>1, <2>2
<1>4. AnsweredInTurn(w)
  BY <1>3, AnsweredIs
<1>5. C \subseteq OpenIn(w)
  <2>1. ASSUME NEW id \in C
        PROVE  id \in OpenIn(w)
    <3>1. id \in AnyId
      BY <1>2
    <3>2. PICK j \in 1..n : id \in CallsOf(w[j]) /\ \A k \in j+1..n + Len(g) : ResultsOnly(w[k])
      BY <1>2
    <3>3. j \in 1..Len(w)
      BY <1>1
    <3>4. OpenFrom(w, j)
      BY <1>1, <3>2 DEF OpenFrom
    <3> QED  BY <3>1, <3>2, <3>3, <3>4 DEF OpenIn
  <2> QED  BY <2>1
<1> QED  BY <1>4, <1>5 DEF w

LEMMA OpenCat ==
    ASSUME NEW e \in Seq(AnyEntry), NEW g \in Seq(AnyEntry)
    PROVE  OpenIn(g) \subseteq OpenIn(e \o g)
<1> DEFINE w == e \o g
           n == Len(e)
<1>1. /\ n \in Nat /\ Len(w) = n + Len(g) /\ Len(g) \in Nat
      /\ \A i \in 1..Len(g) : w[n + i] = g[i]
  BY EntriesCat
<1> HIDE DEF w, n
<1>2. ASSUME NEW id \in OpenIn(g)
      PROVE  id \in OpenIn(w)
  <2>1. PICK j \in 1..Len(g) : id \in CallsOf(g[j]) /\ OpenFrom(g, j)
    BY DEF OpenIn
  <2> DEFINE i == n + j
  <2>2. i \in 1..Len(w) /\ w[i] = g[j]
    BY <1>1
  <2>3. ASSUME NEW k \in i+1..Len(w)
        PROVE  ResultsOnly(w[k])
    <3> DEFINE m == k - n
    <3>1. m \in j+1..Len(g) /\ m \in 1..Len(g) /\ k = n + m
      BY <1>1
    <3> HIDE DEF m
    <3> QED  BY <1>1, <2>1, <3>1 DEF OpenFrom
  <2> HIDE DEF i
  <2>4. OpenFrom(w, i)
    BY <2>3 DEF OpenFrom
  <2>5. id \in AnyId
    BY DEF OpenIn
  <2> QED  BY <2>1, <2>2, <2>4, <2>5 DEF OpenIn
<1> QED  BY <1>2 DEF w

\* The same, of a thread.
CallsIn(c) == {c[q].id : q \in {r \in DOMAIN c : c[r].kind = "call"}}
ResultsFrom(c, C) == \A p \in DOMAIN c : c[p].kind = "result" => c[p].id \in C

AnswersOnly(m) == m.role = "tool" /\ HasKind(m.content, "result")

AnswersInTurn(t) ==
    \A i \in DOMAIN t : \A p \in DOMAIN t[i].content : t[i].content[p].kind = "result" =>
        \E j \in 1..i : \E q \in DOMAIN t[j].content :
            /\ t[j].content[q].kind = "call" /\ t[j].content[q].id = t[i].content[p].id
            /\ t[j].role # "tool" /\ (j = i => q < p)
            /\ \A k \in j+1..i : AnswersOnly(t[k])

OpenCalls(t) ==
    {id \in AnyId : \E j \in 1..Len(t) :
        t[j].role # "tool" /\ id \in CallsIn(t[j].content) /\ \A k \in j+1..Len(t) : AnswersOnly(t[k])}

LEMMA ThreadAnswers == ThreadAnswersInTurn <=> AnswersInTurn(thread)
  BY DEF ThreadAnswersInTurn, AnswersInTurn, AnswersOnly

LEMMA ThreadMore ==
    ASSUME NEW t \in Seq(AnyMessage), NEW m \in AnyMessage
    PROVE  /\ Append(t, m) \in Seq(AnyMessage) /\ Len(t) \in Nat /\ Len(Append(t, m)) = Len(t) + 1
           /\ DOMAIN t = 1..Len(t) /\ DOMAIN Append(t, m) = 1..Len(t) + 1
           /\ \A i \in 1..Len(t) : Append(t, m)[i] = t[i]
           /\ Append(t, m)[Len(t) + 1] = m
<1>1. /\ Append(t, m) \in Seq(AnyMessage) /\ Len(t) \in Nat /\ Len(Append(t, m)) = Len(t) + 1
      /\ \A i \in 1..Len(t) : Append(t, m)[i] = t[i]
      /\ Append(t, m)[Len(t) + 1] = m
  BY AppendProperties, LenProperties
<1> QED  BY <1>1, LenProperties

\* What one more message needs: the calls of its own results, when it is no tool message,
\* and else those that are open before it.
LEMMA MoreAnswers ==
    ASSUME NEW t \in Seq(AnyMessage), NEW m \in AnyMessage, AnswersInTurn(Append(t, m))
    PROVE  /\ AnswersInTurn(t)
           /\ m.role # "tool" => ResultsFrom(m.content, CallsIn(m.content))
           /\ m.role = "tool" => ResultsFrom(m.content, OpenCalls(t))
<1> DEFINE w == Append(t, m)
           n == Len(t)
<1>1. /\ n \in Nat /\ DOMAIN t = 1..n /\ DOMAIN w = 1..n + 1
      /\ \A i \in 1..n : w[i] = t[i]
      /\ w[n + 1] = m
  BY ThreadMore
<1>2. AnswersInTurn(w)
  OBVIOUS
<1> HIDE DEF w
<1>3. AnswersInTurn(t)
  <2> SUFFICES ASSUME NEW i \in DOMAIN t, NEW p \in DOMAIN t[i].content, t[i].content[p].kind = "result"
               PROVE  \E j \in 1..i : \E q \in DOMAIN t[j].content :
                         /\ t[j].content[q].kind = "call" /\ t[j].content[q].id = t[i].content[p].id
                         /\ t[j].role # "tool" /\ (j = i => q < p)
                         /\ \A k \in j+1..i : AnswersOnly(t[k])
    BY DEF AnswersInTurn
  <2>1. i \in 1..n /\ i \in DOMAIN w /\ w[i] = t[i]
    BY <1>1
  <2>2. PICK j \in 1..i : \E q \in DOMAIN w[j].content :
               /\ w[j].content[q].kind = "call" /\ w[j].content[q].id = w[i].content[p].id
               /\ w[j].role # "tool" /\ (j = i => q < p)
               /\ \A k \in j+1..i : AnswersOnly(w[k])
    BY <1>2, <2>1 DEF AnswersInTurn
  <2>3. w[j] = t[j] /\ \A k \in j+1..i : w[k] = t[k]
    BY <1>1, <2>1, <2>2
  <2> QED  BY <2>1, <2>2, <2>3
<1>4. ASSUME NEW p \in DOMAIN m.content, m.content[p].kind = "result"
      PROVE  \E j \in 1..n + 1 : /\ w[j].role # "tool" /\ m.content[p].id \in CallsIn(w[j].content)
                                 /\ \A k \in j+1..n + 1 : AnswersOnly(w[k])
  <2>1. PICK j \in 1..n + 1 : \E q \in DOMAIN w[j].content :
               /\ w[j].content[q].kind = "call" /\ w[j].content[q].id = m.content[p].id
               /\ w[j].role # "tool"
               /\ \A k \in j+1..n + 1 : AnswersOnly(w[k])
    BY <1>1, <1>2, <1>4 DEF AnswersInTurn
  <2>2. PICK q \in DOMAIN w[j].content :
               /\ w[j].content[q].kind = "call" /\ w[j].content[q].id = m.content[p].id
               /\ w[j].role # "tool"
               /\ \A k \in j+1..n + 1 : AnswersOnly(w[k])
    BY <2>1
  <2>3. m.content[p].id \in CallsIn(w[j].content)
    BY <2>2 DEF CallsIn
  <2> QED  BY <2>2, <2>3
<1>5. ASSUME m.role # "tool", NEW p \in DOMAIN m.content, m.content[p].kind = "result"
      PROVE  m.content[p].id \in CallsIn(m.content)
  <2>1. PICK j \in 1..n + 1 : /\ w[j].role # "tool" /\ m.content[p].id \in CallsIn(w[j].content)
                              /\ \A k \in j+1..n + 1 : AnswersOnly(w[k])
    BY <1>4, <1>5
  <2>2. j = n + 1
    <3>1. ASSUME j # n + 1
          PROVE  FALSE
      <4>1. n + 1 \in j+1..n + 1
        BY <1>1, <2>1, <3>1
      <4>2. AnswersOnly(m)
        BY <1>1, <2>1, <4>1
      <4> QED  BY <1>5, <4>2 DEF AnswersOnly
    <3> QED  BY <3>1
  <2> QED  BY <1>1, <2>1, <2>2
<1>6. ASSUME m.role = "tool", NEW p \in DOMAIN m.content, m.content[p].kind = "result"
      PROVE  m.content[p].id \in OpenCalls(t)
  <2>1. PICK j \in 1..n + 1 : /\ w[j].role # "tool" /\ m.content[p].id \in CallsIn(w[j].content)
                              /\ \A k \in j+1..n + 1 : AnswersOnly(w[k])
    BY <1>4, <1>6
  <2>2. j \in 1..n
    BY <1>1, <1>6, <2>1
  <2>3. w[j] = t[j] /\ \A k \in j+1..n : AnswersOnly(t[k])
    BY <1>1, <2>1, <2>2
  <2>4. m.content[p].id \in AnyId
    <3>1. m.content \in Seq(AnyPart)
      BY DEF AnyMessage
    <3>2. m.content[p] \in AnyPart
      BY <3>1, LenProperties, ElementOfSeq
    <3> QED  BY <3>2 DEF AnyPart, AnyId
  <2> QED  BY <2>1, <2>2, <2>3, <2>4 DEF OpenCalls
<1> QED  BY <1>3, <1>5, <1>6 DEF ResultsFrom

LEMMA MoreOpen ==
    ASSUME NEW t \in Seq(AnyMessage), NEW m \in AnyMessage
    PROVE  /\ m.role # "tool" => OpenCalls(Append(t, m)) \subseteq CallsIn(m.content)
           /\ m.role = "tool" => OpenCalls(Append(t, m)) \subseteq OpenCalls(t)
           /\ m.role = "tool" /\ ~HasKind(m.content, "result") => OpenCalls(Append(t, m)) = {}
<1> DEFINE w == Append(t, m)
           n == Len(t)
<1>1. /\ n \in Nat /\ Len(w) = n + 1
      /\ \A i \in 1..n : w[i] = t[i]
      /\ w[n + 1] = m
  BY ThreadMore
<1> HIDE DEF w, n
<1>2. ASSUME NEW id \in OpenCalls(w)
      PROVE  \/ m.role # "tool" /\ id \in CallsIn(m.content)
             \/ AnswersOnly(m) /\ id \in OpenCalls(t)
  <2>1. PICK j \in 1..n + 1 : /\ w[j].role # "tool" /\ id \in CallsIn(w[j].content)
                              /\ \A k \in j+1..n + 1 : AnswersOnly(w[k])
    BY <1>1 DEF OpenCalls
  <2>2. CASE j = n + 1
    BY <1>1, <2>1, <2>2
  <2>3. CASE j # n + 1
    <3>1. j \in 1..n /\ n + 1 \in j+1..n + 1
      BY <1>1, <2>3
    <3>2. AnswersOnly(m)
      BY <1>1, <2>1, <3>1
    <3>3. w[j] = t[j] /\ \A k \in j+1..n : AnswersOnly(t[k])
      BY <1>1, <2>1, <3>1
    <3>4. id \in AnyId
      BY DEF OpenCalls
    <3> QED  BY <2>1, <3>1, <3>2, <3>3, <3>4 DEF OpenCalls, n
  <2> QED  BY <2>2, <2>3
<1> QED  BY <1>2 DEF w, AnswersOnly

\* What is picked out of a content.
AnswerParts(C) == {p \in AnyPart : p.kind = "result" /\ p.id \in C}

LEMMA PickedAnswers ==
    ASSUME NEW c \in Seq(AnyPart), NEW C, ResultsFrom(c, C)
    PROVE  \A i \in DOMAIN OfKind(c, {"result"}) : OfKind(c, {"result"})[i] \in AnswerParts(C)
<1> DEFINE I == {i \in DOMAIN c : c[i].kind \in {"result"}}
           d == OfKind(c, {"result"})
<1>1. \A i \in DOMAIN c : c[i] \in AnyPart
  BY LenProperties, ElementOfSeq
<1>2. ChosenBy(c, I, AnswerParts(C))
  BY <1>1 DEF ChosenBy, AnswerParts, ResultsFrom
<1>3. d = Kept(c, I)
  BY DEF OfKind
<1> HIDE DEF I, d
<1>4. d \in Seq(AnyPart \cap AnswerParts(C))
  BY <1>2, <1>3, KeptIs
<1>5. \A i \in DOMAIN d : d[i] \in AnyPart \cap AnswerParts(C)
  BY <1>4, LenProperties, ElementOfSeq
<1> QED  BY <1>5 DEF d

LEMMA PickedKinds ==
    ASSUME NEW c \in Seq(AnyPart), NEW ks
    PROVE  \A i \in DOMAIN OfKind(c, ks) : OfKind(c, ks)[i].kind \in ks
<1> DEFINE d == OfKind(c, ks)
<1>1. d \in Seq(AnyPart \cap Kinds(ks))
  BY OfKindIs
<1> HIDE DEF d
<1>2. \A i \in DOMAIN d : d[i] \in AnyPart \cap Kinds(ks)
  BY <1>1, LenProperties, ElementOfSeq
<1> QED  BY <1>2 DEF d, Kinds

LEMMA PickedHas ==
    ASSUME NEW c \in Seq(AnyPart), NEW ks, NEW i \in DOMAIN c, c[i].kind \in ks
    PROVE  \E j \in DOMAIN OfKind(c, ks) : OfKind(c, ks)[j] = c[i]
<1> DEFINE K == Keeper(AnyPart, Kinds(ks))
           d == OfKind(c, ks)
<1>1. i \in 1..Len(c) /\ c[i] \in AnyPart
  BY LenProperties, ElementOfSeq
<1>2. MapsInto(K, AnyPart, Seq(AnyPart)) /\ K[c[i]] = <<c[i]>>
  BY <1>1, KeeperMaps DEF Keeper, Kinds
<1>3. d = FlatMap(K, c) /\ d \in Seq(AnyPart)
  BY OfKindIs
<1> HIDE DEF K, d
<1>4. \E j \in 1..Len(FlatMap(K, c)) : FlatMap(K, c)[j] = c[i]
  BY <1>1, <1>2, FlatMapHas
<1>5. \E j \in DOMAIN d : d[j] = c[i]
  BY <1>3, <1>4, LenProperties
<1> QED  BY <1>5 DEF d

LEMMA AsShownAnswers ==
    ASSUME NEW c \in Seq(AnyPart)
    PROVE  /\ CallsIn(AsShown(c)) = CallsIn(c)
           /\ \A C : ResultsFrom(AsShown(c), C) <=> ResultsFrom(c, C)
           /\ \A kind : HasKind(AsShown(c), kind) <=> HasKind(c, kind)
<1> DEFINE s == AsShown(c)
<1>1. DOMAIN s = DOMAIN c /\ \A i \in DOMAIN c : s[i].kind = c[i].kind /\ s[i].id = c[i].id
  BY AsShownIs
<1> HIDE DEF s
<1>2. CallsIn(s) = CallsIn(c)
  BY <1>1 DEF CallsIn
<1>3. \A C : ResultsFrom(s, C) <=> ResultsFrom(c, C)
  BY <1>1 DEF ResultsFrom
<1>4. \A kind : HasKind(s, kind) <=> HasKind(c, kind)
  BY <1>1 DEF HasKind
<1> QED  BY <1>2, <1>3, <1>4 DEF s

\* How an adapter must render one message for the results to stay with their calls.
RendersWhole(F, m) ==
    \E h, r \in Seq(AnyEntry) :
        /\ F[m] = h \o r /\ NoAnswers(h) /\ CallsIn(m.content) \subseteq OpenIn(h)
        /\ AnswersTo(r, CallsIn(m.content))

RendersInTurn(F) ==
    /\ MapsInto(F, AnyMessage, Seq(AnyEntry))
    /\ \A m \in AnyMessage :
          m.role # "tool" /\ ResultsFrom(m.content, CallsIn(m.content)) => RendersWhole(F, m)
    /\ \A m \in AnyMessage : m.role = "tool" =>
          IF HasKind(m.content, "result")
          THEN \A C \in SUBSET AnyId : ResultsFrom(m.content, C) => AnswersTo(F[m], C)
          ELSE NoAnswers(F[m])

\* An entry with the calls of a content, and nothing after it.
LEMMA OneEntryOpen ==
    ASSUME NEW c \in Seq(AnyPart), NEW e \in AnyEntry, CallsIn(c) \subseteq CallsOf(e)
    PROVE  CallsIn(c) \subseteq OpenIn(<<e>>)
<1> DEFINE w == <<e>>
<1>1. Len(w) = 1 /\ w[1] = e
  OBVIOUS
<1> HIDE DEF w
<1>2. OpenFrom(w, 1)
  BY <1>1 DEF OpenFrom
<1>3. CallsIn(c) \subseteq AnyId
  <2>1. \A q \in DOMAIN c : c[q] \in AnyPart
    BY LenProperties, ElementOfSeq
  <2> QED  BY <2>1 DEF CallsIn, AnyPart, AnyId
<1>4. CallsIn(c) \subseteq OpenIn(w)
  BY <1>1, <1>2, <1>3 DEF OpenIn
<1> QED  BY <1>4 DEF w

LEMMA TailAnswers ==
    ASSUME NEW c \in Seq(AnyPart), NEW C, ResultsFrom(c, C)
    PROVE  AnswersTo(TailToolResults(c), C)
<1> DEFINE d == OfKind(c, {"result"})
<1>1. \A i \in DOMAIN d : d[i] \in AnswerParts(C)
  BY PickedAnswers
<1>2. TailToolResults(c) = [i \in DOMAIN d |-> Rendered("tool", <<d[i]>>, <<>>)]
  BY DEF TailToolResults
<1> HIDE DEF d
<1>3. ASSUME NEW i \in DOMAIN d
      PROVE  LET e == TailToolResults(c)[i]
             IN  ResultsOnly(e) /\ \A p \in DOMAIN e.content : e.content[p].id \in C
  <2> DEFINE o == <<d[i]>>
  <2>1. TailToolResults(c)[i] = Rendered("tool", o, <<>>)
    BY <1>2
  <2>2. d[i].kind = "result" /\ d[i].id \in C
    BY <1>1 DEF AnswerParts
  <2>3. o # <<>> /\ \A p \in DOMAIN o : o[p] = d[i]
    OBVIOUS
  <2> HIDE DEF o
  <2> QED  BY <2>1, <2>2, <2>3 DEF Rendered, ResultsOnly
<1>4. DOMAIN TailToolResults(c) = DOMAIN d
  BY <1>2
<1> QED  BY <1>3, <1>4 DEF AnswersTo

\* The results of a content as one entry of the user.
LEMMA PendingAnswers ==
    ASSUME NEW c \in Seq(AnyPart), NEW C, ResultsFrom(c, C)
    PROVE  /\ HasKind(c, "result") => AnswersTo(<<Rendered("user", OfKind(c, {"result"}), <<>>)>>, C)
           /\ AnswersTo(EntryIfAny("user", OfKind(c, {"result"})), C)
<1> DEFINE d == OfKind(c, {"result"})
           o == <<Rendered("user", d, <<>>)>>
<1>1. \A i \in DOMAIN d : d[i] \in AnswerParts(C)
  BY PickedAnswers
<1>2. HasKind(c, "result") => d # <<>>
  <2>1. ASSUME NEW i \in DOMAIN c, c[i].kind = "result"
        PROVE  d # <<>>
    <3>1. \E j \in DOMAIN OfKind(c, {"result"}) : OfKind(c, {"result"})[j] = c[i]
      BY <2>1, PickedHas
    <3> QED  BY <3>1
  <2> QED  BY <2>1 DEF HasKind
<1> HIDE DEF d
<1>3. ASSUME d # <<>>
      PROVE  AnswersTo(o, C)
  <2>1. \A p \in DOMAIN d : d[p].kind = "result" /\ d[p].id \in C
    BY <1>1 DEF AnswerParts
  <2>2. ResultsOnly(Rendered("user", d, <<>>)) /\ Rendered("user", d, <<>>).content = d
    BY <1>3, <2>1 DEF Rendered, ResultsOnly
  <2>3. \A i \in DOMAIN o : o[i] = Rendered("user", d, <<>>)
    OBVIOUS
  <2> HIDE DEF o
  <2> QED  BY <2>1, <2>2, <2>3 DEF AnswersTo
<1>4. AnswersTo(EntryIfAny("user", d), C)
  <2>1. CASE d = <<>>
    BY <2>1 DEF EntryIfAny, AnswersTo
  <2>2. CASE d # <<>>
    BY <1>3, <2>2 DEF EntryIfAny
  <2> QED  BY <2>1, <2>2
<1> QED  BY <1>2, <1>3, <1>4 DEF d, o

LEMMA OneEntryNoAnswers ==
    ASSUME NEW e, \A p \in DOMAIN e.content : e.content[p].kind # "result"
    PROVE  NoAnswers(<<e>>)
<1>1. \A i \in DOMAIN <<e>> : <<e>>[i] = e
  OBVIOUS
<1> QED  BY <1>1 DEF NoAnswers

LEMMA TextNoAnswers ==
    ASSUME NEW text
    PROVE  \A p \in DOMAIN <<TextPart(text)>> : <<TextPart(text)>>[p].kind # "result"
  BY DEF TextPart, Part

LEMMA OpenAIInTurn == RendersInTurn(OpenAIEntries)
<1>1. ASSUME NEW m \in AnyMessage, m.role # "tool", ResultsFrom(m.content, CallsIn(m.content))
      PROVE  RendersWhole(OpenAIEntries, m)
  <2> DEFINE c == AsShown(m.content)
             ids == Ids(OfKind(c, {"call"}))
             e == Rendered(m.role, OpenAIContent(c), ids)
             tail == TailToolResults(c)
  <2>1. OpenAIEntries[m] = <<e>> \o tail
    BY <1>1 DEF OpenAIEntries, ToOpenAIChatCompletion
  <2>2. /\ c \in Seq(AnyPart) /\ m.role \in {"user", "system", "tool", "assistant"}
        /\ m.content \in Seq(AnyPart)
    BY AsShownIs DEF AnyMessage
  <2>3. ResultsFrom(c, CallsIn(c)) /\ CallsIn(c) = CallsIn(m.content)
    BY <1>1, <2>2, AsShownAnswers
  <2> SUFFICES ASSUME TRUE
               PROVE  \E h, r \in Seq(AnyEntry) :
                         /\ OpenAIEntries[m] = h \o r /\ NoAnswers(h) /\ CallsIn(c) \subseteq OpenIn(h)
                         /\ AnswersTo(r, CallsIn(c))
    BY <2>3 DEF RendersWhole
  <2> HIDE DEF c
  <2>4. OpenAIContent(c) \in Seq(AnyPart) /\ ids \in Seq(AnyId)
    BY <2>2, OpenAIContentMarks, CallIdsMarks
  <2>5. e \in AnyEntry /\ e.content = OpenAIContent(c) /\ e.calls = ids
    BY <2>2, <2>4, RenderedTyped
  <2>6. tail \in Seq(AnyEntry) /\ AnswersTo(tail, CallsIn(c))
    BY <2>2, <2>3, TailIs, TailAnswers
  <2>7. \A p \in DOMAIN OpenAIContent(c) : OpenAIContent(c)[p].kind # "result"
    <3>1. CASE HasKind(c, "image")
      <4>1. OpenAIContent(c) = OfKind(c, {"text", "image"})
        BY <3>1 DEF OpenAIContent
      <4>2. \A p \in DOMAIN OfKind(c, {"text", "image"}) : OfKind(c, {"text", "image"})[p].kind \in {"text", "image"}
        BY <2>2, PickedKinds
      <4> QED  BY <4>1, <4>2
    <3>2. CASE ~HasKind(c, "image")
      <4>1. OpenAIContent(c) = <<>> \/ OpenAIContent(c) = <<TextPart(Joined(Chunks(c)))>>
        BY <3>2 DEF OpenAIContent
      <4> QED  BY <4>1, TextNoAnswers
    <3> QED  BY <3>1, <3>2
  <2>8. CallsIn(c) \subseteq CallsOf(e)
    <3>1. ASSUME NEW q \in DOMAIN c, c[q].kind = "call"
          PROVE  c[q].id \in Range(ids)
      <4>3. c \in Seq(AnyPart) /\ c[q].kind \in {"call"}
        BY <2>2, <3>1
      <4>1. PICK j \in DOMAIN OfKind(c, {"call"}) : OfKind(c, {"call"})[j] = c[q]
        BY <4>3, PickedHas
      <4>2. j \in DOMAIN ids /\ ids[j] = c[q].id
        BY <4>1 DEF Ids
      <4> QED  BY <4>2 DEF Range
    <3>2. CallsIn(c) \subseteq Range(ids)
      BY <3>1 DEF CallsIn
    <3> QED  BY <2>5, <3>2 DEF CallsOf
  <2> HIDE DEF e, tail, ids
  <2>9. <<e>> \in Seq(AnyEntry) /\ NoAnswers(<<e>>) /\ CallsIn(c) \subseteq OpenIn(<<e>>)
    <3>1. \A p \in DOMAIN e.content : e.content[p].kind # "result"
      BY <2>5, <2>7
    <3>2. NoAnswers(<<e>>)
      BY <3>1, OneEntryNoAnswers
    <3> QED  BY <2>2, <2>5, <2>8, <3>2, OneEntryOpen
  <2> QED  BY <2>1, <2>6, <2>9
<1>2. ASSUME NEW m \in AnyMessage, m.role = "tool", HasKind(m.content, "result"),
             NEW C \in SUBSET AnyId, ResultsFrom(m.content, C)
      PROVE  AnswersTo(OpenAIEntries[m], C)
  <2> DEFINE c == AsShown(m.content)
             tail == TailToolResults(c)
  <2>1. c \in Seq(AnyPart) /\ ResultsFrom(c, C) /\ HasKind(c, "result")
    BY <1>2, AsShownIs, AsShownAnswers DEF AnyMessage
  <2>2. AnswersTo(tail, C)
    BY <2>1, TailAnswers
  <2>3. tail # <<>>
    <3>1. PICK i \in DOMAIN c : c[i].kind = "result"
      BY <2>1 DEF HasKind
    <3>2. \E j \in DOMAIN OfKind(c, {"result"}) : OfKind(c, {"result"})[j] = c[i]
      <4> DEFINE ks == {"result"}
      <4>1. c \in Seq(AnyPart) /\ i \in DOMAIN c /\ c[i].kind \in ks
        BY <2>1, <3>1
      <4> HIDE DEF c, tail, ks
      <4>2. \E j \in DOMAIN OfKind(c, ks) : OfKind(c, ks)[j] = c[i]
        BY <4>1, PickedHas, ZenonT(60)
      <4> QED  BY <4>2 DEF ks
    <3>3. DOMAIN tail = DOMAIN OfKind(c, {"result"})
      BY DEF TailToolResults
    <3>4. DOMAIN tail # {}
      BY <3>2, <3>3
    <3> HIDE DEF tail
    <3> QED  BY <3>4
  <2>4. OpenAIEntries[m] = tail
    BY <1>2, <2>3 DEF OpenAIEntries, ToOpenAIChatCompletion
  <2> QED  BY <2>2, <2>4
<1>3. ASSUME NEW m \in AnyMessage, m.role = "tool", ~HasKind(m.content, "result")
      PROVE  NoAnswers(OpenAIEntries[m])
  <2> DEFINE c == AsShown(m.content)
             text == Joined(Chunks(c))
             e == Rendered("tool", <<TextPart(text)>>, <<>>)
  <2>1. c \in Seq(AnyPart) /\ \A i \in DOMAIN c : c[i].kind \notin {"result"}
    <3>1. m.content \in Seq(AnyPart)
      BY DEF AnyMessage
    <3>2. c \in Seq(AnyPart) /\ ~HasKind(c, "result")
      BY <1>3, <3>1, AsShownIs, AsShownAnswers
    <3> QED  BY <3>2 DEF HasKind
  <2>2. OfKind(c, {"result"}) = <<>>
    BY <2>1, NoneOfKind
  <2>3. TailToolResults(c) = <<>>
    BY <2>2 DEF TailToolResults
  <2>4. OpenAIEntries[m] = <<e>>
    BY <1>3, <2>3 DEF OpenAIEntries, ToOpenAIChatCompletion
  <2>5. e.content = <<TextPart(text)>>
    BY DEF Rendered
  <2>6. \A p \in DOMAIN e.content : e.content[p].kind # "result"
    BY <2>5, TextNoAnswers
  <2> QED  BY <2>4, <2>6, OneEntryNoAnswers
<1> QED  BY <1>1, <1>2, <1>3, EntriesMap DEF RendersInTurn

LEMMA AnthropicInTurn == RendersInTurn(AnthropicEntries)
<1>1. ASSUME NEW m \in AnyMessage, m.role # "tool", ResultsFrom(m.content, CallsIn(m.content))
      PROVE  RendersWhole(AnthropicEntries, m)
  <2> DEFINE c == AsShown(m.content)
             role == MapRoleAnthropic(m.role)
             pending == OfKind(c, {"result"})
             blocks == OfKind(c, {"text", "image", "call"})
             x == EntryIfAny(role, blocks)
             y == EntryIfAny("user", pending)
             Alone == m.role # "user" /\ pending # <<>> /\ blocks = <<>>
  <2>1. AnthropicEntries[m] = IF Alone THEN <<Rendered("user", pending, <<>>)>> ELSE x \o y
    BY <1>1 DEF AnthropicEntries, ToAnthropicMessages
  <2>2. /\ c \in Seq(AnyPart) /\ m.role \in {"user", "system", "tool", "assistant"}
        /\ role \in {"user", "system", "tool", "assistant"}
        /\ m.content \in Seq(AnyPart)
    BY AsShownIs DEF AnyMessage, MapRoleAnthropic
  <2>3. ResultsFrom(c, CallsIn(c)) /\ CallsIn(c) = CallsIn(m.content)
    BY <1>1, <2>2, AsShownAnswers
  <2> SUFFICES ASSUME TRUE
               PROVE  \E h, r \in Seq(AnyEntry) :
                         /\ AnthropicEntries[m] = h \o r /\ NoAnswers(h) /\ CallsIn(c) \subseteq OpenIn(h)
                         /\ AnswersTo(r, CallsIn(c))
    BY <2>3 DEF RendersWhole
  <2> HIDE DEF c, role
  <2>4. ASSUME NEW q \in DOMAIN c, c[q].kind = "call"
        PROVE  \E j \in DOMAIN blocks : blocks[j] = c[q]
    <3> DEFINE ks == {"text", "image", "call"}
    <3>1. c \in Seq(AnyPart) /\ c[q].kind \in ks
      BY <2>2, <2>4
    <3> HIDE DEF ks
    <3>2. \E j \in DOMAIN OfKind(c, ks) : OfKind(c, ks)[j] = c[q]
      BY <3>1, PickedHas
    <3> QED  BY <3>2 DEF ks
  <2>5. \A i \in DOMAIN pending : pending[i] \in AnswerParts(CallsIn(c))
    BY <2>2, <2>3, PickedAnswers
  <2>6. \A p \in DOMAIN blocks : blocks[p].kind \in {"text", "image", "call"}
    BY <2>2, PickedKinds
  <2>7. pending \in Seq(AnyPart) /\ blocks \in Seq(AnyPart)
    BY <2>2, OfKindIs
  <2>8. x \in Seq(AnyEntry) /\ y \in Seq(AnyEntry)
    BY <2>2, <2>7, EntryIfAnyMarks
  <2>9. AnswersTo(y, CallsIn(c))
    BY <2>2, <2>3, PendingAnswers
  <2> HIDE DEF pending, blocks
  <2>10. ~Alone
    <3> SUFFICES ASSUME pending # <<>>, blocks = <<>>
                 PROVE  FALSE
      OBVIOUS
    <3>1. 1 \in DOMAIN pending
      BY <2>7
    <3>2. pending[1].id \in CallsIn(c)
      BY <2>5, <3>1 DEF AnswerParts
    <3>3. PICK q \in DOMAIN c : c[q].kind = "call"
      BY <3>2 DEF CallsIn
    <3> QED  BY <2>4, <3>3
  <2>11. NoAnswers(x) /\ CallsIn(c) \subseteq OpenIn(x)
    <3>1. CASE blocks = <<>>
      <4>1. x = <<>>
        BY <3>1 DEF EntryIfAny
      <4>2. CallsIn(c) = {}
        BY <2>4, <3>1 DEF CallsIn
      <4> QED  BY <4>1, <4>2 DEF NoAnswers
    <3>2. CASE blocks # <<>>
      <4> DEFINE e == Rendered(role, blocks, <<>>)
      <4>1. x = <<e>>
        BY <3>2 DEF EntryIfAny
      <4>2. e \in AnyEntry /\ e.content = blocks
        <5> DEFINE ids == <<>>
        <5>1. ids \in Seq(AnyId)
          BY EmptySeq
        <5> HIDE DEF ids
        <5>2. Rendered(role, blocks, ids) \in AnyEntry /\ Rendered(role, blocks, ids).content = blocks
          BY <2>2, <2>7, <5>1, RenderedTyped
        <5> QED  BY <5>2 DEF ids
      <4>3. CallsIn(c) \subseteq CallsOf(e)
        <5>1. ASSUME NEW q \in DOMAIN c, c[q].kind = "call"
              PROVE  c[q].id \in CallsOf(e)
          <6>1. PICK j \in DOMAIN blocks : blocks[j] = c[q]
            BY <2>4, <5>1
          <6> HIDE DEF e
          <6> QED  BY <4>2, <5>1, <6>1 DEF CallsOf
        <5> HIDE DEF e
        <5> QED  BY <5>1 DEF CallsIn
      <4> HIDE DEF e
      <4>4. \A p \in DOMAIN e.content : e.content[p].kind # "result"
        BY <2>6, <4>2
      <4> HIDE DEF x
      <4> QED  BY <2>2, <4>1, <4>2, <4>3, <4>4, OneEntryOpen, OneEntryNoAnswers
    <3> QED  BY <3>1, <3>2
  <2> HIDE DEF x, y, Alone
  <2> QED  BY <2>1, <2>8, <2>9, <2>10, <2>11
<1>2. ASSUME NEW m \in AnyMessage, m.role = "tool", HasKind(m.content, "result"),
             NEW C \in SUBSET AnyId, ResultsFrom(m.content, C)
      PROVE  AnswersTo(AnthropicEntries[m], C)
  <2>1. AnthropicEntries[m] = <<Rendered("user", OfKind(AsShown(m.content), {"result"}), <<>>)>>
    BY <1>2 DEF AnthropicEntries, ToAnthropicMessages
  <2>2. m.content \in Seq(AnyPart)
    BY DEF AnyMessage
  <2> DEFINE c == AsShown(m.content)
  <2>3. c \in Seq(AnyPart) /\ ResultsFrom(c, C) /\ HasKind(c, "result")
    BY <1>2, <2>2, AsShownIs, AsShownAnswers
  <2> HIDE DEF c
  <2>4. AnswersTo(<<Rendered("user", OfKind(c, {"result"}), <<>>)>>, C)
    BY <2>3, PendingAnswers
  <2> QED  BY <2>1, <2>4 DEF c
<1>3. ASSUME NEW m \in AnyMessage, m.role = "tool", ~HasKind(m.content, "result")
      PROVE  NoAnswers(AnthropicEntries[m])
  <2> DEFINE c == AsShown(m.content)
             e == Rendered("user", <<>>, <<>>)
  <2>1. c \in Seq(AnyPart) /\ \A i \in DOMAIN c : c[i].kind \notin {"result"}
    <3>1. m.content \in Seq(AnyPart)
      BY DEF AnyMessage
    <3>2. c \in Seq(AnyPart) /\ ~HasKind(c, "result")
      BY <1>3, <3>1, AsShownIs, AsShownAnswers
    <3> QED  BY <3>2 DEF HasKind
  <2>2. OfKind(c, {"result"}) = <<>>
    BY <2>1, NoneOfKind
  <2>3. AnthropicEntries[m] = <<e>>
    BY <1>3, <2>2 DEF AnthropicEntries, ToAnthropicMessages
  <2>4. \A p \in DOMAIN e.content : e.content[p].kind # "result"
    BY DEF Rendered
  <2> QED  BY <2>3, <2>4, OneEntryNoAnswers
<1> QED  BY <1>1, <1>2, <1>3, EntriesMap DEF RendersInTurn

\* An adapter that renders every message that way keeps the results of a thread with
\* their calls; what is open in the thread is open in what it is rendered as.
InTurnSoFar(F, t) ==
    AnswersInTurn(t) => AnsweredInTurn(FlatMap(F, t)) /\ OpenCalls(t) \subseteq OpenIn(FlatMap(F, t))

LEMMA InTurnMore ==
    ASSUME NEW F, RendersInTurn(F), NEW t \in Seq(AnyMessage), NEW m \in AnyMessage, InTurnSoFar(F, t)
    PROVE  InTurnSoFar(F, Append(t, m))
<1> DEFINE w == Append(t, m)
           e == FlatMap(F, t)
           c == m.content
<1> SUFFICES ASSUME AnswersInTurn(w)
             PROVE  AnsweredInTurn(FlatMap(F, w)) /\ OpenCalls(w) \subseteq OpenIn(FlatMap(F, w))
  BY DEF InTurnSoFar
<1>1. MapsInto(F, AnyMessage, Seq(AnyEntry)) /\ F[m] \in Seq(AnyEntry)
  BY DEF RendersInTurn, MapsInto
<1>2. FlatMap(F, w) = e \o F[m] /\ e \in Seq(AnyEntry)
  BY <1>1, FlatMapMore, FlatMapTyped
<1>3. AnsweredInTurn(e) /\ OpenCalls(t) \subseteq OpenIn(e)
  BY MoreAnswers DEF InTurnSoFar
<1>4. /\ m.role # "tool" => OpenCalls(w) \subseteq CallsIn(c) /\ ResultsFrom(c, CallsIn(c))
      /\ m.role = "tool" => OpenCalls(w) \subseteq OpenCalls(t) /\ ResultsFrom(c, OpenCalls(t))
      /\ m.role = "tool" /\ ~HasKind(c, "result") => OpenCalls(w) = {}
  BY MoreAnswers, MoreOpen
<1> HIDE DEF w, e, c
<1>5. CASE m.role # "tool"
  <2>1. RendersWhole(F, m)
    BY <1>4, <1>5 DEF RendersInTurn, c
  <2>2. PICK h, r \in Seq(AnyEntry) :
           /\ F[m] = h \o r /\ NoAnswers(h) /\ CallsIn(c) \subseteq OpenIn(h) /\ AnswersTo(r, CallsIn(c))
    BY <2>1 DEF RendersWhole, c
  <2> DEFINE f == e \o h
  <2>3. f \in Seq(AnyEntry) /\ e \o (h \o r) = f \o r
    <3>1. e \in Seq(AnyEntry) /\ h \in Seq(AnyEntry) /\ r \in Seq(AnyEntry)
      BY <1>2, <2>2
    <3>2. Regroups(e, h, r)
      BY <3>1, CatRegroups
    <3>3. e \o h \in Seq(AnyEntry)
      BY <3>1, ConcatProperties
    <3> QED  BY <3>2, <3>3 DEF Regroups
  <2>4. AnsweredInTurn(f)
    BY <1>2, <1>3, <2>2, NoAnswersCat
  <2>5. CallsIn(c) \subseteq OpenIn(f)
    BY <1>2, <2>2, OpenCat
  <2> HIDE DEF f
  <2>6. AnsweredInTurn(f \o r) /\ CallsIn(c) \subseteq OpenIn(f \o r)
    BY <2>2, <2>3, <2>4, <2>5, AnswersCat
  <2>7. FlatMap(F, w) = f \o r
    BY <1>2, <2>2, <2>3
  <2> QED  BY <1>4, <1>5, <2>6, <2>7
<1>6. CASE m.role = "tool" /\ HasKind(c, "result")
  <2>1. OpenCalls(t) \in SUBSET AnyId
    BY DEF OpenCalls
  <2>2. AnswersTo(F[m], OpenCalls(t))
    BY <1>4, <1>6, <2>1 DEF RendersInTurn, c
  <2>3. AnsweredInTurn(e \o F[m]) /\ OpenCalls(t) \subseteq OpenIn(e \o F[m])
    BY <1>1, <1>2, <1>3, <2>2, AnswersCat
  <2> QED  BY <1>2, <1>4, <1>6, <2>3
<1>7. CASE m.role = "tool" /\ ~HasKind(c, "result")
  <2>1. NoAnswers(F[m])
    BY <1>7 DEF RendersInTurn, c
  <2>2. AnsweredInTurn(e \o F[m])
    BY <1>1, <1>2, <1>3, <2>1, NoAnswersCat
  <2> QED  BY <1>2, <1>4, <1>7, <2>2
<1> QED  BY <1>5, <1>6, <1>7

LEMMA InTurn ==
    ASSUME NEW F, RendersInTurn(F), NEW t \in Seq(AnyMessage), AnswersInTurn(t)
    PROVE  AnsweredInTurn(FlatMap(F, t))
<1> DEFINE Q == {u \in Seq(AnyMessage) : InTurnSoFar(F, u)}
<1>1. <<>> \in Q
  <2>1. FlatMap(F, <<>>) = <<>>
    BY FlatMapEmpty
  <2>2. AnsweredInTurn(<<>>)
    BY DEF AnsweredInTurn
  <2>3. OpenCalls(<<>>) = {}
    BY DEF OpenCalls
  <2>4. InTurnSoFar(F, <<>>)
    BY <2>1, <2>2, <2>3 DEF InTurnSoFar
  <2> QED  BY <2>4, EmptySeq
<1>2. ASSUME NEW u \in Seq(AnyMessage), NEW m \in AnyMessage, u \in Q
      PROVE  Append(u, m) \in Q
  <2>1. InTurnSoFar(F, u)
    BY <1>2
  <2>2. InTurnSoFar(F, Append(u, m))
    BY <2>1, InTurnMore
  <2>3. Append(u, m) \in Seq(AnyMessage)
    BY ThreadMore
  <2> QED  BY <2>2, <2>3
<1>3. Seq(AnyMessage) \subseteq Q
  <2> HIDE DEF Q
  <2> QED  BY <1>1, <1>2, SeqInduction
<1>4. InTurnSoFar(F, t)
  BY <1>3
<1> QED  BY <1>4 DEF InTurnSoFar

\* "tool results are split into role:tool entries" (adapters.py:14-15), "a separate user
\* entry (Anthropic's convention)" (adapters.py:293-295): of every thread and every
\* persisted turn that has each result after its call, splitting them off puts
\* nothing between a call and its result, for either adapter.
THEOREM ProvidersAnswer == CoworkSpec => []ProvidersAnswerInTurn
<1>1. CoworkInit => LCInv
  BY CoworkIsReady, LCInvInit
<1>2. LCInv /\ [CoworkNext]_coworkVars => LCInv'
  BY CoworkSteps, LCInvNext
<1>3. LCInv => ProvidersAnswerInTurn
  <2> SUFFICES ASSUME LCInv, ThreadAnswersInTurn
               PROVE  AnsweredInTurn(OpenAIThread) /\ AnsweredInTurn(AnthropicThread)
    BY DEF ProvidersAnswerInTurn
  <2>1. thread \in Seq(AnyMessage) /\ AnswersInTurn(thread)
    BY ThreadAnswers DEF LCInv, LCTypes
  <2>2. /\ AnsweredInTurn(FlatMap(OpenAIEntries, thread))
        /\ AnsweredInTurn(FlatMap(AnthropicEntries, thread))
    BY <2>1, OpenAIInTurn, AnthropicInTurn, InTurn
  <2> QED  BY <2>1, <2>2, ThreadsAre
<1> QED  BY <1>1, <1>2, <1>3, PTL DEF CoworkSpec
================================================================================
