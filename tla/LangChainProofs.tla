---------------------------- MODULE LangChainProofs ----------------------------
(***************************************************************************)
(* What the LangChain adapter keeps, for every thread and every history.   *)
(***************************************************************************)
EXTENDS LangChainSplit, SequenceFacts

----------------------------------------------------------------------------
(* The operators on contents as maps.                                      *)

Keeper(A, P) == [x \in A |-> IF x \in P THEN <<x>> ELSE <<>>]

LEMMA KeeperMaps ==
    ASSUME NEW A, NEW P
    PROVE  MapsInto(Keeper(A, P), A, Seq(A)) /\ MapsInto(Keeper(A, P), A, Seq(A \cap P))
<1>1. \A x \in A : <<x>> \in Seq(A) /\ (x \in P => <<x>> \in Seq(A \cap P))
  OBVIOUS
<1>2. <<>> \in Seq(A) /\ <<>> \in Seq(A \cap P)
  BY EmptySeq
<1> QED  BY <1>1, <1>2 DEF Keeper, MapsInto

ChosenBy(s, I, P) == \A i \in DOMAIN s : i \in I <=> s[i] \in P

LEMMA KeptIs ==
    ASSUME NEW A, NEW s \in Seq(A), NEW I, NEW P, ChosenBy(s, I, P)
    PROVE  /\ Kept(s, I) = FlatMap(Keeper(A, P), s)
           /\ Kept(s, I) \in Seq(A)
           /\ Kept(s, I) \in Seq(A \cap P)
<1>1. \A i \in DOMAIN s : s[i] \in A
  BY LenProperties, ElementOfSeq
<1>2. \A i \in DOMAIN s : (IF i \in I THEN <<s[i]>> ELSE <<>>) = Keeper(A, P)[s[i]]
  BY <1>1 DEF ChosenBy, Keeper
<1>3. [i \in DOMAIN s |-> IF i \in I THEN <<s[i]>> ELSE <<>>] = Mapped(Keeper(A, P), s)
  BY <1>2 DEF Mapped
<1>4. Kept(s, I) = FlatMap(Keeper(A, P), s)
  BY <1>3 DEF Kept, FlatMap
<1>5. MapsInto(Keeper(A, P), A, Seq(A)) /\ MapsInto(Keeper(A, P), A, Seq(A \cap P))
  BY KeeperMaps
<1>6. FlatMap(Keeper(A, P), s) \in Seq(A)
  BY <1>5, FlatMapTyped
<1>7. FlatMap(Keeper(A, P), s) \in Seq(A \cap P)
  BY <1>5, FlatMapTyped
<1> QED  BY <1>4, <1>6, <1>7

Kinds(kinds) == {p \in AnyPart : p.kind \in kinds}

LEMMA OfKindIs ==
    ASSUME NEW content \in Seq(AnyPart), NEW kinds
    PROVE  /\ OfKind(content, kinds) = FlatMap(Keeper(AnyPart, Kinds(kinds)), content)
           /\ OfKind(content, kinds) \in Seq(AnyPart)
           /\ OfKind(content, kinds) \in Seq(AnyPart \cap Kinds(kinds))
<1> DEFINE I == {i \in DOMAIN content : content[i].kind \in kinds}
<1>1. \A i \in DOMAIN content : content[i] \in AnyPart
  BY LenProperties, ElementOfSeq
<1>2. ChosenBy(content, I, Kinds(kinds))
  BY <1>1 DEF ChosenBy, Kinds
<1>3. OfKind(content, kinds) = Kept(content, I)
  BY DEF OfKind
<1> HIDE DEF I
<1> QED  BY <1>2, <1>3, KeptIs

TextOf == [p \in AnyPart |-> p.text]

LEMMA TextOfMaps == MapsInto(TextOf, AnyPart, Seq(Token))
  BY DEF TextOf, MapsInto, AnyPart

LEMMA JoinedIs ==
    ASSUME NEW content \in Seq(AnyPart)
    PROVE  Joined(content) = FlatMap(TextOf, content) /\ Joined(content) \in Seq(Token)
<1>1. \A i \in DOMAIN content : content[i] \in AnyPart
  BY LenProperties, ElementOfSeq
<1>2. [i \in DOMAIN content |-> content[i].text] = Mapped(TextOf, content)
  BY <1>1 DEF Mapped, TextOf
<1>3. Joined(content) = FlatMap(TextOf, content)
  BY <1>2 DEF Joined, FlatMap
<1> QED  BY <1>3, TextOfMaps, FlatMapTyped

LEMMA TextPartTyped ==
    ASSUME NEW text \in Seq(Token)
    PROVE  TextPart(text) \in AnyPart /\ <<TextPart(text)>> \in Seq(AnyPart)
<1>1. "text" \in Kind
  BY GivenAssumption
<1>2. TextPart(text) = [kind |-> "text", id |-> None, text |-> text, form |-> "text"]
  BY DEF TextPart, Part
<1>3. TextPart(text) \in AnyPart
  BY <1>1, <1>2 DEF AnyPart
<1> QED  BY <1>3

LEMMA FileMarkTyped == <<FileMark>> \in Seq(Token)
  BY GivenAssumption

\* The list of the same element, once for each of s.
LEMMA ConstantTyped ==
    ASSUME NEW A, NEW B, NEW s \in Seq(A), NEW x \in B
    PROVE  [i \in DOMAIN s |-> x] \in Seq(B)
<1>1. Len(s) \in Nat /\ DOMAIN s = 1..Len(s)
  BY LenProperties
<1> DEFINE f == [i \in DOMAIN s |-> x]
<1>2. f \in [1..Len(s) -> B]
  BY <1>1
<1> HIDE DEF f
<1>3. f \in Seq(B)
  BY <1>1, <1>2, SeqDef
<1> QED  BY <1>3 DEF f

LEMMA GatherTextTyped ==
    ASSUME NEW content \in Seq(AnyPart)
    PROVE  GatherText(content) \in Seq(Token)
  BY OfKindIs, JoinedIs DEF GatherText

LEMMA FilesTyped ==
    ASSUME NEW content \in Seq(AnyPart)
    PROVE  Files(content) \in Seq(Token)
<1>1. [i \in DOMAIN OfKind(content, {"file"}) |-> TextPart(<<FileMark>>)] \in Seq(AnyPart)
  BY OfKindIs, FileMarkTyped, TextPartTyped, ConstantTyped
<1> QED  BY <1>1, JoinedIs DEF Files

\* A file block is rendered as a text.
ShownBlock == [p \in AnyPart |-> IF p.kind = "file" THEN TextPart(<<FileMark>>) ELSE p]

LEMMA RenderedMaps == MapsInto(ShownBlock, AnyPart, AnyPart)
  BY FileMarkTyped, TextPartTyped DEF ShownBlock, MapsInto

BlockShown == {p \in AnyPart : \/ p.kind \in {"image", "file"}
                               \/ p.kind = "text" /\ p.text # <<>>}

LEMMA BlocksAre ==
    ASSUME NEW content \in Seq(AnyPart), HasKind(content, "image")
    PROVE  LET shown == FlatMap(Keeper(AnyPart, BlockShown), content)
           IN  /\ shown \in Seq(AnyPart \cap BlockShown) /\ shown \in Seq(AnyPart)
               /\ UserContentToLC(content) = Mapped(ShownBlock, shown)
<1> DEFINE I == {i \in DOMAIN content : \/ content[i].kind \in {"image", "file"}
                                        \/ content[i].kind = "text" /\ content[i].text # <<>>}
           shown == FlatMap(Keeper(AnyPart, BlockShown), content)
           kept == Kept(content, I)
<1>1. \A i \in DOMAIN content : content[i] \in AnyPart
  BY LenProperties, ElementOfSeq
<1>2. ChosenBy(content, I, BlockShown)
  BY <1>1 DEF ChosenBy, BlockShown
<1>3. UserContentToLC(content) =
         [i \in DOMAIN kept |-> IF kept[i].kind = "file" THEN TextPart(<<FileMark>>) ELSE kept[i]]
  BY DEF UserContentToLC
<1> HIDE DEF I
<1>4. kept = shown /\ kept \in Seq(AnyPart) /\ kept \in Seq(AnyPart \cap BlockShown)
  BY <1>2, KeptIs
<1> HIDE DEF kept, shown
<1>5. \A i \in DOMAIN kept : kept[i] \in AnyPart
  BY <1>4, LenProperties, ElementOfSeq
<1>6. UserContentToLC(content) = Mapped(ShownBlock, kept)
  BY <1>3, <1>5 DEF Mapped, ShownBlock
<1> QED  BY <1>4, <1>6 DEF shown

LEMMA HumanTyped ==
    ASSUME NEW content \in Seq(AnyPart)
    PROVE  Human(UserContentToLC(content)) \in AnyLC
<1> DEFINE c == UserContentToLC(content)
           m == Human(c)
<1>1. m.type = "human" /\ m.content = c /\ m.calls = <<>> /\ m.call_id = None
  BY DEF Human
<1>2. ASSUME c \in Seq(AnyPart)
      PROVE  m \in [type : {"human", "other", "system", "ai", "tool"}, content : Seq(AnyPart),
                    calls : Seq(Id \cup {None}), call_id : Id \cup {None}]
  BY <1>2, EmptySeq DEF Human
<1>3. CASE ~HasKind(content, "image")
  <2> DEFINE t == GatherText(content) \o Files(content)
  <2>1. c = <<TextPart(t)>>
    BY <1>3 DEF UserContentToLC
  <2>2. t \in Seq(Token)
    BY GatherTextTyped, FilesTyped, ConcatProperties
  <2> HIDE DEF t
  <2>3. c \in Seq(AnyPart)
    BY <2>1, <2>2, TextPartTyped
  <2>4. DOMAIN c = {1} /\ c[1].kind = "text" /\ c[1].text = t
    BY <2>1 DEF TextPart, Part
  <2>5. ~HasKind(c, "image")
    BY <2>4 DEF HasKind
  <2> HIDE DEF c, m
  <2>6. c[1].text = t
    BY <2>4
  <2>7. m \in AnyLC
    BY <1>1, <1>2, <2>1, <2>3, <2>5, <2>6 DEF AnyLC
  <2> QED  BY <2>7 DEF c, m
<1>4. CASE HasKind(content, "image")
  <2> DEFINE shown == FlatMap(Keeper(AnyPart, BlockShown), content)
  <2>1. /\ shown \in Seq(AnyPart \cap BlockShown) /\ shown \in Seq(AnyPart)
        /\ c = Mapped(ShownBlock, shown)
    BY <1>4, BlocksAre
  <2>2. PICK i \in 1..Len(content) : content[i].kind = "image"
    BY <1>4, LenProperties DEF HasKind
  <2>3. content[i] \in AnyPart
    BY ElementOfSeq
  <2>4. Keeper(AnyPart, BlockShown)[content[i]] = <<content[i]>>
    BY <2>2, <2>3 DEF Keeper, BlockShown
  <2>5. \E j \in 1..Len(shown) : shown[j] = content[i]
    <3> DEFINE F == Keeper(AnyPart, BlockShown)
    <3>1. MapsInto(F, AnyPart, Seq(AnyPart)) /\ F[content[i]] = <<content[i]>>
      BY <2>4, KeeperMaps
    <3> HIDE DEF F
    <3>2. \E j \in 1..Len(FlatMap(F, content)) : FlatMap(F, content)[j] = content[i]
      BY <2>3, <3>1, FlatMapHas
    <3> QED  BY <3>2 DEF F
  <2> HIDE DEF shown
  <2>6. /\ c \in Seq(AnyPart) /\ Len(c) = Len(shown) /\ Len(shown) \in Nat
        /\ \A j \in 1..Len(shown) : c[j] = ShownBlock[shown[j]]
    BY <2>1, RenderedMaps, MapTyped, LenProperties
  <2>7. \A j \in 1..Len(shown) : shown[j] \in AnyPart \cap BlockShown
    BY <2>1, ElementOfSeq
  <2> HIDE DEF c
  <2>8. DOMAIN c = 1..Len(shown)
    BY <2>6, LenProperties
  <2>9. HasKind(c, "image")
    BY <2>2, <2>5, <2>6, <2>7, <2>8 DEF HasKind, ShownBlock
  <2>10. \A j \in DOMAIN c : c[j].kind = "image" \/ (c[j].kind = "text" /\ c[j].text # <<>>)
    <3>1. TextPart(<<FileMark>>).kind = "text" /\ TextPart(<<FileMark>>).text # <<>>
      <4>1. TextPart(<<FileMark>>).text = <<FileMark>>
        BY DEF TextPart, Part
      <4>2. <<FileMark>> # <<>>
        OBVIOUS
      <4> QED  BY <4>1, <4>2 DEF TextPart, Part
    <3> QED  BY <2>6, <2>7, <2>8, <3>1, ZenonT(60) DEF ShownBlock, BlockShown
  <2> HIDE DEF m
  <2>11. m \in AnyLC
    BY <1>1, <1>2, <2>6, <2>9, <2>10 DEF AnyLC
  <2> QED  BY <2>11 DEF c, m
<1> QED  BY <1>3, <1>4

----------------------------------------------------------------------------
(* The messages made have their types.                                     *)

AnyTool == {m \in AnyLC : m.type = "tool"}
AnyId == Id \cup {None}

OneText(text) == <<TextPart(text)>>

LEMMA OneTextIs ==
    ASSUME NEW text \in Seq(Token)
    PROVE  /\ OneText(text) \in Seq(AnyPart)
           /\ OneText(text) = <<TextPart(OneText(text)[1].text)>>
           /\ ~HasKind(OneText(text), "image")
<1>1. OneText(text) \in Seq(AnyPart)
  BY TextPartTyped DEF OneText
<1>2. OneText(text)[1] = TextPart(text) /\ DOMAIN OneText(text) = {1}
  BY DEF OneText
<1>3. TextPart(text).text = text /\ TextPart(text).kind = "text"
  BY DEF TextPart, Part
<1>4. ~HasKind(OneText(text), "image")
  BY <1>2, <1>3 DEF HasKind
<1> QED  BY <1>1, <1>2, <1>3, <1>4 DEF OneText

\* A message of one text.
LEMMA TextMessageTyped ==
    ASSUME NEW type \in {"human", "other", "system", "ai", "tool"}, NEW text \in Seq(Token),
           NEW ids \in Seq(AnyId), NEW id \in AnyId,
           type # "ai" => ids = <<>>, type # "tool" => id = None
    PROVE  [type |-> type, content |-> OneText(text), calls |-> ids, call_id |-> id] \in AnyLC
<1> DEFINE c == OneText(text)
           m == [type |-> type, content |-> c, calls |-> ids, call_id |-> id]
<1>1. c \in Seq(AnyPart) /\ c = <<TextPart(c[1].text)>> /\ ~HasKind(c, "image")
  BY OneTextIs
<1> HIDE DEF c
<1>2. m \in [type : {"human", "other", "system", "ai", "tool"}, content : Seq(AnyPart),
             calls : Seq(Id \cup {None}), call_id : Id \cup {None}]
  BY <1>1 DEF AnyId
<1>3. m.type = type /\ m.content = c /\ m.calls = ids /\ m.call_id = id
  OBVIOUS
<1> HIDE DEF m
<1>4. m \in AnyLC
  BY <1>1, <1>2, <1>3 DEF AnyLC
<1> QED  BY <1>4 DEF m, c

LEMMA AITyped ==
    ASSUME NEW text \in Seq(Token), NEW ids \in Seq(AnyId)
    PROVE  AI(text, ids) \in AnyLC
<1>1. [type |-> "ai", content |-> OneText(text), calls |-> ids, call_id |-> None] \in AnyLC
  BY TextMessageTyped DEF AnyId
<1> QED  BY <1>1 DEF AI, OneText

LEMMA SystemTyped ==
    ASSUME NEW text \in Seq(Token)
    PROVE  System(<<TextPart(text)>>) \in AnyLC
<1>1. <<>> \in Seq(AnyId)
  BY EmptySeq
<1>2. [type |-> "system", content |-> OneText(text), calls |-> <<>>, call_id |-> None] \in AnyLC
  BY <1>1, TextMessageTyped DEF AnyId
<1> QED  BY <1>2 DEF System, OneText

LEMMA ToolTyped ==
    ASSUME NEW part \in AnyPart
    PROVE  /\ ToolResultToLC(part) \in AnyTool /\ ToolResultToLC(part) \in AnyLC
           /\ ToolResultToLC(part).type = "tool" /\ ToolResultToLC(part).call_id = part.id
<1>1. <<>> \in Seq(AnyId)
  BY EmptySeq
<1>2. part.id \in AnyId /\ ResultText(part) \in Seq(Token)
  BY EmptySeq DEF AnyPart, AnyId, ResultText
<1>3. [type |-> "tool", content |-> OneText(ResultText(part)), calls |-> <<>>, call_id |-> part.id] \in AnyLC
  BY <1>1, <1>2, TextMessageTyped
<1>4. ToolResultToLC(part) =
         [type |-> "tool", content |-> OneText(ResultText(part)), calls |-> <<>>, call_id |-> part.id]
  BY DEF ToolResultToLC, Tool, OneText
<1> QED  BY <1>3, <1>4 DEF AnyTool

Answer == [p \in AnyPart |-> ToolResultToLC(p)]

LEMMA AnswerMaps == MapsInto(Answer, AnyPart, AnyTool) /\ MapsInto(Answer, AnyPart, AnyLC)
  BY ToolTyped DEF MapsInto, Answer

LEMMA AnswersAre ==
    ASSUME NEW content \in Seq(AnyPart)
    PROVE  LET answers == OfKind(content, {"result"})
           IN  /\ [i \in DOMAIN answers |-> ToolResultToLC(answers[i])] = Mapped(Answer, answers)
               /\ Mapped(Answer, answers) \in Seq(AnyLC)
<1> DEFINE answers == OfKind(content, {"result"})
<1>1. answers \in Seq(AnyPart)
  BY OfKindIs
<1> HIDE DEF answers
<1>2. \A i \in DOMAIN answers : answers[i] \in AnyPart
  BY <1>1, LenProperties, ElementOfSeq
<1>3. [i \in DOMAIN answers |-> ToolResultToLC(answers[i])] = Mapped(Answer, answers)
  BY <1>2 DEF Mapped, Answer
<1>4. Mapped(Answer, answers) \in Seq(AnyLC)
  BY <1>1, AnswerMaps, MapTyped
<1> QED  BY <1>3, <1>4 DEF answers

LEMMA ToLCTyped ==
    ASSUME NEW msg \in AnyMessage, ~Walked(msg)
    PROVE  ToLC(msg) \in Seq(AnyLC)
<1>0. msg.content \in Seq(AnyPart) /\ msg.role \in {"user", "system", "tool", "assistant"}
  BY DEF AnyMessage
<1>1. CASE IsFeedbackOnly(msg)
  BY <1>1, EmptySeq DEF ToLC
<1>2. CASE ~IsFeedbackOnly(msg) /\ msg.role = "user"
  <2>1. ToLC(msg) = <<Human(UserContentToLC(msg.content))>>
    BY <1>2 DEF ToLC
  <2>2. Human(UserContentToLC(msg.content)) \in AnyLC
    BY <1>0, HumanTyped
  <2> QED  BY <2>1, <2>2
<1>3. CASE ~IsFeedbackOnly(msg) /\ msg.role = "system"
  <2>1. ToLC(msg) = <<System(<<TextPart(GatherText(msg.content))>>)>>
    BY <1>3 DEF ToLC
  <2>2. System(<<TextPart(GatherText(msg.content))>>) \in AnyLC
    BY <1>0, GatherTextTyped, SystemTyped
  <2> QED  BY <2>1, <2>2
<1>4. CASE ~IsFeedbackOnly(msg) /\ msg.role = "tool"
  <2> DEFINE answers == OfKind(msg.content, {"result"})
  <2>1. ToLC(msg) = [i \in DOMAIN answers |-> ToolResultToLC(answers[i])]
    BY <1>4 DEF ToLC
  <2> QED  BY <1>0, <2>1, AnswersAre
<1> QED  BY <1>0, <1>1, <1>2, <1>3, <1>4 DEF Walked

LEMMA GroupTyped ==
    ASSUME texts \in Seq(Seq(Token)), calls \in Seq(AnyId), results \in Seq(AnyTool)
    PROVE  Group \in Seq(AnyLC) /\ <<AI(FlattenSeq(texts), calls)>> \o results \in Seq(AnyLC)
<1>1. AI(FlattenSeq(texts), calls) \in AnyLC
  BY FlattenTyped, AITyped
<1>2. <<AI(FlattenSeq(texts), calls)>> \in Seq(AnyLC)
  BY <1>1
<1>3. results \in Seq(AnyLC)
  <2>1. AnyTool \subseteq AnyLC
    BY DEF AnyTool
  <2> QED  BY <2>1, SeqMonotonic
<1>4. <<AI(FlattenSeq(texts), calls)>> \o results \in Seq(AnyLC)
  BY <1>2, <1>3, ConcatProperties
<1> QED  BY <1>4, EmptySeq DEF Group

----------------------------------------------------------------------------
(* The messages that come back have their types.                           *)

LEMMA TextIfAnyTyped ==
    ASSUME NEW text \in Seq(Token)
    PROVE  TextIfAny(text) \in Seq(AnyPart)
  BY TextPartTyped, EmptySeq DEF TextIfAny

CallPart == [id \in AnyId |-> Part("call", Named(id), <<>>)]

LEMMA NamedTyped ==
    ASSUME NEW id \in AnyId
    PROVE  /\ Named(id) \in Id /\ Named(id) \in AnyId /\ Named(id) # FileMark
           /\ Named(Named(id)) = Named(id) /\ CallMark(Named(id)) = CallMark(id)
  BY GivenAssumption DEF AnyId, Named, CallMark

LEMMA CallPartMaps == MapsInto(CallPart, AnyId, AnyPart)
<1>1. "call" \in Kind /\ <<>> \in Seq(Token)
  BY GivenAssumption, EmptySeq
<1>2. \A id \in AnyId : Named(id) \in Id
  BY NamedTyped
<1> QED  BY <1>1, <1>2 DEF CallPart, MapsInto, Part, AnyPart

LEMMA CallPartsAre ==
    ASSUME NEW ids \in Seq(AnyId)
    PROVE  /\ [i \in DOMAIN ids |-> Part("call", Named(ids[i]), <<>>)] = Mapped(CallPart, ids)
           /\ Mapped(CallPart, ids) \in Seq(AnyPart)
<1>1. \A i \in DOMAIN ids : ids[i] \in AnyId
  BY LenProperties, ElementOfSeq
<1>2. [i \in DOMAIN ids |-> Part("call", Named(ids[i]), <<>>)] = Mapped(CallPart, ids)
  BY <1>1 DEF Mapped, CallPart
<1> QED  BY <1>2, CallPartMaps, MapTyped

LEMMA MessageTyped ==
    ASSUME NEW role \in {"user", "system", "tool", "assistant"}, NEW content \in Seq(AnyPart)
    PROVE  /\ Message(role, content) \in AnyMessage
           /\ Message(role, content).role = role /\ Message(role, content).content = content
  BY DEF Message, AnyMessage

\* What one LangChain message comes back as, the assistant's and the tool's without
\* what they are joined to.
FromLCTurn(m) == TextIfAny(Joined(m.content)) \o Mapped(CallPart, m.calls)
FromLCResult(m) == ToolResultFromLC(m)
FromLCOne(m) ==
    IF m.type = "human" THEN Message("user", UserContentFromLC(m.content))
    ELSE IF m.type = "system" THEN Message("system", TextIfAny(Joined(m.content)))
    ELSE Message("system", <<TextPart(Joined(m.content))>>)

LEMMA LCFields ==
    ASSUME NEW m \in AnyLC
    PROVE  /\ m.content \in Seq(AnyPart) /\ m.calls \in Seq(AnyId) /\ m.call_id \in AnyId
           /\ m.type \in {"human", "other", "system", "ai", "tool"}
           /\ Joined(m.content) \in Seq(Token)
<1>1. m.content \in Seq(AnyPart) /\ m.calls \in Seq(AnyId) /\ m.call_id \in AnyId
      /\ m.type \in {"human", "other", "system", "ai", "tool"}
  BY DEF AnyLC, AnyId
<1> QED  BY <1>1, JoinedIs

LEMMA FromLCTyped ==
    ASSUME NEW m \in AnyLC
    PROVE  /\ FromLCTurn(m) \in Seq(AnyPart)
           /\ FromLCResult(m) \in AnyPart
           /\ FromLCOne(m) \in AnyMessage
<1>1. m.content \in Seq(AnyPart) /\ m.calls \in Seq(AnyId) /\ m.call_id \in AnyId
      /\ Joined(m.content) \in Seq(Token)
  BY LCFields
<1>2. TextIfAny(Joined(m.content)) \in Seq(AnyPart) /\ <<TextPart(Joined(m.content))>> \in Seq(AnyPart)
  BY <1>1, TextIfAnyTyped, TextPartTyped
<1>3. FromLCTurn(m) \in Seq(AnyPart)
  <2>1. Mapped(CallPart, m.calls) \in Seq(AnyPart)
    BY <1>1, CallPartsAre
  <2> QED  BY <1>2, <2>1, ConcatProperties DEF FromLCTurn
<1>4. FromLCResult(m) \in AnyPart
  <2>1. "result" \in Kind
    BY GivenAssumption
  <2> QED  BY <1>1, <2>1 DEF FromLCResult, ToolResultFromLC, Result, Part, AnyPart, AnyId
<1>5. UserContentFromLC(m.content) \in Seq(AnyPart)
  BY <1>1, <1>2 DEF UserContentFromLC
<1>6. FromLCOne(m) \in AnyMessage
  BY <1>2, <1>5, MessageTyped DEF FromLCOne
<1> QED  BY <1>3, <1>4, <1>6

----------------------------------------------------------------------------
(* The types of the state, and what is empty when.                         *)

LCTypes ==
    /\ thread \in Seq(AnyMessage) /\ todo \in Seq(AnyMessage)
    /\ prior \in Seq(AnyLC) /\ lc \in Seq(AnyLC)
    /\ before = None \/ before \in Seq(AnyLC)
    /\ parts = None \/ parts \in Seq(AnyPart)
    /\ texts \in Seq(Seq(Token)) /\ calls \in Seq(AnyId) /\ results \in Seq(AnyTool)
    /\ lastWasToolResult \in BOOLEAN
    /\ back \in 0..Len(lc)
    /\ pendingAssistant = None \/ pendingAssistant \in AnyMessage
    /\ out \in Seq(AnyMessage)

\* The lists of the walk are empty between two messages, the tool messages of the group
\* are what lastWasToolResult says, and nothing comes back before all is converted.
LCPhases ==
    /\ parts = None => texts = <<>> /\ calls = <<>> /\ results = <<>>
    /\ parts # None => (lastWasToolResult <=> results # <<>>)
    /\ ~Converted => back = 0 /\ pendingAssistant = None /\ out = <<>>
    /\ pendingAssistant # None => pendingAssistant.role = "assistant"

LCInv == LCTypes /\ LCPhases

LEMMA NoneIsNone ==
    /\ \A s \in Seq(AnyPart) : s # None
    /\ \A s \in AnyMessage : s # None
    /\ \A s \in Seq(AnyLC) : s # None
  BY GivenAssumption

\* A conversion that is about to start, of whatever thread after whatever list.
LCReady ==
    /\ thread \in Seq(AnyMessage) /\ todo = thread
    /\ prior \in Seq(AnyLC) /\ lc = prior /\ before = None
    /\ parts = None /\ texts = <<>> /\ calls = <<>> /\ results = <<>>
    /\ lastWasToolResult = FALSE /\ sawAnyEmit = FALSE
    /\ back = 0 /\ pendingAssistant = None /\ out = <<>>

LEMMA StartIsReady ==
    ASSUME NEW g, g.thread \in Seq(AnyMessage), g.prior \in Seq(AnyLC), LCStart(g)
    PROVE  LCReady
  BY DEF LCStart, LCReady

LEMMA GivenIsReady == LCInit => LCReady
  BY GivenAssumption, StartIsReady DEF LCInit

LEMMA LCInvInit == LCReady => LCInv
<1> SUFFICES ASSUME LCReady
             PROVE  LCInv
  OBVIOUS
<1>1. Len(prior) \in Nat
  BY LenProperties DEF LCReady
<1>2. texts \in Seq(Seq(Token)) /\ calls \in Seq(AnyId) /\ results \in Seq(AnyTool) /\ out \in Seq(AnyMessage)
  BY EmptySeq DEF LCReady
<1>3. LCTypes
  <2>1. back \in 0..Len(lc) /\ thread \in Seq(AnyMessage) /\ todo \in Seq(AnyMessage)
        /\ prior \in Seq(AnyLC) /\ lc \in Seq(AnyLC)
    BY <1>1 DEF LCReady
  <2>2. before = None /\ parts = None /\ lastWasToolResult \in BOOLEAN /\ pendingAssistant = None
    BY DEF LCReady
  <2> QED  BY <1>2, <2>1, <2>2 DEF LCTypes
<1>4. LCPhases
  BY DEF LCReady, LCPhases
<1> QED  BY <1>3, <1>4 DEF LCInv

LEMMA HeadTyped ==
    ASSUME NEW S, NEW s \in Seq(S), s # <<>>
    PROVE  Head(s) \in S /\ Tail(s) \in Seq(S) /\ s[1] = Head(s) /\ Len(Tail(s)) = Len(s) - 1
<1>1. Head(s) \in S /\ Tail(s) \in Seq(S) /\ Len(Tail(s)) = Len(s) - 1
  BY HeadTailProperties
<1> QED  BY <1>1

LEMMA ConvertTyped ==
    ASSUME LCInv, Convert
    PROVE  LCInv'
<1> USE DEF LCInv
<1>1. Head(todo) \in AnyMessage /\ Tail(todo) \in Seq(AnyMessage)
  BY HeadTyped DEF Convert, LCTypes
<1>2. lc' \in Seq(AnyLC) /\ Len(lc') \in Nat
  BY <1>1, ToLCTyped, ConcatProperties, LenProperties DEF Convert, LCTypes
<1>3. back = 0 /\ pendingAssistant = None /\ out = <<>>
  BY DEF Convert, LCPhases, Converted
<1>4. LCTypes'
  BY <1>1, <1>2, <1>3 DEF Convert, LCTypes, given, walkVars, backVars
<1>5. LCPhases'
  BY <1>3 DEF Convert, LCPhases, walkVars, backVars
<1> QED  BY <1>4, <1>5

LEMMA OpenAssistantTyped ==
    ASSUME LCInv, OpenAssistant
    PROVE  LCInv'
<1> USE DEF LCInv
<1>1. Head(todo) \in AnyMessage /\ Tail(todo) \in Seq(AnyMessage)
  BY HeadTyped DEF OpenAssistant, LCTypes
<1>2. parts' \in Seq(AnyPart)
  BY <1>1 DEF OpenAssistant, AnyMessage
<1>3. back = 0 /\ pendingAssistant = None /\ out = <<>>
  BY DEF OpenAssistant, LCPhases, Converted
<1>4. texts' \in Seq(Seq(Token)) /\ calls' \in Seq(AnyId) /\ results' \in Seq(AnyTool)
      /\ lastWasToolResult' \in BOOLEAN
  BY EmptySeq DEF OpenAssistant
<1>5. LCTypes'
  BY <1>1, <1>2, <1>3, <1>4 DEF OpenAssistant, LCTypes, given, backVars
<1>6. LCPhases'
  BY <1>3 DEF OpenAssistant, LCPhases, backVars
<1> QED  BY <1>5, <1>6

\* While an assistant message is walked nothing comes back yet.
LEMMA WalkingIsBefore ==
    ASSUME LCInv, parts # None
    PROVE  back = 0 /\ pendingAssistant = None /\ out = <<>> /\ parts \in Seq(AnyPart)
           /\ (lastWasToolResult <=> results # <<>>)
  BY DEF LCInv, LCTypes, LCPhases, Converted

LEMMA GoOnTyped ==
    ASSUME LCInv, parts # None, NEW chunks \in Seq(Seq(Token)), NEW ids \in Seq(AnyId),
           GoOn(chunks, ids)
    PROVE  /\ texts' \in Seq(Seq(Token)) /\ calls' \in Seq(AnyId)
           /\ results' = <<>> /\ results' \in Seq(AnyTool)
           /\ lastWasToolResult' = FALSE /\ lc' \in Seq(AnyLC) /\ Len(lc') \in Nat
<1>0. /\ texts \in Seq(Seq(Token)) /\ calls \in Seq(AnyId) /\ results \in Seq(AnyTool)
      /\ lc \in Seq(AnyLC) /\ lastWasToolResult \in BOOLEAN
      /\ (lastWasToolResult <=> results # <<>>)
  BY DEF LCInv, LCTypes, LCPhases
<1>1. <<>> \in Seq(AnyTool)
  BY EmptySeq
<1>2. CASE lastWasToolResult
  <2>1. lc' = lc \o Group /\ texts' = chunks /\ calls' = ids /\ results' = <<>> /\ lastWasToolResult' = FALSE
    BY <1>2 DEF GoOn
  <2>2. lc' \in Seq(AnyLC)
    BY <1>0, <2>1, GroupTyped, ConcatProperties
  <2> QED  BY <1>1, <2>1, <2>2, LenProperties
<1>3. CASE ~lastWasToolResult
  <2>1. lc' = lc /\ texts' = texts \o chunks /\ calls' = calls \o ids /\ results' = results
        /\ lastWasToolResult' = lastWasToolResult
    BY <1>3 DEF GoOn
  <2>2. texts' \in Seq(Seq(Token)) /\ calls' \in Seq(AnyId)
    BY <1>0, <2>1, ConcatProperties
  <2>3. results' = <<>> /\ lastWasToolResult' = FALSE
    BY <1>0, <1>3, <2>1
  <2> QED  BY <1>0, <1>1, <2>1, <2>2, <2>3, LenProperties
<1> QED  BY <1>2, <1>3

LEMMA TakeTextTyped ==
    ASSUME LCInv, TakeText
    PROVE  LCInv'
<1> USE DEF LCInv
<1>1. /\ parts # None /\ parts # <<>> /\ GoOn(<<Head(parts).text>>, <<>>) /\ parts' = Tail(parts)
      /\ UNCHANGED <<given, todo, backVars>>
  BY DEF TakeText
<1>2. back = 0 /\ pendingAssistant = None /\ out = <<>> /\ parts \in Seq(AnyPart)
  BY <1>1, WalkingIsBefore
<1>3. Head(parts) \in AnyPart /\ Tail(parts) \in Seq(AnyPart)
  BY <1>1, <1>2, HeadTyped
<1> DEFINE chunks == <<Head(parts).text>>
           ids == <<>>
<1>4. chunks \in Seq(Seq(Token)) /\ ids \in Seq(AnyId)
  BY <1>3, EmptySeq DEF AnyPart
<1>5. GoOn(chunks, ids)
  BY <1>1
<1> HIDE DEF chunks, ids
<1>6. /\ texts' \in Seq(Seq(Token)) /\ calls' \in Seq(AnyId)
      /\ results' = <<>> /\ results' \in Seq(AnyTool)
      /\ lastWasToolResult' = FALSE /\ lc' \in Seq(AnyLC) /\ Len(lc') \in Nat
  BY <1>1, <1>4, <1>5, GoOnTyped
<1>7. LCTypes'
  <2>1. /\ texts' \in Seq(Seq(Token)) /\ calls' \in Seq(AnyId) /\ results' \in Seq(AnyTool)
        /\ lastWasToolResult' \in BOOLEAN /\ lc' \in Seq(AnyLC) /\ Len(lc') \in Nat
    BY <1>6
  <2> QED  BY <1>1, <1>2, <1>3, <2>1 DEF LCTypes, given, backVars
<1>8. parts' # None
  BY <1>1, <1>3, NoneIsNone
<1>9. LCPhases'
  BY <1>1, <1>2, <1>6, <1>8 DEF LCPhases, backVars
<1> QED  BY <1>7, <1>9

LEMMA TakeCallTyped ==
    ASSUME LCInv, TakeCall
    PROVE  LCInv'
<1> USE DEF LCInv
<1>1. /\ parts # None /\ parts # <<>> /\ GoOn(<<>>, <<Head(parts).id>>) /\ parts' = Tail(parts)
      /\ UNCHANGED <<given, todo, backVars>>
  BY DEF TakeCall
<1>2. back = 0 /\ pendingAssistant = None /\ out = <<>> /\ parts \in Seq(AnyPart)
  BY <1>1, WalkingIsBefore
<1>3. Head(parts) \in AnyPart /\ Tail(parts) \in Seq(AnyPart)
  BY <1>1, <1>2, HeadTyped
<1> DEFINE chunks == <<>>
           ids == <<Head(parts).id>>
<1>4. chunks \in Seq(Seq(Token)) /\ ids \in Seq(AnyId)
  BY <1>3, EmptySeq DEF AnyPart, AnyId
<1>5. GoOn(chunks, ids)
  BY <1>1
<1> HIDE DEF chunks, ids
<1>6. /\ texts' \in Seq(Seq(Token)) /\ calls' \in Seq(AnyId)
      /\ results' = <<>> /\ results' \in Seq(AnyTool)
      /\ lastWasToolResult' = FALSE /\ lc' \in Seq(AnyLC) /\ Len(lc') \in Nat
  BY <1>1, <1>4, <1>5, GoOnTyped
<1>7. LCTypes'
  <2>1. /\ texts' \in Seq(Seq(Token)) /\ calls' \in Seq(AnyId) /\ results' \in Seq(AnyTool)
        /\ lastWasToolResult' \in BOOLEAN /\ lc' \in Seq(AnyLC) /\ Len(lc') \in Nat
    BY <1>6
  <2> QED  BY <1>1, <1>2, <1>3, <2>1 DEF LCTypes, given, backVars
<1>8. parts' # None
  BY <1>1, <1>3, NoneIsNone
<1>9. LCPhases'
  BY <1>1, <1>2, <1>6, <1>8 DEF LCPhases, backVars
<1> QED  BY <1>7, <1>9

LEMMA TakeResultTyped ==
    ASSUME LCInv, TakeResult
    PROVE  LCInv'
<1> USE DEF LCInv
<1>1. parts # None /\ parts # <<>> /\ parts' = Tail(parts)
      /\ UNCHANGED <<given, todo, texts, calls, lc, backVars>>
  BY DEF TakeResult
<1>2. back = 0 /\ pendingAssistant = None /\ out = <<>> /\ parts \in Seq(AnyPart)
  BY <1>1, WalkingIsBefore
<1>3. Head(parts) \in AnyPart /\ Tail(parts) \in Seq(AnyPart)
  BY <1>1, <1>2, HeadTyped
<1>4. results' \in Seq(AnyTool) /\ results' # <<>> /\ lastWasToolResult' = TRUE
  <2>1. ToolResultToLC(Head(parts)) \in AnyTool
    BY <1>3, ToolTyped
  <2> QED  BY <2>1, AppendProperties, ZenonT(60) DEF TakeResult, LCTypes
<1>5. LCTypes'
  BY <1>1, <1>2, <1>3, <1>4 DEF LCTypes, given, backVars
<1>6. parts' # None
  BY <1>1, <1>3, NoneIsNone
<1>7. LCPhases'
  BY <1>1, <1>2, <1>4, <1>6 DEF LCPhases, backVars
<1> QED  BY <1>5, <1>7

LEMMA DropPartTyped ==
    ASSUME LCInv, DropPart
    PROVE  LCInv'
<1> USE DEF LCInv
<1>1. parts # None /\ parts # <<>> /\ parts' = Tail(parts)
      /\ UNCHANGED <<given, todo, texts, calls, results, lastWasToolResult, lc, backVars>>
  BY DEF DropPart
<1>2. back = 0 /\ pendingAssistant = None /\ out = <<>> /\ parts \in Seq(AnyPart)
  BY <1>1, WalkingIsBefore
<1>3. Head(parts) \in AnyPart /\ Tail(parts) \in Seq(AnyPart)
  BY <1>1, <1>2, HeadTyped
<1>5. LCTypes'
  BY <1>1, <1>2, <1>3 DEF LCTypes, given, backVars
<1>6. parts' # None
  BY <1>1, <1>3, NoneIsNone
<1>7. LCPhases'
  BY <1>1, <1>2, <1>6 DEF LCPhases, backVars
<1> QED  BY <1>5, <1>7

\* What closes an assistant message.
Closing == IF Pending \/ sawAnyEmit THEN Group ELSE <<AI(<<>>, <<>>)>>

LEMMA ClosingTyped ==
    ASSUME LCInv
    PROVE  Closing \in Seq(AnyLC)
<1>1. Group \in Seq(AnyLC)
  BY GroupTyped DEF LCInv, LCTypes
<1>2. <<>> \in Seq(Token) /\ <<>> \in Seq(AnyId)
  BY EmptySeq
<1>3. AI(<<>>, <<>>) \in AnyLC
  BY <1>2, AITyped
<1> QED  BY <1>1, <1>3 DEF Closing

LEMMA CloseAssistantTyped ==
    ASSUME LCInv, CloseAssistant
    PROVE  LCInv'
<1> USE DEF LCInv
<1>1. /\ parts = <<>> /\ lc' = lc \o Closing /\ parts' = None
      /\ texts' = <<>> /\ calls' = <<>> /\ results' = <<>>
      /\ UNCHANGED <<given, todo, lastWasToolResult, backVars>>
  BY DEF CloseAssistant, Closing
<1>2. parts # None
  BY <1>1, EmptySeq, NoneIsNone
<1>3. back = 0 /\ pendingAssistant = None /\ out = <<>>
  BY <1>2, WalkingIsBefore
<1>4. lc' \in Seq(AnyLC) /\ Len(lc') \in Nat
  BY <1>1, ClosingTyped, ConcatProperties, LenProperties DEF LCTypes
<1>5. texts' \in Seq(Seq(Token)) /\ calls' \in Seq(AnyId) /\ results' \in Seq(AnyTool)
  BY <1>1, EmptySeq
<1>6. LCTypes'
  BY <1>1, <1>3, <1>4, <1>5 DEF LCTypes, given, backVars
<1>7. LCPhases'
  BY <1>1, <1>3 DEF LCPhases, backVars
<1> QED  BY <1>6, <1>7

LEMMA FlushedTyped ==
    ASSUME LCInv
    PROVE  Flushed \in Seq(AnyMessage)
<1>1. out \in Seq(AnyMessage) /\ (pendingAssistant = None \/ pendingAssistant \in AnyMessage)
  BY DEF LCInv, LCTypes
<1>2. pendingAssistant \in AnyMessage => Append(out, pendingAssistant) \in Seq(AnyMessage)
  BY <1>1, AppendProperties
<1> QED  BY <1>1, <1>2 DEF Flushed

\* The message that comes back next.
LEMMA BackIs ==
    ASSUME LCInv, BackNext
    PROVE  /\ back + 1 \in 1..Len(lc) /\ lc[back + 1] \in AnyLC /\ back \in Nat
           /\ lc \in Seq(AnyLC)
<1>1. lc \in Seq(AnyLC) /\ back \in 0..Len(lc) /\ back < Len(lc) /\ Len(lc) \in Nat
  BY LenProperties DEF LCInv, LCTypes, BackNext
<1>2. back + 1 \in 1..Len(lc)
  BY <1>1
<1> QED  BY <1>1, <1>2, ElementOfSeq

LEMMA BackStepTyped ==
    ASSUME LCInv, BackNext, out' \in Seq(AnyMessage),
           \/ pendingAssistant' = None
           \/ pendingAssistant' \in AnyMessage /\ pendingAssistant'.role = "assistant"
    PROVE  LCInv'
<1> USE DEF LCInv
<1>1. back' \in 0..Len(lc)
  BY BackIs DEF BackNext
<1>2. Converted /\ UNCHANGED <<given, todo, walkVars, lc>>
  BY DEF BackNext
<1>3. LCTypes'
  BY <1>1, <1>2 DEF LCTypes, given, walkVars
<1>4. Converted'
  BY <1>2 DEF Converted, walkVars
<1>5. LCPhases'
  <2>1. parts' = None /\ texts' = texts /\ calls' = calls /\ results' = results /\ parts = None
    BY <1>2 DEF Converted, walkVars
  <2>2. pendingAssistant' # None => pendingAssistant'.role = "assistant"
    OBVIOUS
  <2>3. texts = <<>> /\ calls = <<>> /\ results = <<>>
    BY <2>1 DEF LCPhases
  <2> QED  BY <1>4, <2>1, <2>2, <2>3 DEF LCPhases
<1> QED  BY <1>3, <1>5

\* The three ways a message comes back as one of its own.
FromOne ==
    /\ BackNext /\ lc[back + 1].type \in {"human", "system", "other"}
    /\ out' = Append(Flushed, FromLCOne(lc[back + 1]))
    /\ pendingAssistant' = None

LEMMA FromOneIs == FromHuman \/ FromOther => FromOne
  BY DEF FromHuman, FromOther, FromOne, FromLCOne

LEMMA FromOneTyped ==
    ASSUME LCInv, FromOne
    PROVE  LCInv'
<1>1. FromLCOne(lc[back + 1]) \in AnyMessage /\ BackNext
  BY BackIs, FromLCTyped DEF FromOne
<1>2. out' \in Seq(AnyMessage)
  BY <1>1, FlushedTyped, AppendProperties DEF FromOne
<1> QED  BY <1>1, <1>2, BackStepTyped DEF FromOne

LEMMA FromAIIs ==
    ASSUME LCInv, FromAI
    PROVE  /\ BackNext /\ lc[back + 1].type = "ai" /\ out' = Flushed
           /\ pendingAssistant' = Message("assistant", FromLCTurn(lc[back + 1]))
           /\ FromLCTurn(lc[back + 1]) \in Seq(AnyPart)
           /\ pendingAssistant' \in AnyMessage /\ pendingAssistant'.role = "assistant"
           /\ pendingAssistant'.content = FromLCTurn(lc[back + 1])
<1> DEFINE m == lc[back + 1]
<1>1. BackNext
  BY DEF FromAI
<1>2. m \in AnyLC
  BY <1>1, BackIs
<1>3. pendingAssistant' = Message("assistant", TextIfAny(Joined(m.content)) \o
                                               [i \in DOMAIN m.calls |-> Part("call", Named(m.calls[i]), <<>>)])
  BY DEF FromAI
<1>4. m.type = "ai" /\ out' = Flushed
  BY DEF FromAI
<1> HIDE DEF m
<1>5. m.calls \in Seq(AnyId)
  BY <1>2, LCFields
<1>6. [i \in DOMAIN m.calls |-> Part("call", Named(m.calls[i]), <<>>)] = Mapped(CallPart, m.calls)
  BY <1>5, CallPartsAre
<1>7. pendingAssistant' = Message("assistant", FromLCTurn(m))
  BY <1>3, <1>6 DEF FromLCTurn
<1>8. FromLCTurn(m) \in Seq(AnyPart)
  BY <1>2, FromLCTyped
<1>9. pendingAssistant' \in AnyMessage /\ pendingAssistant'.role = "assistant"
      /\ pendingAssistant'.content = FromLCTurn(m)
  BY <1>7, <1>8, MessageTyped
<1> QED  BY <1>1, <1>4, <1>7, <1>8, <1>9 DEF m

LEMMA FromAITyped ==
    ASSUME LCInv, FromAI
    PROVE  LCInv'
<1>1. BackNext /\ out' = Flushed /\ pendingAssistant' \in AnyMessage /\ pendingAssistant'.role = "assistant"
  BY FromAIIs
<1>2. out' \in Seq(AnyMessage)
  BY <1>1, FlushedTyped
<1> QED  BY <1>1, <1>2, BackStepTyped

LEMMA FromToolIs ==
    ASSUME LCInv, FromTool
    PROVE  /\ BackNext /\ lc[back + 1].type = "tool"
           /\ FromLCResult(lc[back + 1]) \in AnyPart
           /\ pendingAssistant = None =>
                 /\ out' = Append(out, Message("tool", <<FromLCResult(lc[back + 1])>>))
                 /\ pendingAssistant' = None
           /\ pendingAssistant # None =>
                 /\ out' = out
                 /\ pendingAssistant' = Message("assistant",
                        Append(pendingAssistant.content, FromLCResult(lc[back + 1])))
                 /\ pendingAssistant.content \in Seq(AnyPart)
<1> DEFINE r == FromLCResult(lc[back + 1])
<1>1. BackNext /\ lc[back + 1].type = "tool"
  BY DEF FromTool
<1>2. r \in AnyPart
  BY <1>1, BackIs, FromLCTyped
<1>3. IF pendingAssistant = None
      THEN out' = Append(out, Message("tool", <<r>>)) /\ UNCHANGED pendingAssistant
      ELSE pendingAssistant' = [pendingAssistant EXCEPT !.content = Append(@, r)] /\ UNCHANGED out
  BY DEF FromTool, FromLCResult
<1> HIDE DEF r
<1>4. ASSUME pendingAssistant # None
      PROVE  /\ pendingAssistant.content \in Seq(AnyPart)
             /\ [pendingAssistant EXCEPT !.content = Append(@, r)]
                   = Message("assistant", Append(pendingAssistant.content, r))
  <2>1. pendingAssistant \in AnyMessage /\ pendingAssistant.role = "assistant"
    BY <1>4 DEF LCInv, LCTypes, LCPhases
  <2> QED  BY <2>1 DEF AnyMessage, Message
<1> QED  BY <1>1, <1>2, <1>3, <1>4 DEF r

LEMMA FromToolTyped ==
    ASSUME LCInv, FromTool
    PROVE  LCInv'
<1> DEFINE r == FromLCResult(lc[back + 1])
<1>0. out \in Seq(AnyMessage)
  BY DEF LCInv, LCTypes
<1>1. BackNext /\ r \in AnyPart
  BY FromToolIs
<1>2. CASE pendingAssistant = None
  <2>1. out' = Append(out, Message("tool", <<r>>)) /\ pendingAssistant' = None
    BY <1>2, FromToolIs
  <2>2. <<r>> \in Seq(AnyPart)
    BY <1>1
  <2>3. Message("tool", <<r>>) \in AnyMessage
    BY <2>2, MessageTyped
  <2>4. out' \in Seq(AnyMessage)
    BY <1>0, <2>1, <2>3, AppendProperties
  <2> QED  BY <1>1, <2>1, <2>4, BackStepTyped
<1>3. CASE pendingAssistant # None
  <2> DEFINE c == Append(pendingAssistant.content, r)
  <2>1. out' = out /\ pendingAssistant' = Message("assistant", c) /\ pendingAssistant.content \in Seq(AnyPart)
    BY <1>3, FromToolIs
  <2>2. c \in Seq(AnyPart)
    BY <1>1, <2>1, AppendProperties
  <2> HIDE DEF c
  <2>3. pendingAssistant' \in AnyMessage /\ pendingAssistant'.role = "assistant"
    BY <2>1, <2>2, MessageTyped
  <2> QED  BY <1>0, <1>1, <2>1, <2>3, BackStepTyped
<1> QED  BY <1>2, <1>3

LEMMA FromEndTyped ==
    ASSUME LCInv, FromEnd
    PROVE  LCInv'
<1> USE DEF LCInv
<1>1. /\ Converted /\ out' = Flushed /\ pendingAssistant' = None
      /\ UNCHANGED <<given, todo, walkVars, lc, back>>
  BY DEF FromEnd
<1>2. out' \in Seq(AnyMessage)
  BY <1>1, FlushedTyped
<1>3. LCTypes'
  BY <1>1, <1>2 DEF LCTypes, given, walkVars
<1>4. LCPhases'
  BY <1>1 DEF LCPhases, Converted, walkVars
<1> QED  BY <1>3, <1>4

LEMMA ResumeTyped ==
    ASSUME LCInv, Resume
    PROVE  LCInv'
<1> USE DEF LCInv
<1>1. /\ Converted /\ thread' = out /\ todo' = out /\ prior' = <<>> /\ before' = lc /\ lc' = <<>>
      /\ back' = 0 /\ out' = <<>> /\ pendingAssistant = None
      /\ UNCHANGED <<walkVars, pendingAssistant>>
  BY DEF Resume
<1>2. prior' \in Seq(AnyLC) /\ lc' \in Seq(AnyLC) /\ out' \in Seq(AnyMessage)
  BY <1>1, EmptySeq
<1>3. back' \in 0..Len(lc')
  BY <1>1
<1>4. LCTypes'
  <2>1. thread' \in Seq(AnyMessage) /\ todo' \in Seq(AnyMessage) /\ before' \in Seq(AnyLC)
    BY <1>1 DEF LCTypes
  <2>2. UNCHANGED <<parts, texts, calls, results, lastWasToolResult, pendingAssistant>>
    BY <1>1 DEF walkVars
  <2> QED  BY <1>2, <1>3, <2>1, <2>2 DEF LCTypes
<1>5. LCPhases'
  BY <1>1 DEF LCPhases, Converted, walkVars
<1> QED  BY <1>4, <1>5

LEMMA LCInvNext == LCInv /\ [LCNext]_lcVars => LCInv'
<1> SUFFICES ASSUME LCInv, [LCNext]_lcVars
             PROVE  LCInv'
  OBVIOUS
<1>1. CASE UNCHANGED lcVars
  BY <1>1 DEF lcVars, given, walkVars, backVars, LCInv, LCTypes, LCPhases, Converted
<1>2. CASE LCNext
  BY <1>2, ConvertTyped, OpenAssistantTyped, TakeTextTyped, TakeCallTyped, TakeResultTyped,
     DropPartTyped, CloseAssistantTyped, FromOneIs, FromOneTyped, FromAITyped, FromToolTyped,
     FromEndTyped, ResumeTyped DEF LCNext
<1> QED  BY <1>1, <1>2

\* The conversion keeps the types of its state, and holds nothing over from one message
\* to the next.
THEOREM ConversionTyped == LCSpec => []LCInv
  BY GivenIsReady, LCInvInit, LCInvNext, PTL DEF LCSpec

----------------------------------------------------------------------------
(* Tool messages follow their call.                                        *)

LEMMA PairedCat ==
    ASSUME NEW l \in Seq(AnyLC), NEW g \in Seq(AnyLC), Paired(l), Paired(g)
    PROVE  Paired(l \o g)
<1> DEFINE w == l \o g
           n == Len(l)
<1>1. /\ w \in Seq(AnyLC) /\ Len(w) = n + Len(g)
      /\ \A i \in 1..n + Len(g) : w[i] = IF i <= n THEN l[i] ELSE g[i - n]
      /\ n \in Nat /\ Len(g) \in Nat
  BY ConcatProperties, LenProperties
<1>2. DOMAIN w = 1..n + Len(g) /\ DOMAIN l = 1..n /\ DOMAIN g = 1..Len(g)
  BY <1>1, LenProperties
<1> HIDE DEF w, n
<1>3. ASSUME NEW i \in DOMAIN w, w[i].type = "tool"
      PROVE  \E j \in 1..i-1 : /\ w[j].type = "ai" /\ Contains(w[j].calls, w[i].call_id)
                               /\ \A k \in j+1..i-1 : w[k].type = "tool"
  <2>1. CASE i <= n
    <3>1. i \in DOMAIN l /\ w[i] = l[i]
      BY <1>1, <1>2, <2>1
    <3>2. PICK j \in 1..i-1 : /\ l[j].type = "ai" /\ Contains(l[j].calls, l[i].call_id)
                              /\ \A k \in j+1..i-1 : l[k].type = "tool"
      BY <1>3, <3>1 DEF Paired
    <3>3. \A k \in 1..i-1 : w[k] = l[k]
      BY <1>1, <1>2, <2>1
    <3>4. \A k \in j+1..i-1 : k \in 1..i-1
      BY <3>2
    <3> QED  BY <3>1, <3>2, <3>3, <3>4
  <2>2. CASE ~(i <= n)
    <3>1. i - n \in DOMAIN g /\ w[i] = g[i - n]
      BY <1>1, <1>2, <2>2
    <3>2. PICK j \in 1..(i-n)-1 : /\ g[j].type = "ai" /\ Contains(g[j].calls, g[i - n].call_id)
                                  /\ \A k \in j+1..(i-n)-1 : g[k].type = "tool"
      BY <1>3, <3>1 DEF Paired
    <3>3. j + n \in 1..i-1 /\ w[j + n] = g[j]
      <4>1. i \in 1..n + Len(g) /\ n \in Nat /\ Len(g) \in Nat /\ j \in Nat /\ j >= 1 /\ j <= (i-n)-1
        BY <1>1, <1>2, <2>2, <3>2
      <4>2. j + n \in 1..i-1 /\ j + n \in 1..n + Len(g) /\ ~(j + n <= n) /\ (j + n) - n = j
        BY <4>1
      <4> QED  BY <1>1, <4>2
    <3>4. ASSUME NEW k \in (j+n)+1..i-1
          PROVE  w[k].type = "tool"
      <4>1. k - n \in j+1..(i-n)-1 /\ w[k] = g[k - n]
        BY <1>1, <1>2, <2>2, <3>2
      <4> QED  BY <3>2, <4>1
    <3> QED  BY <3>1, <3>2, <3>3, <3>4
  <2> QED  BY <2>1, <2>2
<1>4. Paired(w)
  BY <1>3 DEF Paired
<1> QED  BY <1>4 DEF w

LEMMA PairedNone == Paired(<<>>)
  BY DEF Paired

LEMMA PairedOne ==
    ASSUME NEW m, m.type # "tool"
    PROVE  Paired(<<m>>)
<1>1. DOMAIN <<m>> = {1} /\ <<m>>[1] = m
  OBVIOUS
<1> QED  BY <1>1 DEF Paired

\* An AI message and tool messages that have its calls.
LEMMA PairedGroup ==
    ASSUME NEW ids, NEW text \in Seq(Token), ids \in Seq(AnyId), NEW answers \in Seq(AnyTool),
           \A i \in 1..Len(answers) : Contains(ids, answers[i].call_id)
    PROVE  Paired(<<AI(text, ids)>> \o answers)
<1> DEFINE m == AI(text, ids)
           w == <<m>> \o answers
<1>1. m.type = "ai" /\ m.calls = ids /\ m \in AnyLC
  BY AITyped DEF AI
<1>2. answers \in Seq(AnyLC) /\ \A i \in 1..Len(answers) : answers[i].type = "tool"
  <2>1. AnyTool \subseteq AnyLC
    BY DEF AnyTool
  <2> QED  BY <2>1, SeqMonotonic, ElementOfSeq DEF AnyTool
<1> HIDE DEF m
<1>3. <<m>> \in Seq(AnyLC) /\ Len(<<m>>) = 1 /\ <<m>>[1] = m
  BY <1>1
<1>4. /\ w \in Seq(AnyLC) /\ Len(w) = 1 + Len(answers) /\ Len(answers) \in Nat
      /\ w[1] = m /\ \A i \in 2..1 + Len(answers) : w[i] = answers[i - 1]
  BY <1>2, <1>3, ConcatProperties, LenProperties
<1>5. DOMAIN w = 1..1 + Len(answers)
  BY <1>4, LenProperties
<1> HIDE DEF w
<1>6. \A i \in 2..1 + Len(answers) : i - 1 \in 1..Len(answers)
  BY <1>4
<1>7. \A i \in DOMAIN w : w[i].type = "tool" => i \in 2..1 + Len(answers)
  BY <1>1, <1>4, <1>5
<1>8. \A i \in 2..1 + Len(answers) : w[i].type = "tool" /\ Contains(w[1].calls, w[i].call_id)
  BY <1>1, <1>2, <1>4, <1>6
<1>9. ASSUME NEW i \in DOMAIN w, w[i].type = "tool"
      PROVE  \E j \in 1..i-1 : /\ w[j].type = "ai" /\ Contains(w[j].calls, w[i].call_id)
                               /\ \A k \in j+1..i-1 : w[k].type = "tool"
  <2>1. i \in 2..1 + Len(answers)
    BY <1>7, <1>9
  <2>2. 1 \in 1..i-1 /\ \A k \in 1+1..i-1 : k \in 2..1 + Len(answers)
    BY <1>4, <2>1
  <2> QED  BY <1>1, <1>4, <1>8, <2>1, <2>2
<1>10. Paired(w)
  BY <1>9 DEF Paired
<1> QED  BY <1>10 DEF w, m

\* What the property assumes of what is given.
RoundsGiven ==
    Paired(prior) /\ NoToolRole(thread) /\ \A i \in Assistants(thread) :
        Answered(thread[i].content) /\ RoundsComplete(thread[i].content)

TodoIsThread == \A i \in DOMAIN todo : \E j \in DOMAIN thread : todo[i] = thread[j]

\* The first k parts of c are taken, and parts are the others.
WalkedTo(c, k) ==
    /\ c \in Seq(AnyPart) /\ k \in 0..Len(c)
    /\ Len(parts) = Len(c) - k /\ \A i \in 1..Len(parts) : parts[i] = c[k + i]

\* A call already taken is pending, or somebody went on after a result since.
CallsPending(c, k) ==
    \A i \in 1..k : c[i].kind = "call" =>
        \/ Contains(calls, c[i].id)
        \/ \E r, j \in 1..k : r < j /\ i < j /\ c[r].kind = "result" /\ c[j].kind \in {"text", "call"}

ResultsPending(c, k) ==
    /\ results # <<>> => \E r \in 1..k : c[r].kind = "result"
    /\ \A i \in 1..Len(results) : Contains(calls, results[i].call_id)

Walkable(t) == {t[n].content : n \in Assistants(t)}

WalkKnown ==
    parts # None =>
        \E c \in Walkable(thread), k \in Nat :
            WalkedTo(c, k) /\ CallsPending(c, k) /\ ResultsPending(c, k)

RoundsInv == TodoIsThread /\ (RoundsGiven => Paired(lc) /\ WalkKnown)

LEMMA RoundsInvInit == LCReady => RoundsInv
<1> SUFFICES ASSUME LCReady
             PROVE  RoundsInv
  OBVIOUS
<1>1. TodoIsThread
  BY DEF LCReady, TodoIsThread
<1>2. RoundsGiven => Paired(lc)
  BY DEF LCReady, RoundsGiven
<1>3. WalkKnown
  BY DEF LCReady, WalkKnown
<1> QED  BY <1>1, <1>2, <1>3 DEF RoundsInv

LEMMA ContainsCat ==
    ASSUME NEW S, NEW s \in Seq(S), NEW t \in Seq(S), NEW e, Contains(s, e) \/ Contains(t, e)
    PROVE  Contains(s \o t, e)
<1>1. /\ Len(s \o t) = Len(s) + Len(t) /\ Len(s) \in Nat /\ Len(t) \in Nat
      /\ \A i \in 1..Len(s) + Len(t) : (s \o t)[i] = IF i <= Len(s) THEN s[i] ELSE t[i - Len(s)]
  BY ConcatProperties, LenProperties
<1>2. CASE Contains(s, e)
  <2>1. PICK i \in 1..Len(s) : s[i] = e
    BY <1>2 DEF Contains
  <2>2. i \in 1..Len(s) + Len(t) /\ (s \o t)[i] = e
    BY <1>1, <2>1
  <2> QED  BY <1>1, <2>2 DEF Contains
<1>3. CASE Contains(t, e)
  <2>1. PICK i \in 1..Len(t) : t[i] = e
    BY <1>3 DEF Contains
  <2>2. Len(s) + i \in 1..Len(s) + Len(t) /\ ~(Len(s) + i <= Len(s)) /\ (Len(s) + i) - Len(s) = i
    BY <1>1
  <2>3. (s \o t)[Len(s) + i] = e
    BY <1>1, <2>1, <2>2
  <2> QED  BY <1>1, <2>2, <2>3 DEF Contains
<1> QED  BY <1>2, <1>3

LEMMA WalkStep ==
    ASSUME NEW c, NEW k \in Nat, WalkedTo(c, k), parts \in Seq(AnyPart), parts # <<>>,
           parts' = Tail(parts)
    PROVE  /\ WalkedTo(c, k + 1)' /\ k + 1 \in 1..Len(c) /\ c[k + 1] = Head(parts)
           /\ Head(parts) \in AnyPart /\ c \in Seq(AnyPart) /\ DOMAIN c = 1..Len(c)
<1>1. /\ c \in Seq(AnyPart) /\ k \in 0..Len(c) /\ Len(parts) = Len(c) - k
      /\ \A i \in 1..Len(parts) : parts[i] = c[k + i]
  BY DEF WalkedTo
<1>2. /\ Head(parts) \in AnyPart /\ Len(parts') = Len(parts) - 1 /\ parts[1] = Head(parts)
      /\ \A i \in 1..Len(parts') : parts'[i] = parts[i + 1]
      /\ Len(parts) \in Nat /\ Len(parts) # 0 /\ Len(c) \in Nat /\ DOMAIN c = 1..Len(c)
  BY <1>1, HeadTailProperties, HeadTyped, LenProperties, EmptySeq
<1>3. k + 1 \in 1..Len(c) /\ 1 \in 1..Len(parts)
  BY <1>1, <1>2
<1>4. \A i \in 1..Len(parts') : i + 1 \in 1..Len(parts) /\ k + (i + 1) = (k + 1) + i
  BY <1>2
<1>5. \A i \in 1..Len(parts') : parts'[i] = c[(k + 1) + i]
  BY <1>1, <1>2, <1>4
<1>6. WalkedTo(c, k + 1)'
  BY <1>1, <1>2, <1>3, <1>5 DEF WalkedTo
<1> QED  BY <1>1, <1>2, <1>3, <1>6

\* The group that is pending has the calls its results answer.
LEMMA PendingPaired ==
    ASSUME LCInv, NEW c, NEW k, ResultsPending(c, k)
    PROVE  Group \in Seq(AnyLC) /\ Paired(Group)
<1>1. texts \in Seq(Seq(Token)) /\ calls \in Seq(AnyId) /\ results \in Seq(AnyTool)
  BY DEF LCInv, LCTypes
<1>2. Paired(<<AI(FlattenSeq(texts), calls)>> \o results)
  BY <1>1, FlattenTyped, PairedGroup DEF ResultsPending
<1> QED  BY <1>1, <1>2, GroupTyped, PairedNone DEF Group

LEMMA GoOnRounds ==
    ASSUME LCInv, parts # None, parts # <<>>, parts' = Tail(parts),
           NEW c, NEW k \in Nat, WalkedTo(c, k), CallsPending(c, k), ResultsPending(c, k), Paired(lc),
           NEW chunks, NEW ids \in Seq(AnyId), GoOn(chunks, ids),
           Head(parts).kind \in {"text", "call"},
           Head(parts).kind = "call" => Contains(ids, Head(parts).id)
    PROVE  Paired(lc') /\ WalkedTo(c, k + 1)' /\ CallsPending(c, k + 1)' /\ ResultsPending(c, k + 1)'
<1>1. /\ parts \in Seq(AnyPart) /\ calls \in Seq(AnyId) /\ lc \in Seq(AnyLC)
      /\ lastWasToolResult \in BOOLEAN /\ (lastWasToolResult <=> results # <<>>)
  BY WalkingIsBefore DEF LCInv, LCTypes
<1>2. WalkedTo(c, k + 1)' /\ k + 1 \in 1..Len(c) /\ c[k + 1] = Head(parts)
  BY <1>1, WalkStep
<1>3. \A i \in 1..k + 1 : i \in 1..k \/ i = k + 1
  OBVIOUS
<1>4. CASE lastWasToolResult
  <2>1. lc' = lc \o Group /\ calls' = ids /\ results' = <<>>
    BY <1>4 DEF GoOn
  <2>2. Paired(lc')
    BY <1>1, <2>1, PendingPaired, PairedCat
  <2>3. PICK r \in 1..k : c[r].kind = "result"
    BY <1>1, <1>4 DEF ResultsPending
  <2>4. ASSUME NEW i \in 1..k + 1, c[i].kind = "call", i \in 1..k
        PROVE  \E q, j \in 1..k + 1 : q < j /\ i < j /\ c[q].kind = "result" /\ c[j].kind \in {"text", "call"}
    <3>1. r \in 1..k + 1 /\ k + 1 \in 1..k + 1 /\ r < k + 1 /\ i < k + 1
      BY <2>3, <2>4
    <3> QED  BY <1>2, <2>3, <3>1
  <2>5. CallsPending(c, k + 1)'
    BY <1>2, <1>3, <2>1, <2>4 DEF CallsPending
  <2>6. ResultsPending(c, k + 1)'
    <3>1. Len(results') = 0
      BY <2>1
    <3> QED  BY <2>1, <3>1 DEF ResultsPending
  <2> QED  BY <1>2, <2>2, <2>5, <2>6
<1>5. CASE ~lastWasToolResult
  <2>1. lc' = lc /\ calls' = calls \o ids /\ results' = results /\ results = <<>>
    BY <1>1, <1>5 DEF GoOn
  <2>2. \A e : Contains(calls, e) \/ Contains(ids, e) => Contains(calls', e)
    BY <1>1, <2>1, ContainsCat
  <2>3. \A j \in 1..k : j \in 1..k + 1
    OBVIOUS
  <2>4. CallsPending(c, k + 1)'
    BY <1>2, <1>3, <2>2, <2>3 DEF CallsPending
  <2>5. ResultsPending(c, k + 1)'
    <3>1. Len(results') = 0 /\ results' = <<>>
      BY <2>1
    <3> QED  BY <3>1 DEF ResultsPending
  <2> QED  BY <1>2, <2>1, <2>4, <2>5
<1> QED  BY <1>1, <1>4, <1>5

LEMMA TakeResultRounds ==
    ASSUME LCInv, TakeResult,
           NEW c, NEW k \in Nat, WalkedTo(c, k), CallsPending(c, k), ResultsPending(c, k),
           Answered(c), RoundsComplete(c)
    PROVE  WalkedTo(c, k + 1)' /\ CallsPending(c, k + 1)' /\ ResultsPending(c, k + 1)'
<1> DEFINE p == Head(parts)
<1>1. /\ parts # None /\ parts # <<>> /\ parts' = Tail(parts) /\ calls' = calls
      /\ results' = Append(results, ToolResultToLC(p)) /\ p.kind = "result"
  BY DEF TakeResult
<1>2. parts \in Seq(AnyPart) /\ results \in Seq(AnyTool)
  BY <1>1, WalkingIsBefore DEF LCInv, LCTypes
<1>3. /\ WalkedTo(c, k + 1)' /\ k + 1 \in 1..Len(c) /\ c[k + 1] = p /\ p \in AnyPart
      /\ DOMAIN c = 1..Len(c) /\ c \in Seq(AnyPart)
  BY <1>1, <1>2, WalkStep
<1> HIDE DEF p
<1>4. PICK i \in 1..k : c[i].kind = "call" /\ c[i].id = p.id
  <2>1. k + 1 \in DOMAIN c /\ (k + 1) - 1 = k
    BY <1>3
  <2> QED  BY <1>1, <1>3, <2>1 DEF Answered
<1>5. Contains(calls, p.id)
  <2> SUFFICES ASSUME ~Contains(calls, p.id)
               PROVE  FALSE
    OBVIOUS
  <2>1. PICK r \in 1..k, j \in 1..k : r < j /\ i < j /\ c[r].kind = "result" /\ c[j].kind \in {"text", "call"}
    BY <1>4 DEF CallsPending
  <2>2. r \in DOMAIN c /\ i \in DOMAIN c /\ j \in DOMAIN c
    BY <1>3, <1>4, <2>1
  <2>3. PICK q \in 1..j-1 : c[q].kind = "result" /\ c[q].id = c[i].id
    BY <1>4, <2>1, <2>2 DEF RoundsComplete
  <2>4. q \in DOMAIN c /\ k + 1 \in DOMAIN c /\ q # k + 1
    BY <1>3, <2>1, <2>3
  <2> QED  BY <1>1, <1>3, <1>4, <2>3, <2>4 DEF Answered
<1>6. CallsPending(c, k + 1)'
  <2>1. \A j \in 1..k : j \in 1..k + 1
    OBVIOUS
  <2>2. \A j \in 1..k + 1 : j \in 1..k \/ j = k + 1
    OBVIOUS
  <2> QED  BY <1>1, <1>3, <2>1, <2>2 DEF CallsPending
<1>7. ResultsPending(c, k + 1)'
  <2>1. ToolResultToLC(p) \in AnyTool /\ ToolResultToLC(p).call_id = p.id
    BY <1>3, ToolTyped
  <2>2. /\ Len(results') = Len(results) + 1 /\ Len(results) \in Nat
        /\ \A j \in 1..Len(results) : results'[j] = results[j]
        /\ results'[Len(results) + 1] = ToolResultToLC(p)
    BY <1>1, <1>2, <2>1, AppendProperties, LenProperties
  <2>3. \A j \in 1..Len(results') : j \in 1..Len(results) \/ j = Len(results) + 1
    BY <2>2
  <2>4. \A j \in 1..Len(results') : Contains(calls, results'[j].call_id)
    BY <1>5, <2>1, <2>2, <2>3 DEF ResultsPending
  <2>5. k + 1 \in 1..k + 1
    OBVIOUS
  <2> QED  BY <1>1, <1>3, <2>4, <2>5 DEF ResultsPending
<1> QED  BY <1>3, <1>6, <1>7

\* A step that takes a part of the message being walked.
LEMMA WalkingRounds ==
    ASSUME LCInv, RoundsInv, TakeText \/ TakeCall \/ TakeResult \/ DropPart
    PROVE  RoundsInv'
<1>1. /\ parts # None /\ parts # <<>> /\ parts' = Tail(parts) /\ UNCHANGED <<given, todo>>
      /\ parts \in Seq(AnyPart)
  BY WalkingIsBefore DEF TakeText, TakeCall, TakeResult, DropPart
<1>2. TodoIsThread' /\ (RoundsGiven' <=> RoundsGiven) /\ thread' = thread
  BY <1>1 DEF RoundsInv, TodoIsThread, RoundsGiven, given
<1>3. ASSUME RoundsGiven
      PROVE  Paired(lc') /\ WalkKnown'
  <2>1. Paired(lc)
    BY <1>3 DEF RoundsInv
  <2>2. PICK c \in Walkable(thread), k \in Nat :
           WalkedTo(c, k) /\ CallsPending(c, k) /\ ResultsPending(c, k)
    BY <1>1, <1>3 DEF RoundsInv, WalkKnown
  <2>3. WalkedTo(c, k) /\ CallsPending(c, k) /\ ResultsPending(c, k) /\ Answered(c) /\ RoundsComplete(c)
    BY <1>3, <2>2 DEF RoundsGiven, Walkable
  <2>4. c \in Walkable(thread')
    BY <1>2
  <2>5. /\ WalkedTo(c, k + 1)' /\ c[k + 1] = Head(parts) /\ Head(parts) \in AnyPart
    BY <1>1, <2>3, WalkStep
  <2>6. Paired(lc') /\ WalkedTo(c, k + 1)' /\ CallsPending(c, k + 1)' /\ ResultsPending(c, k + 1)'
    <3>1. CASE TakeText
      <4> DEFINE chunks == <<Head(parts).text>>
                 ids == <<>>
      <4>1. GoOn(chunks, ids) /\ ids \in Seq(AnyId) /\ Head(parts).kind = "text"
        BY <3>1, EmptySeq DEF TakeText
      <4> HIDE DEF chunks, ids
      <4> QED  BY <1>1, <2>1, <2>3, <4>1, GoOnRounds
    <3>2. CASE TakeCall
      <4> DEFINE chunks == <<>>
                 ids == <<Head(parts).id>>
      <4>1. GoOn(chunks, ids) /\ Head(parts).kind = "call"
        BY <3>2 DEF TakeCall
      <4>2. ids \in Seq(AnyId)
        BY <2>5 DEF AnyPart, AnyId
      <4>3. Contains(ids, Head(parts).id)
        BY DEF Contains
      <4> HIDE DEF chunks, ids
      <4> QED  BY <1>1, <2>1, <2>3, <4>1, <4>2, <4>3, GoOnRounds
    <3>3. CASE TakeResult
      <4>1. lc' = lc
        BY <3>3 DEF TakeResult
      <4>2. WalkedTo(c, k + 1)' /\ CallsPending(c, k + 1)' /\ ResultsPending(c, k + 1)'
        BY <2>3, <3>3, TakeResultRounds
      <4> QED  BY <2>1, <4>1, <4>2
    <3>4. CASE DropPart
      <4>1. lc' = lc /\ calls' = calls /\ results' = results /\ c[k + 1].kind \notin {"call", "result"}
        BY <2>5, <3>4 DEF DropPart
      <4>2. \A j \in 1..k : j \in 1..k + 1
        OBVIOUS
      <4>3. \A j \in 1..k + 1 : j \in 1..k \/ j = k + 1
        OBVIOUS
      <4>4. CallsPending(c, k + 1)'
        BY <2>3, <4>1, <4>2, <4>3 DEF CallsPending
      <4>5. ResultsPending(c, k + 1)'
        BY <2>3, <4>1, <4>2 DEF ResultsPending
      <4> QED  BY <2>1, <2>5, <4>1, <4>4, <4>5
    <3> QED  BY <3>1, <3>2, <3>3, <3>4
  <2>7. k + 1 \in Nat
    OBVIOUS
  <2>8. WalkKnown'
    BY <2>4, <2>6, <2>7 DEF WalkKnown
  <2> QED  BY <2>6, <2>8
<1> QED  BY <1>2, <1>3 DEF RoundsInv

LEMMA OpenAssistantRounds ==
    ASSUME LCInv, RoundsInv, OpenAssistant
    PROVE  RoundsInv'
<1>1. /\ todo # <<>> /\ Walked(Head(todo)) /\ parts' = Head(todo).content /\ todo' = Tail(todo)
      /\ calls' = <<>> /\ results' = <<>> /\ UNCHANGED <<given, lc>>
  BY DEF OpenAssistant
<1>2. todo \in Seq(AnyMessage)
  BY DEF LCInv, LCTypes
<1>3. /\ Head(todo) \in AnyMessage /\ Head(todo) = todo[1] /\ 1 \in DOMAIN todo
      /\ \A i \in DOMAIN todo' : i + 1 \in DOMAIN todo /\ todo'[i] = todo[i + 1]
  <2>1. Len(todo') = Len(todo) - 1 /\ \A i \in 1..Len(todo') : todo'[i] = todo[i + 1]
    BY <1>1, <1>2, HeadTailProperties
  <2>2. DOMAIN todo = 1..Len(todo) /\ DOMAIN todo' = 1..Len(todo') /\ Len(todo) \in Nat /\ Len(todo) # 0
    BY <1>1, <1>2, HeadTyped, LenProperties, EmptySeq
  <2>3. \A i \in 1..Len(todo') : i + 1 \in 1..Len(todo)
    BY <2>1, <2>2
  <2> QED  BY <1>1, <1>2, <2>1, <2>2, <2>3, HeadTyped
<1>4. TodoIsThread' /\ thread' = thread /\ (RoundsGiven' <=> RoundsGiven)
  BY <1>1, <1>3 DEF RoundsInv, TodoIsThread, RoundsGiven, given
<1>5. PICK n \in DOMAIN thread : Head(todo) = thread[n]
  BY <1>3 DEF RoundsInv, TodoIsThread
<1>6. PICK c \in Walkable(thread') : parts' = c /\ c = thread[n].content
  BY <1>1, <1>4, <1>5 DEF Assistants, Walked, Walkable
<1>7. c \in Seq(AnyPart)
  BY <1>3, <1>5, <1>6 DEF AnyMessage
<1>8. WalkedTo(c, 0)'
  <2>1. Len(c) \in Nat
    BY <1>7, LenProperties
  <2> QED  BY <1>6, <1>7, <2>1 DEF WalkedTo
<1>9. CallsPending(c, 0)' /\ ResultsPending(c, 0)'
  <2>1. Len(results') = 0
    BY <1>1
  <2> QED  BY <1>1, <2>1 DEF CallsPending, ResultsPending
<1>10. WalkKnown'
  BY <1>6, <1>8, <1>9 DEF WalkKnown
<1> QED  BY <1>1, <1>4, <1>10 DEF RoundsInv

LEMMA ConvertRounds ==
    ASSUME LCInv, RoundsInv, Convert
    PROVE  RoundsInv'
<1> DEFINE msg == Head(todo)
<1>1. /\ todo # <<>> /\ ~Walked(msg) /\ todo' = Tail(todo) /\ parts = None /\ parts' = None
      /\ lc' = lc \o ToLC(msg) /\ UNCHANGED given
  BY DEF Convert, walkVars
<1>2. todo \in Seq(AnyMessage) /\ lc \in Seq(AnyLC)
  BY DEF LCInv, LCTypes
<1>3. /\ msg \in AnyMessage /\ msg = todo[1] /\ 1 \in DOMAIN todo
      /\ \A i \in DOMAIN todo' : i + 1 \in DOMAIN todo /\ todo'[i] = todo[i + 1]
  <2>1. Len(todo') = Len(todo) - 1 /\ \A i \in 1..Len(todo') : todo'[i] = todo[i + 1]
    BY <1>1, <1>2, HeadTailProperties
  <2>2. DOMAIN todo = 1..Len(todo) /\ DOMAIN todo' = 1..Len(todo') /\ Len(todo) \in Nat /\ Len(todo) # 0
    BY <1>1, <1>2, HeadTyped, LenProperties, EmptySeq
  <2>3. \A i \in 1..Len(todo') : i + 1 \in 1..Len(todo)
    BY <2>1, <2>2
  <2> QED  BY <1>1, <1>2, <2>1, <2>2, <2>3, HeadTyped
<1>4. TodoIsThread' /\ thread' = thread /\ (RoundsGiven' <=> RoundsGiven)
  BY <1>1, <1>3 DEF RoundsInv, TodoIsThread, RoundsGiven, given
<1>5. PICK n \in DOMAIN thread : msg = thread[n]
  BY <1>3 DEF RoundsInv, TodoIsThread
<1> HIDE DEF msg
<1>6. ASSUME RoundsGiven
      PROVE  Paired(ToLC(msg))
  <2>1. msg.role # "tool"
    BY <1>5, <1>6 DEF RoundsGiven, NoToolRole
  <2>2. CASE IsFeedbackOnly(msg)
    <3>1. ToLC(msg) = <<>>
      BY <2>2 DEF ToLC
    <3> QED  BY <3>1, PairedNone
  <2>3. CASE ~IsFeedbackOnly(msg) /\ msg.role = "user"
    <3> DEFINE m == Human(UserContentToLC(msg.content))
    <3>1. ToLC(msg) = <<m>> /\ m.type = "human"
      BY <2>3 DEF ToLC, Human
    <3> HIDE DEF m
    <3> QED  BY <3>1, PairedOne
  <2>4. CASE ~IsFeedbackOnly(msg) /\ msg.role = "system"
    <3> DEFINE m == System(<<TextPart(GatherText(msg.content))>>)
    <3>1. ToLC(msg) = <<m>> /\ m.type = "system"
      BY <2>4 DEF ToLC, System
    <3> HIDE DEF m
    <3> QED  BY <3>1, PairedOne
  <2> QED  BY <1>1, <1>3, <2>1, <2>2, <2>3, <2>4 DEF Walked, AnyMessage
<1>7. ToLC(msg) \in Seq(AnyLC)
  BY <1>1, <1>3, ToLCTyped
<1>8. RoundsGiven => Paired(lc')
  BY <1>1, <1>2, <1>6, <1>7, PairedCat DEF RoundsInv
<1> QED  BY <1>1, <1>4, <1>8 DEF RoundsInv, WalkKnown

LEMMA CloseAssistantRounds ==
    ASSUME LCInv, RoundsInv, CloseAssistant
    PROVE  RoundsInv'
<1>1. /\ parts = <<>> /\ lc' = lc \o Closing /\ parts' = None /\ UNCHANGED <<given, todo>>
  BY DEF CloseAssistant, Closing
<1>2. parts # None
  BY <1>1, EmptySeq, NoneIsNone
<1>3. TodoIsThread' /\ (RoundsGiven' <=> RoundsGiven)
  BY <1>1 DEF RoundsInv, TodoIsThread, RoundsGiven, given
<1>4. ASSUME RoundsGiven
      PROVE  Paired(lc')
  <2>1. PICK c \in Walkable(thread), k \in Nat : ResultsPending(c, k)
    BY <1>2, <1>4 DEF RoundsInv, WalkKnown
  <2>2. Paired(Group)
    BY <2>1, PendingPaired
  <2>3. Paired(<<AI(<<>>, <<>>)>>)
    <3>1. AI(<<>>, <<>>).type # "tool"
      BY DEF AI
    <3> QED  BY <3>1, PairedOne
  <2>4. Closing \in Seq(AnyLC) /\ Paired(Closing) /\ lc \in Seq(AnyLC)
    BY <2>2, <2>3, ClosingTyped DEF Closing, LCInv, LCTypes
  <2> QED  BY <1>1, <1>4, <2>4, PairedCat DEF RoundsInv
<1> QED  BY <1>1, <1>3, <1>4 DEF RoundsInv, WalkKnown

\* Nothing of this changes while messages come back.
LEMMA BackRounds ==
    ASSUME RoundsInv, UNCHANGED <<given, todo, parts, calls, results, lc>>
    PROVE  RoundsInv'
<1>1. TodoIsThread' /\ (RoundsGiven' <=> RoundsGiven)
  BY DEF RoundsInv, TodoIsThread, RoundsGiven, given
<1>2. WalkKnown => WalkKnown'
  <2> SUFFICES ASSUME WalkKnown, parts # None
               PROVE  WalkKnown'
    BY DEF WalkKnown
  <2>1. PICK c \in Walkable(thread), k \in Nat :
           WalkedTo(c, k) /\ CallsPending(c, k) /\ ResultsPending(c, k)
    BY DEF WalkKnown
  <2>2. c \in Walkable(thread')
    BY DEF given
  <2>4. WalkedTo(c, k)' /\ CallsPending(c, k)' /\ ResultsPending(c, k)'
    BY <2>1 DEF WalkedTo, CallsPending, ResultsPending
  <2> QED  BY <2>2, <2>4 DEF WalkKnown
<1> QED  BY <1>1, <1>2 DEF RoundsInv

LEMMA ResumeRounds ==
    ASSUME Resume
    PROVE  RoundsInv'
<1>1. thread' = out /\ todo' = out /\ lc' = <<>> /\ parts' = None
  BY DEF Resume, Converted, walkVars
<1>2. TodoIsThread' /\ WalkKnown'
  BY <1>1 DEF TodoIsThread, WalkKnown
<1> QED  BY <1>1, <1>2, PairedNone DEF RoundsInv

LEMMA RoundsInvNext == LCInv /\ RoundsInv /\ [LCNext]_lcVars => RoundsInv'
<1> SUFFICES ASSUME LCInv, RoundsInv, [LCNext]_lcVars
             PROVE  RoundsInv'
  OBVIOUS
<1>1. CASE UNCHANGED lcVars
  <2>1. UNCHANGED <<given, todo, parts, calls, results, lc>>
    BY <1>1 DEF lcVars, walkVars
  <2> QED  BY <2>1, BackRounds
<1>2. CASE LCNext
  <2>1. FromHuman \/ FromAI \/ FromTool \/ FromOther \/ FromEnd
           => UNCHANGED <<given, todo, parts, calls, results, lc>>
    BY DEF FromHuman, FromAI, FromTool, FromOther, FromEnd, BackNext, walkVars
  <2> QED  BY <1>2, <2>1, BackRounds, ConvertRounds, OpenAssistantRounds, WalkingRounds,
           CloseAssistantRounds, ResumeRounds DEF LCNext
<1> QED  BY <1>1, <1>2

\* Tool messages follow the AI message that has their calls (langchain.py:107-108),
\* in every list made of messages whose rounds are complete.
THEOREM RoundsArePaired == LCSpec => []RoundsStayPaired
<1>1. RoundsInv => RoundsStayPaired
  BY DEF RoundsInv, RoundsGiven, RoundsStayPaired
<1> QED  BY <1>1, GivenIsReady, ConversionTyped, RoundsInvInit, RoundsInvNext, PTL DEF LCSpec

----------------------------------------------------------------------------
(* Results come back in the message that has their call.                   *)

InlineContent(c) ==
    \A r \in DOMAIN c : c[r].kind = "result" =>
        \E q \in 1..r-1 : c[q].kind = "call" /\ c[q].id = c[r].id

HasCalls(c, ids) ==
    \A id : Contains(ids, id) /\ id # None => \E q \in DOMAIN c : c[q].kind = "call" /\ c[q].id = id

NoResults(c) == \A r \in DOMAIN c : c[r].kind # "result"

\* Only tool messages came back since the AI message at j.
LastTurn(j) == lc[j].type = "ai" /\ \A k \in j+1..back : lc[k].type = "tool"

\* As long as that is so, and something is left, the message has its calls.
TurnPending ==
    \A j \in 1..back : LastTurn(j) =>
        \/ back = Len(lc)
        \/ pendingAssistant # None /\ HasCalls(pendingAssistant.content, lc[j].calls)

AllAnswerAnId == \A i \in DOMAIN lc : lc[i].type = "tool" => lc[i].call_id # None

InlineInv == TurnPending /\ (Paired(lc) /\ AllAnswerAnId => Inline(Flushed))

LEMMA InlineIs ==
    ASSUME NEW t
    PROVE  Inline(t) <=> \A i \in DOMAIN t : InlineContent(t[i].content)
  BY DEF Inline, InlineContent

LEMMA InlineNone == Inline(<<>>)
  BY DEF Inline

LEMMA InlineAppend ==
    ASSUME NEW t \in Seq(AnyMessage), NEW m \in AnyMessage
    PROVE  Inline(Append(t, m)) <=> Inline(t) /\ InlineContent(m.content)
<1> DEFINE u == Append(t, m)
<1>1. /\ DOMAIN u = 1..Len(t) + 1 /\ DOMAIN t = 1..Len(t) /\ Len(t) \in Nat
      /\ \A i \in 1..Len(t) : u[i] = t[i]
      /\ u[Len(t) + 1] = m
  BY AppendProperties, LenProperties
<1> HIDE DEF u
<1>2. \A i \in 1..Len(t) + 1 : i \in 1..Len(t) \/ i = Len(t) + 1
  BY <1>1
<1>3. \A i \in 1..Len(t) : i \in 1..Len(t) + 1
  BY <1>1
<1>4. Len(t) + 1 \in 1..Len(t) + 1
  BY <1>1
<1>5. Inline(u) <=> Inline(t) /\ InlineContent(m.content)
  BY <1>1, <1>2, <1>3, <1>4, InlineIs
<1> QED  BY <1>5 DEF u

LEMMA NoResultsInline ==
    ASSUME NEW c, NoResults(c)
    PROVE  InlineContent(c)
  BY DEF NoResults, InlineContent

LEMMA TextIfAnyNoResults ==
    ASSUME NEW text
    PROVE  NoResults(TextIfAny(text)) /\ NoResults(<<TextPart(text)>>)
<1>1. TextPart(text).kind = "text"
  BY DEF TextPart, Part
<1>2. NoResults(<<TextPart(text)>>)
  <2>1. DOMAIN <<TextPart(text)>> = {1} /\ <<TextPart(text)>>[1] = TextPart(text)
    OBVIOUS
  <2> QED  BY <1>1, <2>1 DEF NoResults
<1> QED  BY <1>2 DEF TextIfAny, NoResults

LEMMA FromLCOneNoResults ==
    ASSUME NEW m \in AnyLC, m.type \in {"human", "system", "other"}
    PROVE  NoResults(FromLCOne(m).content)
<1>1. CASE m.type = "human"
  <2>1. FromLCOne(m).content = UserContentFromLC(m.content)
    BY <1>1 DEF FromLCOne, Message
  <2>2. HasKind(m.content, "image") => NoResults(m.content)
    BY <1>1 DEF AnyLC, NoResults
  <2> QED  BY <2>1, <2>2, TextIfAnyNoResults DEF UserContentFromLC
<1>2. CASE m.type = "system"
  <2>1. FromLCOne(m).content = TextIfAny(Joined(m.content))
    BY <1>2 DEF FromLCOne, Message
  <2> QED  BY <2>1, TextIfAnyNoResults
<1>3. CASE m.type = "other"
  <2>1. FromLCOne(m).content = <<TextPart(Joined(m.content))>>
    BY <1>3 DEF FromLCOne, Message
  <2> QED  BY <2>1, TextIfAnyNoResults
<1> QED  BY <1>1, <1>2, <1>3

LEMMA FromLCTurnIs ==
    ASSUME NEW m \in AnyLC
    PROVE  NoResults(FromLCTurn(m)) /\ HasCalls(FromLCTurn(m), m.calls)
<1> DEFINE c == FromLCTurn(m)
           t == TextIfAny(Joined(m.content))
           g == Mapped(CallPart, m.calls)
<1>1. m.calls \in Seq(AnyId) /\ t \in Seq(AnyPart) /\ g \in Seq(AnyPart)
  BY LCFields, TextIfAnyTyped, CallPartsAre
<1>2. Len(g) = Len(m.calls) /\ \A i \in 1..Len(m.calls) : g[i] = CallPart[m.calls[i]]
  BY <1>1, CallPartMaps, MapTyped
<1>3. NoResults(t)
  BY TextIfAnyNoResults
<1>4. c = t \o g
  BY DEF FromLCTurn
<1> HIDE DEF t, g, c
<1>5. /\ DOMAIN c = 1..Len(t) + Len(g) /\ DOMAIN t = 1..Len(t)
      /\ \A i \in 1..Len(t) + Len(g) : c[i] = IF i <= Len(t) THEN t[i] ELSE g[i - Len(t)]
      /\ Len(t) \in Nat /\ Len(g) \in Nat
  BY <1>1, <1>4, ConcatProperties, LenProperties
<1>6. \A i \in 1..Len(g) : g[i].kind = "call" /\ (m.calls[i] # None => g[i].id = m.calls[i])
  <2>1. \A i \in 1..Len(g) : m.calls[i] \in AnyId
    BY <1>1, <1>2, ElementOfSeq
  <2>2. \A id \in AnyId : CallPart[id].kind = "call" /\ (id # None => CallPart[id].id = id)
    BY DEF CallPart, Part, Named
  <2>3. \A i \in 1..Len(g) : g[i] = CallPart[m.calls[i]]
    BY <1>2
  <2> QED  BY <2>1, <2>2, <2>3
<1>7. ASSUME NEW i \in DOMAIN c
      PROVE  c[i].kind # "result"
  <2>1. CASE i <= Len(t)
    BY <1>3, <1>5, <2>1 DEF NoResults
  <2>2. CASE ~(i <= Len(t))
    <3>1. i - Len(t) \in 1..Len(g)
      BY <1>5, <2>2
    <3> QED  BY <1>5, <1>6, <2>2, <3>1
  <2> QED  BY <2>1, <2>2
<1>8. ASSUME NEW id, Contains(m.calls, id), id # None
      PROVE  \E q \in DOMAIN c : c[q].kind = "call" /\ c[q].id = id
  <2>1. PICK i \in 1..Len(g) : m.calls[i] = id
    BY <1>2, <1>8 DEF Contains
  <2>2. Len(t) + i \in DOMAIN c /\ ~(Len(t) + i <= Len(t)) /\ (Len(t) + i) - Len(t) = i
    BY <1>5
  <2>3. c[Len(t) + i] = g[i]
    BY <1>5, <2>2
  <2> QED  BY <1>6, <1>8, <2>1, <2>2, <2>3
<1>9. NoResults(c) /\ HasCalls(c, m.calls)
  BY <1>7, <1>8 DEF NoResults, HasCalls
<1> QED  BY <1>9 DEF c

LEMMA AppendInline ==
    ASSUME NEW c \in Seq(AnyPart), NEW r \in AnyPart, InlineContent(c),
           \E q \in DOMAIN c : c[q].kind = "call" /\ c[q].id = r.id
    PROVE  InlineContent(Append(c, r))
<1> DEFINE d == Append(c, r)
<1>1. /\ DOMAIN d = 1..Len(c) + 1 /\ DOMAIN c = 1..Len(c) /\ Len(c) \in Nat
      /\ \A i \in 1..Len(c) : d[i] = c[i]
      /\ d[Len(c) + 1] = r
  BY AppendProperties, LenProperties
<1> HIDE DEF d
<1>2. ASSUME NEW i \in DOMAIN d, d[i].kind = "result"
      PROVE  \E q \in 1..i-1 : d[q].kind = "call" /\ d[q].id = d[i].id
  <2>1. CASE i \in 1..Len(c)
    <3>1. PICK q \in 1..i-1 : c[q].kind = "call" /\ c[q].id = c[i].id
      BY <1>1, <1>2, <2>1 DEF InlineContent
    <3>2. q \in 1..Len(c)
      BY <1>1, <2>1, <3>1
    <3> QED  BY <1>1, <2>1, <3>1, <3>2
  <2>2. CASE i = Len(c) + 1
    <3>1. i - 1 = Len(c)
      BY <1>1, <2>2
    <3> QED  BY <1>1, <2>2, <3>1
  <2> QED  BY <1>1, <2>1, <2>2
<1>3. InlineContent(d)
  BY <1>2 DEF InlineContent
<1> QED  BY <1>3 DEF d

LEMMA AppendHasCalls ==
    ASSUME NEW c \in Seq(AnyPart), NEW r \in AnyPart, NEW ids, HasCalls(c, ids)
    PROVE  HasCalls(Append(c, r), ids)
<1> DEFINE d == Append(c, r)
<1>1. /\ DOMAIN d = 1..Len(c) + 1 /\ DOMAIN c = 1..Len(c) /\ Len(c) \in Nat
      /\ \A i \in 1..Len(c) : d[i] = c[i]
  BY AppendProperties, LenProperties
<1> HIDE DEF d
<1>2. \A i \in DOMAIN c : i \in DOMAIN d
  BY <1>1
<1>3. HasCalls(d, ids)
  BY <1>1, <1>2 DEF HasCalls
<1> QED  BY <1>3 DEF d

LEMMA InlineInvInit == LCReady => InlineInv
<1> SUFFICES ASSUME LCReady
             PROVE  InlineInv
  OBVIOUS
<1>1. back = 0 /\ Flushed = <<>>
  BY DEF LCReady, Flushed
<1> QED  BY <1>1, InlineNone DEF InlineInv, TurnPending

LEMMA ForthLeavesBack ==
    ASSUME LCInv, \/ Convert \/ OpenAssistant \/ TakeText \/ TakeCall \/ TakeResult \/ DropPart
                  \/ CloseAssistant \/ Resume
    PROVE  back' = 0 /\ Flushed' = <<>>
<1>1. CASE Resume
  BY <1>1 DEF Resume, Flushed
<1>2. CASE ~Resume
  <2>1. ~Converted /\ UNCHANGED backVars
    <3>1. <<>> # None
      BY EmptySeq, NoneIsNone
    <3> QED  BY <1>2, <3>1 DEF Convert, OpenAssistant, TakeText, TakeCall, TakeResult, DropPart,
             CloseAssistant, Converted
  <2>2. back = 0 /\ pendingAssistant = None /\ out = <<>>
    BY <2>1 DEF LCInv, LCPhases
  <2> QED  BY <2>1, <2>2 DEF Flushed, backVars
<1> QED  BY <1>1, <1>2

LEMMA ForthInline ==
    ASSUME LCInv, \/ Convert \/ OpenAssistant \/ TakeText \/ TakeCall \/ TakeResult \/ DropPart
                  \/ CloseAssistant \/ Resume
    PROVE  InlineInv'
<1>1. back' = 0 /\ Flushed' = <<>>
  BY ForthLeavesBack
<1> QED  BY <1>1, InlineNone DEF InlineInv, TurnPending

\* What a step back does to the turns that are pending.
LEMMA LastTurnStep ==
    ASSUME LCInv, BackNext, NEW j \in 1..back', LastTurn(j)'
    PROVE  /\ lc' = lc /\ back' = back + 1 /\ back \in Nat
           /\ j = back + 1 => lc[back + 1].type = "ai"
           /\ j # back + 1 => j \in 1..back /\ LastTurn(j) /\ lc[back + 1].type = "tool" /\ back # Len(lc)
<1>1. lc' = lc /\ back' = back + 1 /\ back \in Nat /\ back # Len(lc) /\ Len(lc) \in Nat
  BY BackIs, LenProperties DEF BackNext
<1>2. lc[j].type = "ai" /\ \A k \in j+1..back + 1 : lc[k].type = "tool"
  BY <1>1 DEF LastTurn
<1>3. ASSUME j # back + 1
      PROVE  j \in 1..back /\ LastTurn(j) /\ lc[back + 1].type = "tool"
  <2>1. j \in 1..back /\ back + 1 \in j+1..back + 1 /\ \A k \in j+1..back : k \in j+1..back + 1
    BY <1>1, <1>3
  <2> QED  BY <1>2, <2>1 DEF LastTurn
<1> QED  BY <1>1, <1>2, <1>3

LEMMA FromOneInline ==
    ASSUME LCInv, InlineInv, FromOne
    PROVE  InlineInv'
<1>1. /\ BackNext /\ lc[back + 1].type \in {"human", "system", "other"} /\ lc[back + 1] \in AnyLC
      /\ out' = Append(Flushed, FromLCOne(lc[back + 1])) /\ pendingAssistant' = None /\ lc' = lc
  BY BackIs DEF FromOne, BackNext
<1>2. TurnPending'
  BY <1>1, LastTurnStep DEF TurnPending
<1>3. FromLCOne(lc[back + 1]) \in AnyMessage /\ InlineContent(FromLCOne(lc[back + 1]).content)
  BY <1>1, FromLCTyped, FromLCOneNoResults, NoResultsInline
<1>4. Flushed' = Append(Flushed, FromLCOne(lc[back + 1]))
  BY <1>1 DEF Flushed
<1>5. Paired(lc') /\ AllAnswerAnId' => Inline(Flushed')
  BY <1>1, <1>3, <1>4, FlushedTyped, InlineAppend DEF InlineInv, AllAnswerAnId
<1> QED  BY <1>2, <1>5 DEF InlineInv

LEMMA FromAIInline ==
    ASSUME LCInv, InlineInv, FromAI
    PROVE  InlineInv'
<1> DEFINE m == lc[back + 1]
<1>1. /\ BackNext /\ m.type = "ai" /\ m \in AnyLC /\ lc' = lc /\ out' = Flushed
      /\ pendingAssistant' \in AnyMessage /\ pendingAssistant'.content = FromLCTurn(m)
  BY FromAIIs, BackIs DEF BackNext
<1>2. pendingAssistant' # None
  BY <1>1, NoneIsNone
<1>3. NoResults(FromLCTurn(m)) /\ HasCalls(FromLCTurn(m), m.calls)
  BY <1>1, FromLCTurnIs
<1>4. TurnPending'
  <2>1. ASSUME NEW j \in 1..back', LastTurn(j)'
        PROVE  HasCalls(pendingAssistant'.content, lc'[j].calls)
    <3>1. j = back + 1
      BY <1>1, <2>1, LastTurnStep
    <3> QED  BY <1>1, <1>3, <3>1
  <2> QED  BY <1>2, <2>1 DEF TurnPending
<1>5. Flushed' = Append(Flushed, pendingAssistant')
  BY <1>1, <1>2 DEF Flushed
<1>6. InlineContent(pendingAssistant'.content)
  BY <1>1, <1>3, NoResultsInline
<1>7. Paired(lc') /\ AllAnswerAnId' => Inline(Flushed')
  BY <1>1, <1>5, <1>6, FlushedTyped, InlineAppend DEF InlineInv, AllAnswerAnId
<1> QED  BY <1>4, <1>7 DEF InlineInv

LEMMA FromToolInline ==
    ASSUME LCInv, InlineInv, FromTool
    PROVE  InlineInv'
<1> DEFINE m == lc[back + 1]
           r == FromLCResult(m)
<1>1. /\ BackNext /\ m.type = "tool" /\ m \in AnyLC /\ lc' = lc /\ r \in AnyPart /\ back + 1 \in DOMAIN lc
      /\ back \in Nat /\ back # Len(lc)
  <2>1. back + 1 \in 1..Len(lc) /\ lc \in Seq(AnyLC) /\ BackNext
    BY FromToolIs, BackIs
  <2> QED  BY <2>1, FromToolIs, BackIs, LenProperties DEF BackNext
<1>2. r.kind = "result" /\ r.id = m.call_id /\ (AllAnswerAnId => m.call_id # None)
  BY <1>1, FromToolIs DEF FromLCResult, ToolResultFromLC, Result, Part, AllAnswerAnId
<1>3. ASSUME Paired(lc)
      PROVE  \E j \in 1..back : LastTurn(j) /\ Contains(lc[j].calls, m.call_id)
  <2>1. PICK j \in 1..(back+1)-1 : /\ lc[j].type = "ai" /\ Contains(lc[j].calls, m.call_id)
                                   /\ \A k \in j+1..(back+1)-1 : lc[k].type = "tool"
    BY <1>1, <1>3 DEF Paired
  <2>2. (back + 1) - 1 = back
    BY <1>1
  <2> QED  BY <2>1, <2>2 DEF LastTurn
<1>4. CASE pendingAssistant = None
  <2>1. out' = Append(out, Message("tool", <<r>>)) /\ pendingAssistant' = None
    BY <1>4, FromToolIs
  <2>2. ~Paired(lc)
    BY <1>1, <1>3, <1>4 DEF InlineInv, TurnPending
  <2>3. TurnPending'
    <3>1. ASSUME NEW j \in 1..back', LastTurn(j)'
          PROVE  FALSE
      <4>1. j # back + 1
        BY <1>1, <3>1, LastTurnStep
      <4>2. j \in 1..back /\ LastTurn(j)
        BY <1>1, <3>1, <4>1, LastTurnStep
      <4> QED  BY <1>1, <1>4, <4>2 DEF InlineInv, TurnPending
    <3> QED  BY <3>1 DEF TurnPending
  <2> QED  BY <1>1, <2>2, <2>3 DEF InlineInv
<1>5. CASE pendingAssistant # None
  <2> DEFINE c == pendingAssistant.content
             d == Append(c, r)
  <2>1. out' = out /\ pendingAssistant' = Message("assistant", d) /\ c \in Seq(AnyPart)
    BY <1>5, FromToolIs
  <2>2. d \in Seq(AnyPart)
    BY <1>1, <2>1, AppendProperties
  <2>3. pendingAssistant' \in AnyMessage /\ pendingAssistant'.content = d /\ pendingAssistant' # None
    BY <2>1, <2>2, MessageTyped, NoneIsNone
  <2>4. \A ids : HasCalls(c, ids) => HasCalls(d, ids)
    BY <1>1, <2>1, AppendHasCalls
  <2>5. TurnPending'
    <3>1. ASSUME NEW j \in 1..back', LastTurn(j)'
          PROVE  HasCalls(pendingAssistant'.content, lc'[j].calls)
      <4>1. j # back + 1
        BY <1>1, <3>1, LastTurnStep
      <4>2. j \in 1..back /\ LastTurn(j)
        BY <1>1, <3>1, <4>1, LastTurnStep
      <4>3. HasCalls(c, lc[j].calls)
        BY <1>1, <4>2 DEF InlineInv, TurnPending
      <4> QED  BY <1>1, <2>3, <2>4, <4>3
    <3> QED  BY <2>3, <3>1 DEF TurnPending
  <2>6. Flushed = Append(out, pendingAssistant) /\ Flushed' = Append(out, pendingAssistant')
    BY <1>5, <2>1, <2>3 DEF Flushed
  <2>7. out \in Seq(AnyMessage) /\ pendingAssistant \in AnyMessage
    BY <1>5 DEF LCInv, LCTypes
  <2>8. ASSUME Paired(lc), AllAnswerAnId
        PROVE  Inline(Flushed')
    <3>1. Inline(out) /\ InlineContent(c)
      BY <2>6, <2>7, <2>8, InlineAppend DEF InlineInv
    <3>2. PICK j \in 1..back : LastTurn(j) /\ Contains(lc[j].calls, m.call_id)
      BY <1>3, <2>8
    <3>3. HasCalls(c, lc[j].calls)
      BY <1>1, <3>2 DEF InlineInv, TurnPending
    <3>4. \E q \in DOMAIN c : c[q].kind = "call" /\ c[q].id = r.id
      BY <1>2, <2>8, <3>2, <3>3 DEF HasCalls
    <3>5. InlineContent(d)
      BY <1>1, <2>1, <3>1, <3>4, AppendInline
    <3> QED  BY <2>3, <2>6, <2>7, <3>1, <3>5, InlineAppend
  <2> QED  BY <1>1, <2>5, <2>8 DEF InlineInv, AllAnswerAnId
<1> QED  BY <1>4, <1>5

LEMMA FromEndInline ==
    ASSUME LCInv, InlineInv, FromEnd
    PROVE  InlineInv'
<1>1. back' = Len(lc) /\ lc' = lc /\ out' = Flushed /\ pendingAssistant' = None
  BY DEF FromEnd
<1>2. TurnPending'
  BY <1>1 DEF TurnPending
<1>3. Flushed' = Flushed
  BY <1>1 DEF Flushed
<1> QED  BY <1>1, <1>2, <1>3 DEF InlineInv, AllAnswerAnId

LEMMA InlineInvNext == LCInv /\ InlineInv /\ [LCNext]_lcVars => InlineInv'
<1> SUFFICES ASSUME LCInv, InlineInv, [LCNext]_lcVars
             PROVE  InlineInv'
  OBVIOUS
<1>1. CASE UNCHANGED lcVars
  BY <1>1 DEF lcVars, backVars, InlineInv, TurnPending, LastTurn, Flushed, AllAnswerAnId
<1>2. CASE LCNext
  BY <1>2, ForthInline, FromOneIs, FromOneInline, FromAIInline, FromToolInline, FromEndInline DEF LCNext
<1> QED  BY <1>1, <1>2

\* When tool messages follow their calls, every result comes back in the message of its
\* call (langchain.py:20-21), at every point of the way back.
THEOREM ResultsComeBackInline == LCSpec => []ComesBackInline
<1>1. InlineInv => ComesBackInline
  BY DEF InlineInv, ComesBackInline, AllAnswerAnId
<1> QED  BY <1>1, GivenIsReady, ConversionTyped, InlineInvInit, InlineInvNext, PTL DEF LCSpec

----------------------------------------------------------------------------
(* The marks of a content, of a thread and of a list, as maps.             *)

Mark == Kind \X (Token \cup AnyId) \X Seq(Token)

MarkFn == [p \in AnyPart |-> MarksOf(p)]
TextMark == [x \in Token |-> <<"text", x, <<>>>>]
CallMarkFn == [id \in AnyId |-> CallMark(id)]
ResultMark(id, text) == <<"result", id, text>>
Unfiled == {m \in Mark : m[2] # FileMark}

TextMarks(text) == FlatMap(Keeper(Mark, Unfiled), Mapped(TextMark, text))
CallMarks(ids) == Mapped(CallMarkFn, ids)

LEMMA KindsKnown == {"text", "image", "call", "result"} \subseteq Kind
  BY GivenAssumption

LEMMA EmptyText == <<>> \in Seq(Token)
  BY EmptySeq

LEMMA CallMarkTyped ==
    ASSUME NEW id \in AnyId
    PROVE  /\ CallMark(id) \in Mark /\ CallMark(id) \in Unfiled
           /\ CallMark(id)[1] = "call" /\ CallMark(id)[2] # FileMark
<1> DEFINE e == <<>>
<1>1. e \in Seq(Token)
  BY EmptyText
<1>2. CallMark(id) = <<"call", Named(id), e>>
  BY DEF CallMark
<1> HIDE DEF e
<1> QED  BY <1>1, <1>2, NamedTyped, KindsKnown DEF Mark, Unfiled

LEMMA ResultMarkTyped ==
    ASSUME NEW id \in AnyId, NEW text \in Seq(Token)
    PROVE  /\ ResultMark(id, text) \in Mark /\ ResultMark(id, text) \in Unfiled
           /\ ResultMark(id, text)[1] = "result" /\ ResultMark(id, text)[2] # FileMark
  BY GivenAssumption DEF Mark, Unfiled, ResultMark, AnyId

\* The mark of a part that is not a text.
MarkOf(p) ==
    IF p.kind = "result" THEN ResultMark(p.id, ResultText(p))
    ELSE IF p.kind = "call" THEN CallMark(p.id)
    ELSE <<p.kind, p.id, <<>>>>

LEMMA MarkOfIs ==
    ASSUME NEW p \in AnyPart
    PROVE  /\ p.kind # "text" => MarksOf(p) = <<MarkOf(p)>>
           /\ MarkOf(p) \in Mark /\ MarkOf(p)[1] = p.kind /\ MarkOf(p)[2] # FileMark
<1>1. p.kind \in Kind /\ p.id \in AnyId /\ p.text \in Seq(Token)
  BY DEF AnyPart, AnyId
<1>2. ResultText(p) \in Seq(Token)
  BY <1>1, EmptyText DEF ResultText
<1>3. CASE p.kind = "result"
  <2>1. MarkOf(p) = ResultMark(p.id, ResultText(p))
    BY <1>3 DEF MarkOf
  <2>2. MarksOf(p) = <<ResultMark(p.id, ResultText(p))>>
    BY <1>3 DEF MarksOf, ResultMark
  <2> QED  BY <1>1, <1>2, <1>3, <2>1, <2>2, ResultMarkTyped
<1>4. CASE p.kind = "call"
  <2>1. MarkOf(p) = CallMark(p.id) /\ MarksOf(p) = <<CallMark(p.id)>>
    BY <1>4 DEF MarkOf, MarksOf
  <2> QED  BY <1>1, <1>4, <2>1, CallMarkTyped
<1>5. CASE p.kind \notin {"call", "result"}
  <2> DEFINE e == <<>>
  <2>1. e \in Seq(Token)
    BY EmptyText
  <2>2. MarkOf(p) = <<p.kind, p.id, e>>
    BY <1>5 DEF MarkOf
  <2>3. p.kind # "text" => MarksOf(p) = <<<<p.kind, p.id, e>>>>
    BY <1>5 DEF MarksOf
  <2> HIDE DEF e
  <2> QED  BY <1>1, <2>1, <2>2, <2>3, GivenAssumption DEF Mark, AnyId
<1> QED  BY <1>3, <1>4, <1>5

LEMMA MarkMaps ==
    /\ MapsInto(TextMark, Token, Mark) /\ MapsInto(CallMarkFn, AnyId, Mark)
    /\ MapsInto(MarkFn, AnyPart, Seq(Mark))
<1>1. MapsInto(TextMark, Token, Mark)
  BY KindsKnown, EmptyText DEF TextMark, Mark, MapsInto
<1>2. MapsInto(CallMarkFn, AnyId, Mark)
  BY CallMarkTyped DEF CallMarkFn, MapsInto
<1>3. ASSUME NEW p \in AnyPart
      PROVE  MarksOf(p) \in Seq(Mark)
  <2>1. p.kind \in Kind /\ p.id \in AnyId /\ p.text \in Seq(Token)
    BY DEF AnyPart, AnyId
  <2>2. <<MarkOf(p)>> \in Seq(Mark)
    BY MarkOfIs
  <2>3. CASE p.kind = "text"
    <3>1. \A i \in DOMAIN p.text : p.text[i] \in Token
      BY <2>1, LenProperties, ElementOfSeq
    <3>2. MarksOf(p) = Mapped(TextMark, p.text)
      BY <2>3, <3>1 DEF MarksOf, Mapped, TextMark
    <3> QED  BY <1>1, <2>1, <3>2, MapTyped
  <2>4. CASE p.kind # "text"
    BY <2>2, <2>4, MarkOfIs
  <2> QED  BY <2>3, <2>4
<1> QED  BY <1>1, <1>2, <1>3 DEF MapsInto, MarkFn

LEMMA MarksAre ==
    ASSUME NEW c \in Seq(AnyPart), NEW kinds
    PROVE  /\ Marks(c, kinds) =
                 FlatMap(Keeper(Mark, Unfiled), FlatMap(MarkFn, FlatMap(Keeper(AnyPart, Kinds(kinds)), c)))
           /\ FlatMap(Keeper(AnyPart, Kinds(kinds)), c) \in Seq(AnyPart)
           /\ FlatMap(MarkFn, FlatMap(Keeper(AnyPart, Kinds(kinds)), c)) \in Seq(Mark)
           /\ Marks(c, kinds) \in Seq(Mark)
<1> DEFINE shown == OfKind(c, kinds)
           all == FlattenSeq([i \in DOMAIN shown |-> MarksOf(shown[i])])
           I == {i \in DOMAIN all : all[i][2] # FileMark}
<1>1. shown = FlatMap(Keeper(AnyPart, Kinds(kinds)), c) /\ shown \in Seq(AnyPart)
  BY OfKindIs
<1>2. Marks(c, kinds) = Kept(all, I)
  BY DEF Marks
<1> HIDE DEF shown
<1>3. \A i \in DOMAIN shown : shown[i] \in AnyPart
  BY <1>1, LenProperties, ElementOfSeq
<1>4. all = FlatMap(MarkFn, shown)
  <2>1. [i \in DOMAIN shown |-> MarksOf(shown[i])] = Mapped(MarkFn, shown)
    BY <1>3 DEF Mapped, MarkFn
  <2> QED  BY <2>1 DEF FlatMap
<1>5. all \in Seq(Mark)
  BY <1>1, <1>4, MarkMaps, FlatMapTyped
<1>6. ChosenBy(all, I, Unfiled)
  <2> HIDE DEF all
  <2>1. \A i \in DOMAIN all : all[i] \in Mark
    BY <1>5, LenProperties, ElementOfSeq
  <2> QED  BY <2>1 DEF ChosenBy, Unfiled
<1> HIDE DEF all, I
<1>7. Kept(all, I) = FlatMap(Keeper(Mark, Unfiled), all) /\ Kept(all, I) \in Seq(Mark)
  BY <1>5, <1>6, KeptIs
<1> QED  BY <1>1, <1>2, <1>4, <1>5, <1>7

MarksSplits(c, d, kinds) == Marks(c \o d, kinds) = Marks(c, kinds) \o Marks(d, kinds)

LEMMA MarksSplit ==
    ASSUME NEW c \in Seq(AnyPart), NEW d \in Seq(AnyPart), NEW kinds
    PROVE  MarksSplits(c, d, kinds)
<1> DEFINE A == Keeper(AnyPart, Kinds(kinds))
           U == Keeper(Mark, Unfiled)
           w == c \o d
<1>1. w \in Seq(AnyPart)
  BY ConcatProperties
<1>2. MapsInto(A, AnyPart, Seq(AnyPart)) /\ MapsInto(U, Mark, Seq(Mark))
  BY KeeperMaps
<1>3. /\ Marks(w, kinds) = FlatMap(U, FlatMap(MarkFn, FlatMap(A, w)))
      /\ Marks(c, kinds) = FlatMap(U, FlatMap(MarkFn, FlatMap(A, c)))
      /\ Marks(d, kinds) = FlatMap(U, FlatMap(MarkFn, FlatMap(A, d)))
      /\ FlatMap(A, c) \in Seq(AnyPart) /\ FlatMap(A, d) \in Seq(AnyPart)
      /\ FlatMap(MarkFn, FlatMap(A, c)) \in Seq(Mark) /\ FlatMap(MarkFn, FlatMap(A, d)) \in Seq(Mark)
  <2> HIDE DEF w
  <2> QED  BY <1>1, MarksAre
<1> HIDE DEF A, U
<1>4. FlatMap(A, w) = FlatMap(A, c) \o FlatMap(A, d)
  BY <1>2, FlatMapCat
<1>5. FlatMap(MarkFn, FlatMap(A, c) \o FlatMap(A, d))
         = FlatMap(MarkFn, FlatMap(A, c)) \o FlatMap(MarkFn, FlatMap(A, d))
  BY <1>3, MarkMaps, FlatMapCat, SMTT(60)
<1>6. FlatMap(U, FlatMap(MarkFn, FlatMap(A, c)) \o FlatMap(MarkFn, FlatMap(A, d)))
         = FlatMap(U, FlatMap(MarkFn, FlatMap(A, c))) \o FlatMap(U, FlatMap(MarkFn, FlatMap(A, d)))
  <2> DEFINE x == FlatMap(MarkFn, FlatMap(A, c))
             y == FlatMap(MarkFn, FlatMap(A, d))
  <2>1. x \in Seq(Mark) /\ y \in Seq(Mark)
    BY <1>3
  <2> HIDE DEF x, y
  <2>2. FlatMap(U, x \o y) = FlatMap(U, x) \o FlatMap(U, y)
    BY <1>2, <2>1, FlatMapCat
  <2> QED  BY <2>2 DEF x, y
<1>7. Marks(w, kinds) = Marks(c, kinds) \o Marks(d, kinds)
  BY <1>3, <1>4, <1>5, <1>6
<1> QED  BY <1>7 DEF MarksSplits

LEMMA MarksCat ==
    ASSUME NEW c \in Seq(AnyPart), NEW d \in Seq(AnyPart), NEW kinds
    PROVE  Marks(c \o d, kinds) = Marks(c, kinds) \o Marks(d, kinds)
<1>1. MarksSplits(c, d, kinds)
  BY MarksSplit
<1> QED  BY <1>1 DEF MarksSplits

LEMMA MarksNone ==
    ASSUME NEW kinds
    PROVE  Marks(<<>>, kinds) = <<>>
<1>1. <<>> \in Seq(AnyPart)
  BY EmptySeq
<1>2. Marks(<<>>, kinds) =
         FlatMap(Keeper(Mark, Unfiled), FlatMap(MarkFn, FlatMap(Keeper(AnyPart, Kinds(kinds)), <<>>)))
  BY <1>1, MarksAre
<1> QED  BY <1>2, FlatMapEmpty

\* The marks of one part.
LEMMA MarksOne ==
    ASSUME NEW p \in AnyPart, NEW kinds
    PROVE  /\ p.kind \notin kinds => Marks(<<p>>, kinds) = <<>>
           /\ p.kind \in kinds /\ p.kind = "text" => Marks(<<p>>, kinds) = TextMarks(p.text)
           /\ p.kind \in kinds /\ p.kind # "text" => Marks(<<p>>, kinds) = <<MarkOf(p)>>
<1> DEFINE A == Keeper(AnyPart, Kinds(kinds))
           U == Keeper(Mark, Unfiled)
           c == <<p>>
<1>1. c \in Seq(AnyPart)
  OBVIOUS
<1>2. FlatMap(A, c) = A[p]
  BY FlatMapOne
<1>3. FlatMap(MarkFn, c) = MarksOf(p)
  <2>1. FlatMap(MarkFn, c) = MarkFn[p]
    BY FlatMapOne
  <2> QED  BY <2>1 DEF MarkFn
<1>4. A[p] = IF p.kind \in kinds THEN c ELSE <<>>
  BY DEF Keeper, Kinds
<1> HIDE DEF c
<1>5. Marks(c, kinds) = FlatMap(U, FlatMap(MarkFn, A[p]))
  BY <1>1, <1>2, MarksAre
<1> HIDE DEF A
<1>6. p.kind \notin kinds => Marks(c, kinds) = <<>>
  BY <1>4, <1>5, FlatMapEmpty
<1>7. p.kind \in kinds => Marks(c, kinds) = FlatMap(U, MarksOf(p))
  BY <1>3, <1>4, <1>5
<1>8. p.kind = "text" => FlatMap(U, MarksOf(p)) = TextMarks(p.text)
  <2>1. p.text \in Seq(Token)
    BY DEF AnyPart
  <2>2. \A i \in DOMAIN p.text : p.text[i] \in Token
    BY <2>1, LenProperties, ElementOfSeq
  <2>3. p.kind = "text" => MarksOf(p) = Mapped(TextMark, p.text)
    BY <2>2 DEF MarksOf, Mapped, TextMark
  <2> QED  BY <2>3 DEF TextMarks
<1>9. p.kind # "text" => FlatMap(U, MarksOf(p)) = <<MarkOf(p)>>
  <2> DEFINE x == MarkOf(p)
  <2>1. p.kind # "text" => MarksOf(p) = <<x>>
    BY MarkOfIs
  <2>2. x \in Mark /\ x[2] # FileMark
    BY MarkOfIs
  <2> HIDE DEF x
  <2>3. U[x] = <<x>>
    BY <2>2 DEF Keeper, Unfiled
  <2>4. FlatMap(U, <<x>>) = <<x>>
    BY <2>3, FlatMapOne
  <2> QED  BY <2>1, <2>4 DEF x
<1> QED  BY <1>6, <1>7, <1>8, <1>9 DEF c

LEMMA TextMarksIs ==
    ASSUME NEW s \in Seq(Token), NEW t \in Seq(Token)
    PROVE  /\ TextMarks(s) \in Seq(Mark)
           /\ TextMarks(s \o t) = TextMarks(s) \o TextMarks(t)
<1> DEFINE U == Keeper(Mark, Unfiled)
           x == Mapped(TextMark, s)
           y == Mapped(TextMark, t)
<1>1. MapsInto(U, Mark, Seq(Mark))
  BY KeeperMaps
<1>2. x \in Seq(Mark) /\ y \in Seq(Mark)
  BY MarkMaps, MapTyped
<1>3. Mapped(TextMark, s \o t) = x \o y
  BY MarkMaps, MapCat
<1> HIDE DEF U, x, y
<1>4. FlatMap(U, x \o y) = FlatMap(U, x) \o FlatMap(U, y)
  BY <1>1, <1>2, FlatMapCat
<1>5. FlatMap(U, x) \in Seq(Mark)
  BY <1>1, <1>2, FlatMapTyped
<1> QED  BY <1>3, <1>4, <1>5 DEF TextMarks, U, x, y

LEMMA TextMarksNone == TextMarks(<<>>) = <<>>
<1>1. Mapped(TextMark, <<>>) = <<>>
  BY DEF Mapped
<1> QED  BY <1>1, FlatMapEmpty DEF TextMarks

\* A file has no mark.
LEMMA TextMarksFiles ==
    ASSUME NEW t \in Seq({FileMark})
    PROVE  TextMarks(t) = <<>> /\ t \in Seq(Token)
<1> DEFINE U == Keeper(Mark, Unfiled)
           A == {<<"text", FileMark, <<>>>>}
           F == [x \in {FileMark} |-> <<"text", x, <<>>>>]
<1>1. Mapped(TextMark, t) = Mapped(F, t)
  <2>1. \A i \in DOMAIN t : t[i] = FileMark
    BY LenProperties, ElementOfSeq
  <2>2. FileMark \in Token
    BY GivenAssumption
  <2> QED  BY <2>1, <2>2 DEF Mapped, TextMark
<1>2. MapsInto(F, {FileMark}, A)
  BY DEF MapsInto
<1>3. Mapped(F, t) \in Seq(A)
  <2> HIDE DEF F, A
  <2> QED  BY <1>2, MapTyped
<1>4. \A x \in A : U[x] = <<>>
  <2> DEFINE e == <<>>
             x == <<"text", FileMark, e>>
  <2>1. e \in Seq(Token)
    BY EmptyText
  <2>2. A = {x}
    OBVIOUS
  <2> HIDE DEF e, A
  <2>3. x \in Mark /\ x[2] = FileMark
    BY <2>1, KindsKnown, GivenAssumption DEF Mark
  <2> QED  BY <2>2, <2>3 DEF Keeper, Unfiled
<1> HIDE DEF U, A, F
<1>5. FlatMap(U, Mapped(F, t)) = <<>>
  BY <1>3, <1>4, FlatMapNothing
<1>6. t \in Seq(Token)
  <2>1. {FileMark} \subseteq Token
    BY GivenAssumption
  <2> QED  BY <2>1, SeqMonotonic
<1> QED  BY <1>1, <1>5, <1>6 DEF TextMarks, U

LEMMA FilesAreFiles ==
    ASSUME NEW content \in Seq(AnyPart)
    PROVE  Files(content) \in Seq({FileMark})
<1> DEFINE files == OfKind(content, {"file"})
           t == [i \in DOMAIN files |-> TextPart(<<FileMark>>)]
           u == [i \in DOMAIN files |-> <<FileMark>>]
<1>1. files \in Seq(AnyPart)
  BY OfKindIs
<1>2. Files(content) = FlattenSeq([i \in DOMAIN t |-> t[i].text])
  BY DEF Files, Joined
<1> HIDE DEF files
<1>3. [i \in DOMAIN t |-> t[i].text] = u
  <2>1. TextPart(<<FileMark>>).text = <<FileMark>>
    BY DEF TextPart, Part
  <2> QED  BY <2>1
<1>4. u \in Seq(Seq({FileMark}))
  <2>1. <<FileMark>> \in Seq({FileMark})
    OBVIOUS
  <2> QED  BY <1>1, <2>1, ConstantTyped
<1> HIDE DEF u
<1> QED  BY <1>2, <1>3, <1>4, FlattenTyped

LEMMA PartText ==
    ASSUME NEW text \in Seq(Token)
    PROVE  /\ Marks(<<TextPart(text)>>, {"text"}) = TextMarks(text)
           /\ <<TextPart(text)>> \in Seq(AnyPart)
<1> DEFINE p == TextPart(text)
<1>1. p \in AnyPart /\ <<p>> \in Seq(AnyPart) /\ p.kind = "text" /\ p.text = text
  BY TextPartTyped DEF TextPart, Part
<1> HIDE DEF p
<1>2. Marks(<<p>>, {"text"}) = TextMarks(p.text)
  BY <1>1, MarksOne
<1> QED  BY <1>1, <1>2 DEF p

\* The text of a content has the marks of its texts.
LEMMA GatherTextMarks ==
    ASSUME NEW content \in Seq(AnyPart)
    PROVE  TextMarks(GatherText(content)) = Marks(content, {"text"})
<1> DEFINE A == Keeper(AnyPart, Kinds({"text"}))
           Q == {c \in Seq(AnyPart) : TextMarks(FlatMap(TextOf, FlatMap(A, c))) = Marks(c, {"text"})}
<1>0. MapsInto(A, AnyPart, Seq(AnyPart))
  BY KeeperMaps
<1>1. <<>> \in Q
  BY EmptySeq, FlatMapEmpty, MarksNone, TextMarksNone
<1>2. ASSUME NEW c \in Seq(AnyPart), NEW p \in AnyPart, c \in Q
      PROVE  Append(c, p) \in Q
  <2> DEFINE d == <<p>>
             s == FlatMap(A, c)
             x == FlatMap(TextOf, s)
             y == FlatMap(TextOf, A[p])
  <2>1. d \in Seq(AnyPart) /\ Append(c, p) = c \o d /\ Append(c, p) \in Seq(AnyPart)
    BY AppendIsConcat, AppendProperties
  <2>2. A[p] = IF p.kind = "text" THEN d ELSE <<>>
    BY DEF Keeper, Kinds
  <2>3. FlatMap(TextOf, d) = p.text
    <3>1. FlatMap(TextOf, d) = TextOf[p]
      BY FlatMapOne
    <3> QED  BY <3>1 DEF TextOf
  <2>4. Marks(d, {"text"}) = IF p.kind = "text" THEN TextMarks(p.text) ELSE <<>>
    BY MarksOne
  <2> HIDE DEF d, A
  <2>5. FlatMap(A, Append(c, p)) = s \o A[p] /\ s \in Seq(AnyPart) /\ A[p] \in Seq(AnyPart)
    <3>1. A[p] \in Seq(AnyPart)
      BY <2>1, <2>2, EmptySeq
    <3>2. FlatMap(A, Append(c, p)) = s \o A[p]
      BY <1>0, FlatMapMore, ZenonT(60)
    <3>3. s \in Seq(AnyPart)
      BY <1>0, FlatMapTyped, ZenonT(60)
    <3> QED  BY <3>1, <3>2, <3>3
  <2> HIDE DEF s
  <2>6. FlatMap(TextOf, s \o A[p]) = x \o y /\ x \in Seq(Token) /\ y \in Seq(Token)
    <3> DEFINE z == A[p]
    <3>1. z \in Seq(AnyPart)
      BY <2>5
    <3> HIDE DEF z
    <3>0. s \in Seq(AnyPart)
      BY <2>5
    <3>2. FlatMap(TextOf, s \o z) = FlatMap(TextOf, s) \o FlatMap(TextOf, z)
      BY <3>0, <3>1, TextOfMaps, FlatMapCat, SMTT(60)
    <3>3. FlatMap(TextOf, s) \in Seq(Token)
      BY <2>5, TextOfMaps, FlatMapTyped
    <3>4. FlatMap(TextOf, z) \in Seq(Token)
      BY <3>1, TextOfMaps, FlatMapTyped
    <3> QED  BY <3>2, <3>3, <3>4 DEF z
  <2>7. TextMarks(y) = Marks(d, {"text"})
    BY <2>2, <2>3, <2>4, FlatMapEmpty, TextMarksNone
  <2>8. TextMarks(x) = Marks(c, {"text"})
    BY <1>2 DEF s, A
  <2> HIDE DEF x, y
  <2>9. TextMarks(x \o y) = TextMarks(x) \o TextMarks(y)
    BY <2>6, TextMarksIs
  <2>10. Marks(c \o d, {"text"}) = Marks(c, {"text"}) \o Marks(d, {"text"})
    BY <2>1, MarksCat
  <2>11. TextMarks(FlatMap(TextOf, FlatMap(A, Append(c, p)))) = Marks(Append(c, p), {"text"})
    BY <2>1, <2>5, <2>6, <2>7, <2>8, <2>9, <2>10
  <2> QED  BY <2>1, <2>11 DEF A
<1>3. Seq(AnyPart) \subseteq Q
  <2> HIDE DEF Q
  <2> QED  BY <1>1, <1>2, SeqInduction
<1>4. GatherText(content) = FlatMap(TextOf, FlatMap(A, content))
  BY OfKindIs, JoinedIs DEF GatherText
<1> QED  BY <1>3, <1>4

Blocks(c) == Mapped(ShownBlock, FlatMap(Keeper(AnyPart, BlockShown), c))

\* So have the blocks a content with an image is sent as.
LEMMA BlocksMarks ==
    ASSUME NEW content \in Seq(AnyPart)
    PROVE  Marks(Blocks(content), {"text"}) = Marks(content, {"text"}) /\ Blocks(content) \in Seq(AnyPart)
<1> DEFINE A == Keeper(AnyPart, BlockShown)
           Q == {c \in Seq(AnyPart) : Marks(Blocks(c), {"text"}) = Marks(c, {"text"})}
<1>0. MapsInto(A, AnyPart, Seq(AnyPart))
  BY KeeperMaps
<1>1. ASSUME NEW c \in Seq(AnyPart)
      PROVE  FlatMap(A, c) \in Seq(AnyPart) /\ Mapped(ShownBlock, FlatMap(A, c)) \in Seq(AnyPart)
  <2>1. FlatMap(A, c) \in Seq(AnyPart)
    BY <1>0, FlatMapTyped
  <2> QED  BY <2>1, RenderedMaps, MapTyped
<1>2. <<>> \in Q
  <2>1. Mapped(ShownBlock, <<>>) = <<>>
    BY DEF Mapped
  <2> QED  BY <2>1, EmptySeq, FlatMapEmpty DEF Blocks
<1>3. ASSUME NEW c \in Seq(AnyPart), NEW p \in AnyPart, c \in Q
      PROVE  Append(c, p) \in Q
  <2> DEFINE d == <<p>>
             s == FlatMap(A, c)
             z == A[p]
             x == Mapped(ShownBlock, s)
             y == Mapped(ShownBlock, z)
  <2>1. d \in Seq(AnyPart) /\ Append(c, p) = c \o d /\ Append(c, p) \in Seq(AnyPart)
    BY AppendIsConcat, AppendProperties
  <2>2. z = IF p \in BlockShown THEN d ELSE <<>>
    BY DEF Keeper
  <2>3. s \in Seq(AnyPart) /\ x \in Seq(AnyPart)
    BY <1>1
  <2>4. z \in Seq(AnyPart)
    BY <2>1, <2>2, EmptySeq
  <2>5. Mapped(ShownBlock, d) = <<ShownBlock[p]>>
    BY DEF Mapped
  <2>6. Mapped(ShownBlock, <<>>) = <<>>
    BY DEF Mapped
  <2>7. Marks(y, {"text"}) = Marks(d, {"text"})
    <3>1. CASE p.kind = "file"
      <4>1. y = <<TextPart(<<FileMark>>)>>
        BY <2>2, <2>5, <3>1 DEF BlockShown, ShownBlock
      <4>2. <<FileMark>> \in Seq({FileMark})
        OBVIOUS
      <4>3. Marks(y, {"text"}) = <<>>
        BY <4>1, <4>2, FileMarkTyped, PartText, TextMarksFiles
      <4> QED  BY <3>1, <4>3, MarksOne
    <3>2. CASE p.kind # "file" /\ p \in BlockShown
      <4>1. y = d
        BY <2>2, <2>5, <3>2 DEF ShownBlock
      <4> QED  BY <4>1
    <3>3. CASE p \notin BlockShown
      <4>1. y = <<>>
        BY <2>2, <2>6, <3>3
      <4>2. p.kind # "text" \/ p.text = <<>>
        BY <3>3 DEF BlockShown
      <4>3. Marks(d, {"text"}) = <<>>
        BY <4>2, MarksOne, TextMarksNone
      <4> QED  BY <4>1, <4>3, MarksNone
    <3> QED  BY <3>1, <3>2, <3>3
  <2>8. Marks(x, {"text"}) = Marks(c, {"text"})
    BY <1>3 DEF Blocks
  <2>9. FlatMap(A, Append(c, p)) = s \o z
    BY <1>0, FlatMapMore
  <2> HIDE DEF A, d, s, z
  <2>10. Mapped(ShownBlock, s \o z) = x \o y
    <3>1. s \in Seq(AnyPart) /\ z \in Seq(AnyPart)
      BY <2>3, <2>4
    <3> HIDE DEF x, y, Q
    <3>2. Mapped(ShownBlock, s \o z) = Mapped(ShownBlock, s) \o Mapped(ShownBlock, z)
      BY <3>1, RenderedMaps, MapCat, SMTT(60)
    <3> QED  BY <3>2 DEF x, y
  <2>11. y \in Seq(AnyPart)
    BY <2>4, RenderedMaps, MapTyped
  <2> HIDE DEF x, y
  <2>12. Marks(x \o y, {"text"}) = Marks(x, {"text"}) \o Marks(y, {"text"})
    <3>1. x \in Seq(AnyPart)
      BY <2>3
    <3> QED
      <4>1. MarksSplits(x, y, {"text"})
        BY <2>11, <3>1, MarksSplit
      <4> QED  BY <4>1 DEF MarksSplits
  <2>13. Marks(c \o d, {"text"}) = Marks(c, {"text"}) \o Marks(d, {"text"})
    BY <2>1, MarksCat
  <2>14. Blocks(Append(c, p)) = x \o y
    BY <2>9, <2>10 DEF Blocks, A
  <2>15. Marks(Blocks(Append(c, p)), {"text"}) = Marks(Append(c, p), {"text"})
    BY <2>1, <2>7, <2>8, <2>12, <2>13, <2>14
  <2> QED  BY <2>1, <2>15
<1>4. Seq(AnyPart) \subseteq Q
  <2> HIDE DEF Q
  <2> QED  BY <1>2, <1>3, SeqInduction
<1> QED  BY <1>1, <1>4 DEF Blocks

LEMMA UserMarks ==
    ASSUME NEW content \in Seq(AnyPart)
    PROVE  Marks(UserContentToLC(content), {"text"}) = Marks(content, {"text"})
<1>1. CASE HasKind(content, "image")
  <2>1. UserContentToLC(content) = Blocks(content)
    BY <1>1, BlocksAre DEF Blocks
  <2> QED  BY <2>1, BlocksMarks
<1>2. CASE ~HasKind(content, "image")
  <2> DEFINE g == GatherText(content)
             f == Files(content)
  <2>1. UserContentToLC(content) = <<TextPart(g \o f)>>
    BY <1>2 DEF UserContentToLC
  <2>2. g \in Seq(Token) /\ f \in Seq(Token) /\ TextMarks(f) = <<>>
    BY GatherTextTyped, FilesAreFiles, TextMarksFiles
  <2>3. TextMarks(g) = Marks(content, {"text"})
    BY GatherTextMarks
  <2> HIDE DEF f, g
  <2>4. g \o f \in Seq(Token) /\ TextMarks(g \o f) = TextMarks(g) \o TextMarks(f)
    BY <2>2, ConcatProperties, TextMarksIs
  <2>5. TextMarks(g) \o <<>> = TextMarks(g)
    BY <2>2, TextMarksIs, ConcatEmptySeq
  <2> QED  BY <2>1, <2>2, <2>3, <2>4, <2>5, PartText
<1> QED  BY <1>1, <1>2

----------------------------------------------------------------------------
(* The marks of messages.                                                  *)

LCMark == [m \in AnyLC |-> IF m.type = "tool" THEN <<ResultMark(m.call_id, Joined(m.content))>>
                           ELSE Marks(m.content, {"text"}) \o CallMarks(m.calls)]
MessageMark == [m \in AnyMessage |-> Marks(m.content, Shown[m.role])]

LEMMA CallMarksIs ==
    ASSUME NEW s \in Seq(AnyId), NEW t \in Seq(AnyId)
    PROVE  /\ CallMarks(s) \in Seq(Mark)
           /\ CallMarks(s \o t) = CallMarks(s) \o CallMarks(t)
           /\ CallMarks(s) = [j \in DOMAIN s |-> CallMark(s[j])]
<1>1. \A i \in DOMAIN s : s[i] \in AnyId
  BY LenProperties, ElementOfSeq
<1>2. CallMarks(s) = [j \in DOMAIN s |-> CallMark(s[j])]
  BY <1>1 DEF CallMarks, Mapped, CallMarkFn
<1>3. CallMarks(s) \in Seq(Mark)
  BY MarkMaps, MapTyped DEF CallMarks
<1>4. CallMarks(s \o t) = CallMarks(s) \o CallMarks(t)
  BY MarkMaps, MapCat DEF CallMarks
<1> QED  BY <1>2, <1>3, <1>4

LEMMA CallMarksNone == CallMarks(<<>>) = <<>>
  BY DEF CallMarks, Mapped

LEMMA MessageMaps == MapsInto(LCMark, AnyLC, Seq(Mark)) /\ MapsInto(MessageMark, AnyMessage, Seq(Mark))
<1>1. ASSUME NEW m \in AnyLC
      PROVE  LCMark[m] \in Seq(Mark)
  <2>1. m.content \in Seq(AnyPart) /\ m.calls \in Seq(AnyId) /\ m.call_id \in AnyId
    BY LCFields
  <2>2. Marks(m.content, {"text"}) \in Seq(Mark) /\ CallMarks(m.calls) \in Seq(Mark)
    BY <2>1, MarksAre, CallMarksIs
  <2>3. Marks(m.content, {"text"}) \o CallMarks(m.calls) \in Seq(Mark)
    BY <2>2, ConcatProperties
  <2>4. <<ResultMark(m.call_id, Joined(m.content))>> \in Seq(Mark)
    BY <2>1, LCFields, ResultMarkTyped
  <2> QED  BY <2>3, <2>4 DEF LCMark
<1>2. ASSUME NEW m \in AnyMessage
      PROVE  MessageMark[m] \in Seq(Mark)
  <2>1. m.content \in Seq(AnyPart)
    BY DEF AnyMessage
  <2> QED  BY <2>1, MarksAre DEF MessageMark
<1> QED  BY <1>1, <1>2 DEF MapsInto, LCMark, MessageMark

LEMMA LCMarksAre ==
    ASSUME NEW l \in Seq(AnyLC)
    PROVE  LCMarks(l) = FlatMap(LCMark, l) /\ LCMarks(l) \in Seq(Mark)
<1> DEFINE F(m) == IF m.type = "tool" THEN <<ResultMark(m.call_id, Joined(m.content))>>
                   ELSE Marks(m.content, {"text"}) \o [j \in DOMAIN m.calls |-> CallMark(m.calls[j])]
<1>1. \A i \in DOMAIN l : l[i] \in AnyLC
  BY LenProperties, ElementOfSeq
<1>2. ASSUME NEW m \in AnyLC
      PROVE  F(m) = LCMark[m]
  <2>1. CallMarks(m.calls) = [j \in DOMAIN m.calls |-> CallMark(m.calls[j])]
    BY LCFields, CallMarksIs
  <2> QED  BY <2>1 DEF LCMark
<1>3. LCMarks(l) = FlattenSeq([i \in DOMAIN l |-> F(l[i])])
  BY DEF LCMarks, ResultMark
<1> HIDE DEF F
<1>4. [i \in DOMAIN l |-> F(l[i])] = Mapped(LCMark, l)
  BY <1>1, <1>2 DEF Mapped
<1>5. LCMarks(l) = FlatMap(LCMark, l)
  BY <1>3, <1>4 DEF FlatMap
<1> QED  BY <1>5, MessageMaps, FlatMapTyped

LEMMA ThreadMarksAre ==
    ASSUME NEW t \in Seq(AnyMessage)
    PROVE  ThreadMarks(t) = FlatMap(MessageMark, t) /\ ThreadMarks(t) \in Seq(Mark)
<1>1. \A i \in DOMAIN t : t[i] \in AnyMessage
  BY LenProperties, ElementOfSeq
<1>2. [i \in DOMAIN t |-> Marks(t[i].content, Shown[t[i].role])] = Mapped(MessageMark, t)
  BY <1>1 DEF Mapped, MessageMark
<1>3. ThreadMarks(t) = FlatMap(MessageMark, t)
  BY <1>2 DEF ThreadMarks, FlatMap
<1> QED  BY <1>3, MessageMaps, FlatMapTyped

LEMMA LCMarksCat ==
    ASSUME NEW l \in Seq(AnyLC), NEW g \in Seq(AnyLC)
    PROVE  LCMarks(l \o g) = LCMarks(l) \o LCMarks(g)
<1>1. FlatMap(LCMark, l \o g) = FlatMap(LCMark, l) \o FlatMap(LCMark, g)
  BY MessageMaps, FlatMapCat
<1>2. l \o g \in Seq(AnyLC)
  BY ConcatProperties
<1> QED  BY <1>1, <1>2, LCMarksAre

LEMMA LCMarksNone == LCMarks(<<>>) = <<>>
  BY EmptySeq, LCMarksAre, FlatMapEmpty

LEMMA LCMarksOne ==
    ASSUME NEW m \in AnyLC
    PROVE  /\ LCMarks(<<m>>) = LCMark[m] /\ <<m>> \in Seq(AnyLC)
           /\ m.type = "tool" => LCMarks(<<m>>) = <<ResultMark(m.call_id, Joined(m.content))>>
           /\ m.type \notin {"tool", "ai"} => LCMarks(<<m>>) = Marks(m.content, {"text"})
           /\ m.type = "ai" => LCMarks(<<m>>) = Marks(m.content, {"text"}) \o CallMarks(m.calls)
<1> DEFINE l == <<m>>
<1>1. l \in Seq(AnyLC) /\ FlatMap(LCMark, l) = LCMark[m]
  BY FlatMapOne
<1> HIDE DEF l
<1>2. LCMarks(l) = LCMark[m]
  BY <1>1, LCMarksAre
<1>3. m.type # "ai" => m.calls = <<>>
  BY DEF AnyLC
<1>4. Marks(m.content, {"text"}) \o <<>> = Marks(m.content, {"text"})
  BY LCFields, MarksAre, ConcatEmptySeq
<1> QED  BY <1>1, <1>2, <1>3, <1>4, CallMarksNone DEF LCMark, l

LEMMA ThreadMarksMore ==
    ASSUME NEW t \in Seq(AnyMessage), NEW m \in AnyMessage
    PROVE  ThreadMarks(Append(t, m)) = ThreadMarks(t) \o Marks(m.content, Shown[m.role])
<1>1. FlatMap(MessageMark, Append(t, m)) = FlatMap(MessageMark, t) \o MessageMark[m]
  BY MessageMaps, FlatMapMore
<1>2. Append(t, m) \in Seq(AnyMessage)
  BY AppendProperties
<1> QED  BY <1>1, <1>2, ThreadMarksAre DEF MessageMark

LEMMA ThreadMarksHead ==
    ASSUME NEW t \in Seq(AnyMessage), t # <<>>
    PROVE  ThreadMarks(t) = Marks(Head(t).content, Shown[Head(t).role]) \o ThreadMarks(Tail(t))
<1>1. FlatMap(MessageMark, t) = MessageMark[Head(t)] \o FlatMap(MessageMark, Tail(t))
  BY MessageMaps, FlatMapHead
<1>2. Head(t) \in AnyMessage /\ Tail(t) \in Seq(AnyMessage)
  BY HeadTyped
<1> QED  BY <1>1, <1>2, ThreadMarksAre DEF MessageMark

----------------------------------------------------------------------------
(* What comes back has the marks of what was converted.                    *)

\* A message that is not a human's blocks is one text.
LEMMA OneTextMessage ==
    ASSUME NEW m \in AnyLC, ~(m.type = "human" /\ HasKind(m.content, "image"))
    PROVE  /\ Joined(m.content) \in Seq(Token) /\ m.content = <<TextPart(Joined(m.content))>>
           /\ Marks(m.content, {"text"}) = TextMarks(Joined(m.content))
           /\ ~HasKind(m.content, "image")
<1> DEFINE t == m.content[1].text
           p == TextPart(t)
<1>1. m.content \in Seq(AnyPart) /\ m.content = <<p>>
  BY DEF AnyLC
<1>2. p \in AnyPart
  <2> HIDE DEF p
  <2>1. Len(m.content) = 1 /\ m.content[1] = p
    BY <1>1
  <2> QED  BY <1>1, <2>1, ElementOfSeq
<1>3. p.kind = "text" /\ p.text = t
  BY DEF TextPart, Part
<1>4. t \in Seq(Token)
  BY <1>2, <1>3 DEF AnyPart
<1>5. ~HasKind(m.content, "image")
  <2> HIDE DEF p
  <2>1. DOMAIN m.content = {1} /\ m.content[1] = p
    BY <1>1
  <2> QED  BY <1>3, <2>1 DEF HasKind
<1> HIDE DEF t
<1>6. Joined(m.content) = t
  <2> HIDE DEF p
  <2>1. FlatMap(TextOf, <<p>>) = TextOf[p]
    BY FlatMapOne
  <2>2. Joined(m.content) = FlatMap(TextOf, m.content)
    BY <1>1, JoinedIs
  <2> QED  BY <1>1, <1>2, <1>3, <2>1, <2>2 DEF TextOf
<1>7. Marks(m.content, {"text"}) = TextMarks(t)
  BY <1>1, <1>4, PartText
<1> QED  BY <1>1, <1>4, <1>5, <1>6, <1>7

LEMMA TextIfAnyMarks ==
    ASSUME NEW text \in Seq(Token), NEW kinds, "text" \in kinds
    PROVE  Marks(TextIfAny(text), kinds) = TextMarks(text)
<1> DEFINE p == TextPart(text)
<1>1. p \in AnyPart /\ p.kind = "text" /\ p.text = text
  BY TextPartTyped DEF TextPart, Part
<1> HIDE DEF p
<1>2. Marks(<<p>>, kinds) = TextMarks(text)
  BY <1>1, MarksOne
<1>3. text = <<>> => Marks(TextIfAny(text), kinds) = TextMarks(text)
  BY MarksNone, TextMarksNone DEF TextIfAny
<1>4. text # <<>> => Marks(TextIfAny(text), kinds) = TextMarks(text)
  BY <1>2 DEF TextIfAny, p
<1> QED  BY <1>3, <1>4

LEMMA CallPartsMarks ==
    ASSUME NEW ids \in Seq(AnyId), NEW kinds, "call" \in kinds
    PROVE  Marks(Mapped(CallPart, ids), kinds) = CallMarks(ids)
<1> DEFINE Q == {s \in Seq(AnyId) : Marks(Mapped(CallPart, s), kinds) = CallMarks(s)}
<1>1. <<>> \in Q
  <2>1. Mapped(CallPart, <<>>) = <<>>
    BY DEF Mapped
  <2> QED  BY <2>1, EmptySeq, MarksNone, CallMarksNone
<1>2. ASSUME NEW s \in Seq(AnyId), NEW id \in AnyId, s \in Q
      PROVE  Append(s, id) \in Q
  <2> DEFINE t == <<id>>
             p == CallPart[id]
  <2>1. t \in Seq(AnyId) /\ Append(s, id) = s \o t /\ Append(s, id) \in Seq(AnyId)
    BY AppendIsConcat, AppendProperties
  <2>2. Mapped(CallPart, t) = <<p>>
    BY DEF Mapped
  <2>3. CallMarks(t) = <<CallMark(id)>>
    BY DEF CallMarks, Mapped, CallMarkFn
  <2>4. p \in AnyPart /\ p.kind = "call" /\ p.id = Named(id)
    BY CallPartMaps DEF CallPart, Part, MapsInto
  <2> HIDE DEF t, p
  <2>5. Mapped(CallPart, s \o t) = Mapped(CallPart, s) \o Mapped(CallPart, t)
    BY <2>1, CallPartMaps, MapCat
  <2>6. Mapped(CallPart, s) \in Seq(AnyPart) /\ Mapped(CallPart, t) \in Seq(AnyPart)
    BY <2>1, CallPartsAre
  <2>7. Marks(<<p>>, kinds) = <<CallMark(id)>>
    <3>1. MarkOf(p) = CallMark(id)
      BY <2>4, NamedTyped DEF MarkOf
    <3> QED  BY <2>4, <3>1, MarksOne
  <2> DEFINE x == Mapped(CallPart, s)
             y == Mapped(CallPart, t)
  <2> HIDE DEF x, y
  <2>8. x \in Seq(AnyPart) /\ y \in Seq(AnyPart)
    BY <2>6 DEF x, y
  <2>9. Marks(x \o y, kinds) = Marks(x, kinds) \o Marks(y, kinds)
    BY <2>8, MarksCat
  <2>10. CallMarks(s \o t) = CallMarks(s) \o CallMarks(t)
    BY <2>1, CallMarksIs
  <2>11. Marks(x, kinds) = CallMarks(s) /\ Marks(y, kinds) = CallMarks(t)
    BY <1>2, <2>2, <2>3, <2>7 DEF x, y
  <2>12. Marks(Mapped(CallPart, s \o t), kinds) = CallMarks(s \o t)
    BY <2>5, <2>9, <2>10, <2>11 DEF x, y
  <2> QED  BY <2>1, <2>12
<1>3. Seq(AnyId) \subseteq Q
  <2> HIDE DEF Q
  <2> QED  BY <1>1, <1>2, SeqInduction
<1> QED  BY <1>3

LEMMA ShownIs ==
    /\ Shown["user"] = {"text"} /\ Shown["system"] = {"text"} /\ Shown["tool"] = {"result"}
    /\ Shown["assistant"] = {"text", "call", "result"}
  BY DEF Shown

LEMMA FromLCOneMarks ==
    ASSUME NEW m \in AnyLC, m.type \in {"human", "system", "other"}
    PROVE  Marks(FromLCOne(m).content, Shown[FromLCOne(m).role]) = LCMarks(<<m>>)
<1>1. LCMarks(<<m>>) = Marks(m.content, {"text"})
  BY LCMarksOne
<1>2. FromLCOne(m).role \in {"user", "system"} /\ Shown[FromLCOne(m).role] = {"text"}
  BY ShownIs DEF FromLCOne, Message
<1>3. FromLCOne(m).content \in {UserContentFromLC(m.content), TextIfAny(Joined(m.content)), <<TextPart(Joined(m.content))>>}
      /\ (m.type = "human" => FromLCOne(m).content = UserContentFromLC(m.content))
      /\ (m.type # "human" => FromLCOne(m).content # UserContentFromLC(m.content)
            \/ FromLCOne(m).content \in {TextIfAny(Joined(m.content)), <<TextPart(Joined(m.content))>>})
  BY DEF FromLCOne, Message
<1>4. CASE m.type = "human" /\ HasKind(m.content, "image")
  BY <1>1, <1>2, <1>3, <1>4 DEF UserContentFromLC
<1>5. CASE ~(m.type = "human" /\ HasKind(m.content, "image"))
  <2> DEFINE t == Joined(m.content)
  <2>1. t \in Seq(Token) /\ m.content = <<TextPart(t)>> /\ Marks(m.content, {"text"}) = TextMarks(t)
        /\ ~HasKind(m.content, "image")
    BY <1>5, OneTextMessage
  <2>2. Marks(TextIfAny(t), {"text"}) = TextMarks(t) /\ Marks(<<TextPart(t)>>, {"text"}) = TextMarks(t)
    BY <2>1, TextIfAnyMarks, PartText
  <2>3. FromLCOne(m).content \in {TextIfAny(t), <<TextPart(t)>>}
    BY <1>3, <2>1 DEF UserContentFromLC
  <2> QED  BY <1>1, <1>2, <2>1, <2>2, <2>3
<1> QED  BY <1>4, <1>5

LEMMA FromLCTurnMarks ==
    ASSUME NEW m \in AnyLC, m.type = "ai"
    PROVE  Marks(FromLCTurn(m), Shown["assistant"]) = LCMarks(<<m>>)
<1> DEFINE t == Joined(m.content)
           K == Shown["assistant"]
           x == TextIfAny(t)
           y == Mapped(CallPart, m.calls)
<1>1. t \in Seq(Token) /\ Marks(m.content, {"text"}) = TextMarks(t)
  BY OneTextMessage
<1>2. "text" \in K /\ "call" \in K /\ m.calls \in Seq(AnyId)
  BY ShownIs, LCFields
<1> HIDE DEF t, K
<1>3. Marks(x, K) = TextMarks(t) /\ x \in Seq(AnyPart)
  BY <1>1, <1>2, TextIfAnyMarks, TextIfAnyTyped
<1>4. Marks(y, K) = CallMarks(m.calls) /\ y \in Seq(AnyPart)
  BY <1>2, CallPartsMarks, CallPartsAre
<1>5. FromLCTurn(m) = x \o y
  BY DEF FromLCTurn, t
<1> HIDE DEF x, y
<1>6. x \in Seq(AnyPart) /\ y \in Seq(AnyPart)
  BY <1>3, <1>4
<1>7. Marks(x \o y, K) = Marks(x, K) \o Marks(y, K)
  BY <1>6, MarksCat
<1>8. LCMarks(<<m>>) = TextMarks(t) \o CallMarks(m.calls)
  BY <1>1, LCMarksOne
<1> QED  BY <1>3, <1>4, <1>5, <1>7, <1>8 DEF K

LEMMA FromLCResultMarks ==
    ASSUME NEW m \in AnyLC, m.type = "tool"
    PROVE  /\ Marks(<<FromLCResult(m)>>, Shown["tool"]) = LCMarks(<<m>>)
           /\ Marks(<<FromLCResult(m)>>, Shown["assistant"]) = LCMarks(<<m>>)
<1> DEFINE r == FromLCResult(m)
<1>1. r \in AnyPart /\ r.kind = "result" /\ MarkOf(r) = ResultMark(m.call_id, Joined(m.content))
  <2>1. r \in AnyPart
    BY FromLCTyped
  <2>2. r.kind = "result" /\ r.id = m.call_id /\ ResultText(r) = Joined(m.content)
    BY DEF FromLCResult, ToolResultFromLC, Result, Part, ResultText
  <2> QED  BY <2>1, <2>2 DEF MarkOf
<1> HIDE DEF r
<1>2. Marks(<<r>>, Shown["tool"]) = <<ResultMark(m.call_id, Joined(m.content))>>
  BY <1>1, ShownIs, MarksOne
<1>3. Marks(<<r>>, Shown["assistant"]) = <<ResultMark(m.call_id, Joined(m.content))>>
  BY <1>1, ShownIs, MarksOne
<1> QED  BY <1>2, <1>3, LCMarksOne DEF r

\* The messages converted back, and the next one.
LEMMA BackList ==
    ASSUME LCInv, BackNext
    PROVE  /\ SubSeq(lc, 1, back)' = SubSeq(lc, 1, back) \o <<lc[back + 1]>>
           /\ SubSeq(lc, 1, back) \in Seq(AnyLC) /\ <<lc[back + 1]>> \in Seq(AnyLC)
<1> DEFINE n == back + 1
           m == lc[n]
           s == SubSeq(lc, 1, back)
<1>1. n \in 1..Len(lc) /\ m \in AnyLC /\ back \in Nat /\ lc \in Seq(AnyLC) /\ Len(lc) \in Nat
  BY BackIs, LenProperties
<1>2. s \in Seq(AnyLC)
  <2>1. \A i \in 1..back : lc[i] \in AnyLC
    BY <1>1, ElementOfSeq
  <2> QED  BY <1>1, <2>1, SubSeqProperties
<1>3. n \in Int /\ 1 <= n /\ n - 1 = back /\ n <= Len(lc)
  BY <1>1
<1>4. SubSeq(lc, 1, n) = Append(SubSeq(lc, 1, n - 1), m)
  BY <1>1, <1>3, SubSeqRecursiveSecond
<1>5. Append(s, m) = s \o <<m>>
  BY <1>1, <1>2, AppendIsConcat
<1>6. SubSeq(lc, 1, back)' = SubSeq(lc, 1, n)
  BY DEF BackNext
<1>7. <<m>> \in Seq(AnyLC)
  BY <1>1
<1> QED  BY <1>2, <1>3, <1>4, <1>5, <1>6, <1>7

LEMMA BackMarks ==
    ASSUME LCInv, BackNext
    PROVE  LCMarks(SubSeq(lc, 1, back))' = LCMarks(SubSeq(lc, 1, back)) \o LCMarks(<<lc[back + 1]>>)
           /\ LCMarks(<<lc[back + 1]>>) \in Seq(Mark)
<1> DEFINE s == SubSeq(lc, 1, back)
           l == <<lc[back + 1]>>
<1>1. SubSeq(lc, 1, back)' = s \o l /\ s \in Seq(AnyLC) /\ l \in Seq(AnyLC)
  BY BackList
<1>2. LCMarks(SubSeq(lc, 1, back))' = LCMarks(s \o l)
  BY <1>1
<1> HIDE DEF s, l
<1>3. LCMarks(s \o l) = LCMarks(s) \o LCMarks(l) /\ LCMarks(l) \in Seq(Mark)
  BY <1>1, LCMarksCat, LCMarksAre
<1> QED  BY <1>2, <1>3 DEF s, l

LEMMA NothingBack ==
    ASSUME LCInv, back = 0, Flushed = <<>>
    PROVE  ComesBack
<1>1. SubSeq(lc, 1, back) = <<>>
  BY SubSeqEmpty, LenProperties DEF LCInv, LCTypes
<1>2. ThreadMarks(<<>>) = <<>>
  BY EmptySeq, ThreadMarksAre, FlatMapEmpty
<1> QED  BY <1>1, <1>2, LCMarksNone DEF ComesBack

LEMMA ForthBack ==
    ASSUME LCInv', back' = 0, Flushed' = <<>>
    PROVE  ComesBack'
<1>1. SubSeq(lc', 1, back') = <<>>
  BY SubSeqEmpty, LenProperties DEF LCInv, LCTypes
<1>2. ThreadMarks(<<>>) = <<>>
  BY EmptySeq, ThreadMarksAre, FlatMapEmpty
<1> QED  BY <1>1, <1>2, LCMarksNone DEF ComesBack

LEMMA FromOneBack ==
    ASSUME LCInv, ComesBack, FromOne
    PROVE  ComesBack'
<1> DEFINE m == lc[back + 1]
           o == FromLCOne(m)
<1>1. BackNext /\ m.type \in {"human", "system", "other"} /\ m \in AnyLC
  BY BackIs DEF FromOne
<1>2. Flushed' = Append(Flushed, o)
  BY DEF FromOne, Flushed
<1>3. o \in AnyMessage /\ Marks(o.content, Shown[o.role]) = LCMarks(<<m>>)
  BY <1>1, FromLCTyped, FromLCOneMarks
<1> HIDE DEF o
<1>4. ThreadMarks(Append(Flushed, o)) = ThreadMarks(Flushed) \o Marks(o.content, Shown[o.role])
  BY <1>3, FlushedTyped, ThreadMarksMore
<1>5. LCMarks(SubSeq(lc, 1, back))' = LCMarks(SubSeq(lc, 1, back)) \o LCMarks(<<m>>)
  BY <1>1, BackMarks
<1> QED  BY <1>2, <1>3, <1>4, <1>5 DEF ComesBack

LEMMA FromAIBack ==
    ASSUME LCInv, ComesBack, FromAI
    PROVE  ComesBack'
<1> DEFINE m == lc[back + 1]
<1>1. /\ BackNext /\ m.type = "ai" /\ m \in AnyLC /\ out' = Flushed
      /\ pendingAssistant' \in AnyMessage /\ pendingAssistant'.role = "assistant"
      /\ pendingAssistant'.content = FromLCTurn(m)
  BY FromAIIs, BackIs
<1>2. PICK o \in AnyMessage : o = pendingAssistant'
  BY <1>1
<1>3. Flushed' = Append(Flushed, o)
  BY <1>1, <1>2, NoneIsNone DEF Flushed
<1>4. Marks(o.content, Shown[o.role]) = LCMarks(<<m>>)
  BY <1>1, <1>2, FromLCTurnMarks
<1>5. ThreadMarks(Append(Flushed, o)) = ThreadMarks(Flushed) \o Marks(o.content, Shown[o.role])
  BY FlushedTyped, ThreadMarksMore
<1>6. LCMarks(SubSeq(lc, 1, back))' = LCMarks(SubSeq(lc, 1, back)) \o LCMarks(<<m>>)
  BY <1>1, BackMarks
<1> QED  BY <1>3, <1>4, <1>5, <1>6 DEF ComesBack

LEMMA FromToolBack ==
    ASSUME LCInv, ComesBack, FromTool
    PROVE  ComesBack'
<1> DEFINE m == lc[back + 1]
           r == FromLCResult(m)
<1>1. BackNext /\ m.type = "tool" /\ m \in AnyLC /\ r \in AnyPart
  BY FromToolIs, BackIs
<1>2. Marks(<<r>>, Shown["tool"]) = LCMarks(<<m>>) /\ Marks(<<r>>, Shown["assistant"]) = LCMarks(<<m>>)
  BY <1>1, FromLCResultMarks
<1>3. /\ LCMarks(SubSeq(lc, 1, back))' = LCMarks(SubSeq(lc, 1, back)) \o LCMarks(<<m>>)
      /\ LCMarks(<<m>>) \in Seq(Mark)
  BY <1>1, BackMarks
<1>4. out \in Seq(AnyMessage) /\ (pendingAssistant = None \/ pendingAssistant \in AnyMessage)
  BY DEF LCInv, LCTypes
<1>5. <<r>> \in Seq(AnyPart)
  BY <1>1
<1>6. CASE pendingAssistant = None
  <2> DEFINE o == Message("tool", <<r>>)
  <2>1. Flushed = out /\ Flushed' = Append(out, o)
    BY <1>6, FromToolIs DEF Flushed
  <2>2. o \in AnyMessage /\ o.role = "tool" /\ o.content = <<r>>
    BY <1>5, MessageTyped
  <2> HIDE DEF o
  <2>3. ThreadMarks(Append(out, o)) = ThreadMarks(out) \o Marks(o.content, Shown[o.role])
    BY <1>4, <2>2, ThreadMarksMore
  <2> QED  BY <1>2, <1>3, <2>1, <2>2, <2>3 DEF ComesBack
<1>7. CASE pendingAssistant # None
  <2> DEFINE c == pendingAssistant.content
             d == Append(c, r)
             o == Message("assistant", d)
             K == Shown["assistant"]
  <2>1. pendingAssistant' = o /\ out' = out /\ c \in Seq(AnyPart)
    BY <1>7, FromToolIs
  <2>2. d \in Seq(AnyPart) /\ d = c \o <<r>>
    BY <1>1, <2>1, AppendProperties, AppendIsConcat
  <2>3. o \in AnyMessage /\ o.role = "assistant" /\ o.content = d
    BY <2>2, MessageTyped
  <2>4. Flushed = Append(out, pendingAssistant) /\ Flushed' = Append(out, o)
    BY <1>7, <2>1, <2>3, NoneIsNone DEF Flushed
  <2>5. pendingAssistant \in AnyMessage /\ pendingAssistant.role = "assistant"
    BY <1>4, <1>7 DEF LCInv, LCPhases
  <2>6. ThreadMarks(Append(out, pendingAssistant)) = ThreadMarks(out) \o Marks(c, K)
    BY <1>4, <2>5, ThreadMarksMore
  <2>7. ThreadMarks(Append(out, o)) = ThreadMarks(out) \o Marks(d, K)
    <3> HIDE DEF o, d
    <3> QED  BY <1>4, <2>3, ThreadMarksMore
  <2> DEFINE y == <<r>>
  <2>8. y \in Seq(AnyPart)
    BY <1>5
  <2> HIDE DEF K, c, d, o, y, r, m
  <2>9. Marks(c \o y, K) = Marks(c, K) \o Marks(y, K)
    BY <2>1, <2>8, MarksCat
  <2>10. Marks(c, K) \in Seq(Mark) /\ Marks(y, K) \in Seq(Mark) /\ ThreadMarks(out) \in Seq(Mark)
    BY <1>4, <2>1, <2>8, MarksAre, ThreadMarksAre
  <2>11. ThreadMarks(out) \o (Marks(c, K) \o Marks(y, K)) = (ThreadMarks(out) \o Marks(c, K)) \o Marks(y, K)
    <3>1. Regroups(ThreadMarks(out), Marks(c, K), Marks(y, K))
      BY <2>10, CatRegroups
    <3> QED  BY <3>1 DEF Regroups
  <2>12. d = c \o y /\ Marks(y, K) = LCMarks(<<m>>)
    BY <1>2, <2>2 DEF y, K
  <2> QED  BY <1>3, <2>4, <2>6, <2>7, <2>9, <2>11, <2>12 DEF ComesBack
<1> QED  BY <1>6, <1>7

LEMMA ComesBackNext == LCInv /\ LCInv' /\ ComesBack /\ [LCNext]_lcVars => ComesBack'
<1> SUFFICES ASSUME LCInv, LCInv', ComesBack, [LCNext]_lcVars
             PROVE  ComesBack'
  OBVIOUS
<1>1. CASE UNCHANGED lcVars
  BY <1>1 DEF lcVars, backVars, ComesBack, Flushed
<1>2. CASE LCNext
  <2>1. CASE \/ Convert \/ OpenAssistant \/ TakeText \/ TakeCall \/ TakeResult \/ DropPart
             \/ CloseAssistant \/ Resume
    <3>1. back' = 0 /\ Flushed' = <<>>
      BY <2>1, ForthLeavesBack
    <3> QED  BY <3>1, ForthBack
  <2>2. CASE FromHuman \/ FromOther
    BY <2>2, FromOneIs, FromOneBack
  <2>3. CASE FromAI
    BY <2>3, FromAIBack
  <2>4. CASE FromTool
    BY <2>4, FromToolBack
  <2>5. CASE FromEnd
    <3>1. back' = back /\ lc' = lc /\ Flushed' = Flushed
      BY <2>5 DEF FromEnd, Flushed
    <3> QED  BY <3>1 DEF ComesBack
  <2> QED  BY <1>2, <2>1, <2>2, <2>3, <2>4, <2>5 DEF LCNext
<1> QED  BY <1>1, <1>2

LEMMA ComesBackInit == LCReady => ComesBack
<1> SUFFICES ASSUME LCReady
             PROVE  ComesBack
  OBVIOUS
<1>1. LCInv /\ back = 0 /\ Flushed = <<>>
  BY LCInvInit DEF LCReady, Flushed
<1> QED  BY <1>1, NothingBack

\* What comes back has the text, the calls and the results of the LangChain messages
\* converted so far, in their order, for every thread (from_lc_messages, langchain.py:251-347).
THEOREM NothingIsLostOnTheWayBack == LCSpec => []ComesBack
  BY GivenIsReady, ConversionTyped, ComesBackInit, ComesBackNext, PTL DEF LCSpec

----------------------------------------------------------------------------
(* The order of the walk: the marks of the group that is pending.          *)

OfSort(kinds) == {m \in Mark : m[1] \in kinds}

LEMMA OnlyIs ==
    ASSUME NEW s \in Seq(Mark), NEW kinds
    PROVE  Only(s, kinds) = FlatMap(Keeper(Mark, OfSort(kinds)), s) /\ Only(s, kinds) \in Seq(Mark)
<1> DEFINE I == {i \in DOMAIN s : s[i][1] \in kinds}
<1>1. \A i \in DOMAIN s : s[i] \in Mark
  BY LenProperties, ElementOfSeq
<1>2. ChosenBy(s, I, OfSort(kinds))
  BY <1>1 DEF ChosenBy, OfSort
<1>3. Only(s, kinds) = Kept(s, I)
  BY DEF Only
<1> HIDE DEF I
<1> QED  BY <1>2, <1>3, KeptIs

OnlySplits(s, t, kinds) == Only(s \o t, kinds) = Only(s, kinds) \o Only(t, kinds)

LEMMA OnlySplit ==
    ASSUME NEW s \in Seq(Mark), NEW t \in Seq(Mark), NEW kinds
    PROVE  OnlySplits(s, t, kinds)
<1> DEFINE F == Keeper(Mark, OfSort(kinds))
<1>1. MapsInto(F, Mark, Seq(Mark))
  BY KeeperMaps
<1>2. /\ Only(s, kinds) = FlatMap(F, s) /\ Only(t, kinds) = FlatMap(F, t)
  BY OnlyIs
<1>3. Only(s \o t, kinds) = FlatMap(F, s \o t)
  <2> DEFINE w == s \o t
  <2>1. w \in Seq(Mark)
    BY ConcatProperties
  <2> HIDE DEF w
  <2>2. Only(w, kinds) = FlatMap(F, w)
    BY <2>1, OnlyIs
  <2> QED  BY <2>2 DEF w
<1> HIDE DEF F
<1>4. FlatMap(F, s \o t) = FlatMap(F, s) \o FlatMap(F, t)
  BY <1>1, FlatMapCat
<1>5. Only(s \o t, kinds) = Only(s, kinds) \o Only(t, kinds)
  BY <1>2, <1>3, <1>4
<1> QED  BY <1>5 DEF OnlySplits

LEMMA OnlyCat ==
    ASSUME NEW s \in Seq(Mark), NEW t \in Seq(Mark), NEW kinds
    PROVE  Only(s \o t, kinds) = Only(s, kinds) \o Only(t, kinds)
<1>1. OnlySplits(s, t, kinds)
  BY OnlySplit
<1> QED  BY <1>1 DEF OnlySplits

\* Marks of another sort are left out.
LEMMA OnlyNothing ==
    ASSUME NEW kinds, NEW others, kinds \cap others = {}, NEW s \in Seq(OfSort(others))
    PROVE  Only(s, kinds) = <<>>
<1>1. s \in Seq(Mark)
  <2>1. OfSort(others) \subseteq Mark
    BY DEF OfSort
  <2> QED  BY <2>1, SeqMonotonic
<1>2. \A x \in OfSort(others) : Keeper(Mark, OfSort(kinds))[x] = <<>>
  BY DEF Keeper, OfSort
<1>3. FlatMap(Keeper(Mark, OfSort(kinds)), s) = <<>>
  BY <1>2, FlatMapNothing
<1> QED  BY <1>1, <1>3, OnlyIs

LEMMA CallMarksSort ==
    ASSUME NEW ids \in Seq(AnyId)
    PROVE  CallMarks(ids) \in Seq(OfSort({"call"}))
<1>1. MapsInto(CallMarkFn, AnyId, OfSort({"call"}))
  BY CallMarkTyped DEF MapsInto, CallMarkFn, OfSort
<1> QED  BY <1>1, MapTyped DEF CallMarks

LEMMA TextMarksSort ==
    ASSUME NEW text \in Seq(Token)
    PROVE  TextMarks(text) \in Seq(OfSort({"text"}))
<1> DEFINE A == OfSort({"text"})
           s == Mapped(TextMark, text)
<1>1. MapsInto(TextMark, Token, A)
  BY MarkMaps DEF MapsInto, TextMark, OfSort
<1>2. s \in Seq(A)
  BY <1>1, MapTyped
<1>3. A \subseteq Mark
  BY DEF OfSort
<1> HIDE DEF s, A
<1>4. \A i \in DOMAIN s : s[i] \in A
  BY <1>2, LenProperties, ElementOfSeq
<1>5. Mapped(Keeper(Mark, Unfiled), s) = Mapped(Keeper(A, Unfiled), s)
  BY <1>3, <1>4 DEF Mapped, Keeper
<1>6. MapsInto(Keeper(A, Unfiled), A, Seq(A))
  BY KeeperMaps
<1>7. FlatMap(Keeper(A, Unfiled), s) \in Seq(A)
  BY <1>2, <1>6, FlatMapTyped
<1>8. TextMarks(text) = FlatMap(Keeper(Mark, Unfiled), s)
  BY DEF TextMarks, s
<1> QED  BY <1>5, <1>7, <1>8 DEF FlatMap, A

GroupOf(t, c, r) == IF t # <<>> \/ c # <<>> \/ r # <<>> THEN <<AI(FlattenSeq(t), c)>> \o r ELSE <<>>
GroupMarks(t, c, r) == (TextMarks(FlattenSeq(t)) \o CallMarks(c)) \o LCMarks(r)

LEMMA ToolsAreLC == ASSUME NEW r \in Seq(AnyTool) PROVE r \in Seq(AnyLC)
<1>1. AnyTool \subseteq AnyLC
  BY DEF AnyTool
<1> QED  BY <1>1, SeqMonotonic

LEMMA GroupMarksAre ==
    ASSUME NEW t \in Seq(Seq(Token)), NEW c \in Seq(AnyId), NEW r \in Seq(AnyTool)
    PROVE  /\ GroupOf(t, c, r) \in Seq(AnyLC)
           /\ LCMarks(GroupOf(t, c, r)) = GroupMarks(t, c, r)
           /\ GroupMarks(t, c, r) \in Seq(Mark)
<1> DEFINE text == FlattenSeq(t)
           m == AI(text, c)
           l == <<m>>
<1>1. text \in Seq(Token)
  BY FlattenTyped
<1> HIDE DEF text
<1>2. m \in AnyLC /\ m.type = "ai" /\ m.content = <<TextPart(text)>> /\ m.calls = c
  BY <1>1, AITyped DEF AI
<1>3. Marks(m.content, {"text"}) = TextMarks(text)
  BY <1>1, <1>2, PartText
<1> HIDE DEF m
<1>4. LCMarks(l) = TextMarks(text) \o CallMarks(c) /\ l \in Seq(AnyLC)
  BY <1>2, <1>3, LCMarksOne
<1>5. r \in Seq(AnyLC)
  BY ToolsAreLC
<1> HIDE DEF l
<1>6. LCMarks(l \o r) = LCMarks(l) \o LCMarks(r) /\ l \o r \in Seq(AnyLC)
  BY <1>4, <1>5, LCMarksCat, ConcatProperties
<1>7. TextMarks(text) \in Seq(Mark) /\ CallMarks(c) \in Seq(Mark) /\ LCMarks(r) \in Seq(Mark)
  BY <1>1, <1>5, TextMarksIs, CallMarksIs, LCMarksAre
<1>8. GroupMarks(t, c, r) = (TextMarks(text) \o CallMarks(c)) \o LCMarks(r)
  BY DEF GroupMarks, text
<1>9. GroupMarks(t, c, r) \in Seq(Mark)
  BY <1>7, <1>8, ConcatProperties
<1>10. CASE t # <<>> \/ c # <<>> \/ r # <<>>
  <2>1. GroupOf(t, c, r) = l \o r
    BY <1>10 DEF GroupOf, l, m, text
  <2> QED  BY <1>4, <1>6, <1>8, <1>9, <2>1
<1>11. CASE t = <<>> /\ c = <<>> /\ r = <<>>
  <2>1. GroupOf(t, c, r) = <<>>
    BY <1>11 DEF GroupOf
  <2>2. text = <<>>
    BY <1>11, FlattenEmpty DEF text
  <2>3. TextMarks(text) = <<>> /\ CallMarks(c) = <<>> /\ LCMarks(r) = <<>>
    BY <1>11, <2>2, TextMarksNone, CallMarksNone, LCMarksNone
  <2>4. GroupMarks(t, c, r) = <<>>
    BY <1>8, <2>3
  <2> QED  BY <1>9, <2>1, <2>4, LCMarksNone, EmptySeq
<1> QED  BY <1>9, <1>10, <1>11

\* The messages so far and the group that is pending.
SoFar(l, t, c, r) == LCMarks(l) \o GroupMarks(t, c, r)

LEMMA SoFarIs ==
    ASSUME NEW l \in Seq(AnyLC), NEW t \in Seq(Seq(Token)), NEW c \in Seq(AnyId), NEW r \in Seq(AnyTool)
    PROVE  /\ LCMarks(l \o GroupOf(t, c, r)) = SoFar(l, t, c, r)
           /\ SoFar(l, t, c, r) \in Seq(Mark)
           /\ LCMarks(l) \in Seq(Mark)
<1> DEFINE g == GroupOf(t, c, r)
<1>1. g \in Seq(AnyLC) /\ LCMarks(g) = GroupMarks(t, c, r) /\ GroupMarks(t, c, r) \in Seq(Mark)
  BY GroupMarksAre
<1> HIDE DEF g
<1>2. LCMarks(l \o g) = LCMarks(l) \o LCMarks(g)
  BY <1>1, LCMarksCat
<1>3. LCMarks(l) \in Seq(Mark)
  BY LCMarksAre
<1>4. SoFar(l, t, c, r) \in Seq(Mark)
  BY <1>1, <1>3, ConcatProperties DEF SoFar
<1> QED  BY <1>1, <1>2, <1>3, <1>4 DEF g, SoFar

LEMMA NothingPending == GroupMarks(<<>>, <<>>, <<>>) = <<>>
<1> DEFINE t == <<>>
           c == <<>>
           r == <<>>
<1>1. t \in Seq(Seq(Token)) /\ c \in Seq(AnyId) /\ r \in Seq(AnyTool)
  BY EmptySeq
<1>2. GroupOf(t, c, r) = <<>>
  BY DEF GroupOf
<1> HIDE DEF t, c, r
<1>3. LCMarks(GroupOf(t, c, r)) = GroupMarks(t, c, r)
  BY <1>1, GroupMarksAre
<1>4. GroupMarks(t, c, r) = <<>>
  BY <1>2, <1>3, LCMarksNone
<1> QED  BY <1>4 DEF t, c, r

LEMMA SoFarNothing ==
    ASSUME NEW l \in Seq(AnyLC)
    PROVE  SoFar(l, <<>>, <<>>, <<>>) = LCMarks(l)
  BY NothingPending, LCMarksAre, ConcatEmptySeq DEF SoFar

LEMMA GroupMarksStart ==
    /\ \A x \in Seq(Token) : GroupMarks(<<x>>, <<>>, <<>>) = TextMarks(x)
    /\ \A id \in AnyId : GroupMarks(<<>>, <<id>>, <<>>) = CallMarks(<<id>>)
<1>1. ASSUME NEW x \in Seq(Token)
      PROVE  GroupMarks(<<x>>, <<>>, <<>>) = TextMarks(x)
  <2>1. FlattenSeq(<<x>>) = x /\ TextMarks(x) \in Seq(Mark)
    BY FlattenOne, TextMarksIs
  <2>2. TextMarks(x) \o <<>> = TextMarks(x)
    BY <2>1, ConcatEmptySeq
  <2> QED  BY <2>1, <2>2, CallMarksNone, LCMarksNone DEF GroupMarks
<1>2. ASSUME NEW id \in AnyId
      PROVE  GroupMarks(<<>>, <<id>>, <<>>) = CallMarks(<<id>>)
  <2> DEFINE c == <<id>>
  <2>1. c \in Seq(AnyId)
    OBVIOUS
  <2> HIDE DEF c
  <2>2. CallMarks(c) \in Seq(Mark)
    BY <2>1, CallMarksIs
  <2>3. CallMarks(c) \o <<>> = CallMarks(c) /\ <<>> \o CallMarks(c) = CallMarks(c)
    BY <2>2, ConcatEmptySeq
  <2>4. GroupMarks(<<>>, c, <<>>) = CallMarks(c)
    BY <2>3, FlattenEmpty, TextMarksNone, LCMarksNone DEF GroupMarks
  <2> QED  BY <2>4 DEF c
<1> QED  BY <1>1, <1>2

\* A text or a call that closes the group starts the next.
LEMMA SoFarStarts ==
    ASSUME NEW l \in Seq(AnyLC), NEW t \in Seq(Seq(Token)), NEW c \in Seq(AnyId), NEW r \in Seq(AnyTool),
           NEW t1, NEW c1
    PROVE  SoFar(l \o GroupOf(t, c, r), t1, c1, <<>>) = SoFar(l, t, c, r) \o GroupMarks(t1, c1, <<>>)
  BY SoFarIs DEF SoFar

LEMMA SoFarMoreCalls ==
    ASSUME NEW l \in Seq(AnyLC), NEW t \in Seq(Seq(Token)), NEW c \in Seq(AnyId), NEW d \in Seq(AnyId)
    PROVE  SoFar(l, t, c \o d, <<>>) = SoFar(l, t, c, <<>>) \o CallMarks(d)
<1> DEFINE L == LCMarks(l)
           T == TextMarks(FlattenSeq(t))
           C == CallMarks(c)
           D == CallMarks(d)
<1>1. L \in Seq(Mark) /\ T \in Seq(Mark) /\ C \in Seq(Mark) /\ D \in Seq(Mark)
  BY LCMarksAre, FlattenTyped, TextMarksIs, CallMarksIs
<1>2. CallMarks(c \o d) = C \o D
  BY CallMarksIs
<1>3. SoFar(l, t, c \o d, <<>>) = L \o ((T \o (C \o D)) \o <<>>) /\ SoFar(l, t, c, <<>>) = L \o ((T \o C) \o <<>>)
  BY <1>2, LCMarksNone DEF SoFar, GroupMarks
<1> HIDE DEF L, T, C, D
<1>4. T \o C \in Seq(Mark) /\ C \o D \in Seq(Mark) /\ T \o (C \o D) \in Seq(Mark)
  BY <1>1, ConcatProperties
<1>5. (T \o (C \o D)) \o <<>> = T \o (C \o D) /\ (T \o C) \o <<>> = T \o C
  BY <1>4, ConcatEmptySeq
<1>6. T \o (C \o D) = (T \o C) \o D
  <2>1. Regroups(T, C, D)
    BY <1>1, CatRegroups
  <2> QED  BY <2>1 DEF Regroups
<1>7. L \o ((T \o C) \o D) = (L \o (T \o C)) \o D
  <2> DEFINE Y == T \o C
  <2>1. Y \in Seq(Mark)
    BY <1>4
  <2> HIDE DEF Y
  <2>2. L \o (Y \o D) = (L \o Y) \o D
    <3>1. Regroups(L, Y, D)
      BY <1>1, <2>1, CatRegroups
    <3> QED  BY <3>1 DEF Regroups
  <2> QED  BY <2>2 DEF Y
<1> QED  BY <1>3, <1>5, <1>6, <1>7 DEF D

\* A text joins the texts before the calls: the texts keep their order, and the calls
\* theirs.
LEMMA SoFarMoreTexts ==
    ASSUME NEW l \in Seq(AnyLC), NEW t \in Seq(Seq(Token)), NEW x \in Seq(Token), NEW c \in Seq(AnyId),
           NEW kinds, kinds \cap {"text"} = {} \/ kinds \cap {"call"} = {}
    PROVE  Only(SoFar(l, Append(t, x), c, <<>>), kinds) = Only(SoFar(l, t, c, <<>>) \o TextMarks(x), kinds)
<1> DEFINE L == LCMarks(l)
           T == TextMarks(FlattenSeq(t))
           C == CallMarks(c)
           X == TextMarks(x)
           O(s) == Only(s, kinds)
<1>1. L \in Seq(Mark) /\ T \in Seq(Mark) /\ C \in Seq(Mark) /\ X \in Seq(Mark)
  BY LCMarksAre, FlattenTyped, TextMarksIs, CallMarksIs
<1>2. TextMarks(FlattenSeq(Append(t, x))) = T \o X
  <2>1. FlattenSeq(Append(t, x)) = FlattenSeq(t) \o x /\ FlattenSeq(t) \in Seq(Token)
    BY FlattenMore, FlattenTyped
  <2> QED  BY <2>1, TextMarksIs
<1>3. O(X) = <<>> \/ O(C) = <<>>
  BY CallMarksSort, TextMarksSort, OnlyNothing
<1>4. /\ SoFar(l, Append(t, x), c, <<>>) = L \o (((T \o X) \o C) \o <<>>)
      /\ SoFar(l, t, c, <<>>) = L \o ((T \o C) \o <<>>)
  BY <1>2, LCMarksNone DEF SoFar, GroupMarks
<1>5. \A a, b \in Seq(Mark) : O(a \o b) = O(a) \o O(b) /\ a \o b \in Seq(Mark) /\ O(a) \in Seq(Mark)
  <2> TAKE a, b \in Seq(Mark)
  <2>1. OnlySplits(a, b, kinds)
    BY OnlySplit
  <2>2. O(a \o b) = O(a) \o O(b)
    BY <2>1 DEF OnlySplits
  <2>3. a \o b \in Seq(Mark)
    BY ConcatProperties
  <2>4. O(a) \in Seq(Mark)
    BY OnlyIs
  <2> QED  BY <2>2, <2>3, <2>4
<1> HIDE DEF L, T, C, X, O
<1>6. ((T \o X) \o C) \o <<>> = (T \o X) \o C /\ (T \o C) \o <<>> = T \o C
  BY <1>1, <1>5, ConcatEmptySeq
<1>7. O(L \o ((T \o X) \o C)) = O(L) \o ((O(T) \o O(X)) \o O(C))
  <2>1. T \o X \in Seq(Mark) /\ O(T \o X) = O(T) \o O(X)
    BY <1>1, <1>5
  <2>2. (T \o X) \o C \in Seq(Mark) /\ O((T \o X) \o C) = O(T \o X) \o O(C)
    BY <1>1, <1>5, <2>1
  <2>3. O(L \o ((T \o X) \o C)) = O(L) \o O((T \o X) \o C)
    BY <1>1, <1>5, <2>2
  <2> QED  BY <2>1, <2>2, <2>3
<1>8. O((L \o (T \o C)) \o X) = (O(L) \o (O(T) \o O(C))) \o O(X)
  <2>1. T \o C \in Seq(Mark) /\ O(T \o C) = O(T) \o O(C)
    BY <1>1, <1>5
  <2>2. L \o (T \o C) \in Seq(Mark) /\ O(L \o (T \o C)) = O(L) \o O(T \o C)
    BY <1>1, <1>5, <2>1
  <2>3. O((L \o (T \o C)) \o X) = O(L \o (T \o C)) \o O(X)
    BY <1>1, <1>5, <2>2
  <2> QED  BY <2>1, <2>2, <2>3
<1> DEFINE a == O(L)
           b == O(T)
           d == O(C)
           y == O(X)
<1>9. a \in Seq(Mark) /\ b \in Seq(Mark) /\ d \in Seq(Mark) /\ y \in Seq(Mark)
  BY <1>1, <1>5
<1>10. d = <<>> \/ y = <<>>
  BY <1>3
<1> HIDE DEF a, b, d, y
<1>11. a \o ((b \o y) \o d) = (a \o (b \o d)) \o y
  <2>1. CASE d = <<>>
    <3>1. b \o y \in Seq(Mark)
      BY <1>9, ConcatProperties
    <3>2. (b \o y) \o d = b \o y /\ b \o d = b
      BY <1>9, <2>1, <3>1, ConcatEmptySeq
    <3>3. a \o (b \o y) = (a \o b) \o y
      <4>1. Regroups(a, b, y)
        BY <1>9, CatRegroups
      <4> QED  BY <4>1 DEF Regroups
    <3> QED  BY <3>2, <3>3
  <2>2. CASE y = <<>>
    <3>1. a \o (b \o d) \in Seq(Mark)
      BY <1>9, ConcatProperties
    <3>2. b \o y = b /\ (a \o (b \o d)) \o y = a \o (b \o d)
      BY <1>9, <2>2, <3>1, ConcatEmptySeq
    <3> QED  BY <3>2
  <2> QED  BY <1>10, <2>1, <2>2
<1>12. O(L \o ((T \o X) \o C)) = O((L \o (T \o C)) \o X)
  BY <1>7, <1>8, <1>11 DEF a, b, d, y
<1> QED  BY <1>4, <1>6, <1>12 DEF O, X

LEMMA SoFarMoreResults ==
    ASSUME NEW l \in Seq(AnyLC), NEW t \in Seq(Seq(Token)), NEW c \in Seq(AnyId), NEW r \in Seq(AnyTool),
           NEW m \in AnyTool
    PROVE  SoFar(l, t, c, Append(r, m)) = SoFar(l, t, c, r) \o LCMarks(<<m>>)
<1> DEFINE L == LCMarks(l)
           Y == TextMarks(FlattenSeq(t)) \o CallMarks(c)
           R == LCMarks(r)
           M == LCMarks(<<m>>)
<1>0. m \in AnyLC /\ r \in Seq(AnyLC) /\ <<m>> \in Seq(AnyLC) /\ Append(r, m) = r \o <<m>>
  BY ToolsAreLC, AppendIsConcat DEF AnyTool
<1>1. L \in Seq(Mark) /\ Y \in Seq(Mark) /\ R \in Seq(Mark)
  BY <1>0, LCMarksAre, FlattenTyped, TextMarksIs, CallMarksIs, ConcatProperties
<1>2. LCMarks(Append(r, m)) = R \o M /\ M \in Seq(Mark)
  <2> DEFINE w == <<m>>
  <2>1. w \in Seq(AnyLC) /\ Append(r, m) = r \o w
    BY <1>0
  <2> HIDE DEF w
  <2>2. LCMarks(r \o w) = LCMarks(r) \o LCMarks(w) /\ LCMarks(w) \in Seq(Mark)
    BY <1>0, <2>1, LCMarksCat, LCMarksAre
  <2> QED  BY <2>1, <2>2 DEF w
<1>3. SoFar(l, t, c, Append(r, m)) = L \o (Y \o (R \o M)) /\ SoFar(l, t, c, r) = L \o (Y \o R)
  BY <1>2 DEF SoFar, GroupMarks
<1> HIDE DEF L, Y, R, M
<1>4. Y \o (R \o M) = (Y \o R) \o M
  <2>1. Regroups(Y, R, M)
    BY <1>1, <1>2, CatRegroups
  <2> QED  BY <2>1 DEF Regroups
<1> DEFINE Z == Y \o R
<1>5. Z \in Seq(Mark)
  BY <1>1, ConcatProperties
<1> HIDE DEF Z
<1>6. L \o (Z \o M) = (L \o Z) \o M
  <2>1. Regroups(L, Z, M)
    BY <1>1, <1>2, <1>5, CatRegroups
  <2> QED  BY <2>1 DEF Regroups
<1> QED  BY <1>3, <1>4, <1>6 DEF Z, M

----------------------------------------------------------------------------
(* The order of the walk, step by step.                                    *)

Remaining(p) == IF p = None THEN <<>> ELSE Marks(p, Shown["assistant"])

\* The messages, the group, the parts left and the thread left.
Whole(l, t, c, r, p, m) == LCMarks(l \o GroupOf(t, c, r)) \o Remaining(p) \o ThreadMarks(m)

KindsInOrder == {{"text", "result"}, {"call", "result"}}

LEMMA ChronologyIs ==
    /\ ChronologyKept <=> \A kinds \in KindsInOrder :
          Only(Whole(lc, texts, calls, results, parts, todo), kinds)
             = Only(LCMarks(prior) \o ThreadMarks(thread), kinds)
    /\ ChronologyKept' <=> \A kinds \in KindsInOrder :
          Only(Whole(lc', texts', calls', results', parts', todo'), kinds)
             = Only(LCMarks(prior') \o ThreadMarks(thread'), kinds)
<1>1. Group = GroupOf(texts, calls, results) /\ Group' = GroupOf(texts', calls', results')
  BY DEF Group, Pending, GroupOf
<1>2. ChronologyKept <=> \A kinds \in KindsInOrder :
          Only(Whole(lc, texts, calls, results, parts, todo), kinds)
             = Only(LCMarks(prior) \o ThreadMarks(thread), kinds)
  BY <1>1 DEF ChronologyKept, Whole, Remaining, KindsInOrder
<1>3. ChronologyKept' <=> \A kinds \in KindsInOrder :
          Only(Whole(lc', texts', calls', results', parts', todo'), kinds)
             = Only(LCMarks(prior') \o ThreadMarks(thread'), kinds)
  BY <1>1 DEF ChronologyKept, Whole, Remaining, KindsInOrder
<1> QED  BY <1>2, <1>3

\* The marks of the part at the head go to the messages and the group.
HeadMoves(l, t, c, r, l2, t2, c2, r2, p, kinds) ==
    Only(SoFar(l2, t2, c2, r2), kinds)
       = Only(SoFar(l, t, c, r) \o Marks(<<Head(p)>>, Shown["assistant"]), kinds)

LEMMA PartTaken ==
    ASSUME NEW l \in Seq(AnyLC), NEW t \in Seq(Seq(Token)), NEW c \in Seq(AnyId), NEW r \in Seq(AnyTool),
           NEW l2 \in Seq(AnyLC), NEW t2 \in Seq(Seq(Token)), NEW c2 \in Seq(AnyId), NEW r2 \in Seq(AnyTool),
           NEW p \in Seq(AnyPart), p # <<>>, NEW m \in Seq(AnyMessage), NEW kinds,
           HeadMoves(l, t, c, r, l2, t2, c2, r2, p, kinds)
    PROVE  Only(Whole(l2, t2, c2, r2, Tail(p), m), kinds) = Only(Whole(l, t, c, r, p, m), kinds)
<1> DEFINE K == Shown["assistant"]
           q == <<Head(p)>>
           u == Tail(p)
           S == SoFar(l, t, c, r)
           S2 == SoFar(l2, t2, c2, r2)
           M == ThreadMarks(m)
           H == Marks(q, K)
           T == Marks(u, K)
           O(s) == Only(s, kinds)
<1>1. q \in Seq(AnyPart) /\ u \in Seq(AnyPart) /\ p = q \o u
  <2>1. Head(p) \in AnyPart /\ Tail(p) \in Seq(AnyPart) /\ Len(Tail(p)) = Len(p) - 1
    BY HeadTyped
  <2>2. p = <<Head(p)>> \o Tail(p)
    BY HeadTailProperties
  <2> QED  BY <2>1, <2>2
<1>2. p # None /\ u # None
  BY <1>1, NoneIsNone
<1> HIDE DEF q, u, K
<1>3. Marks(p, K) = H \o T
  <2>1. Marks(q \o u, K) = Marks(q, K) \o Marks(u, K)
    <3>1. MarksSplits(q, u, K)
      BY <1>1, MarksSplit
    <3> QED  BY <3>1 DEF MarksSplits
  <2> QED  BY <1>1, <2>1
<1>4. H \in Seq(Mark) /\ T \in Seq(Mark) /\ M \in Seq(Mark)
  BY <1>1, MarksAre, ThreadMarksAre
<1>5. S \in Seq(Mark) /\ S2 \in Seq(Mark)
  BY SoFarIs
<1>6. Whole(l2, t2, c2, r2, u, m) = (S2 \o T) \o M
  BY <1>2, SoFarIs DEF Whole, Remaining, K
<1>7. Whole(l, t, c, r, p, m) = (S \o (H \o T)) \o M
  BY <1>2, <1>3, SoFarIs DEF Whole, Remaining, K
<1>8. O(S2) = O(S \o H)
  BY DEF HeadMoves, K, q
<1>9. \A a, b \in Seq(Mark) : O(a \o b) = O(a) \o O(b) /\ a \o b \in Seq(Mark)
  <2> TAKE a, b \in Seq(Mark)
  <2>1. OnlySplits(a, b, kinds)
    BY OnlySplit
  <2>2. a \o b \in Seq(Mark)
    BY ConcatProperties
  <2> QED  BY <2>1, <2>2 DEF OnlySplits
<1> HIDE DEF S, S2, M, H, T, O
<1>10. S \o (H \o T) = (S \o H) \o T
  <2>1. Regroups(S, H, T)
    BY <1>4, <1>5, CatRegroups
  <2> QED  BY <2>1 DEF Regroups
<1>11. O((S2 \o T) \o M) = (O(S2) \o O(T)) \o O(M)
  <2>1. S2 \o T \in Seq(Mark) /\ O(S2 \o T) = O(S2) \o O(T)
    BY <1>4, <1>5, <1>9
  <2>2. O((S2 \o T) \o M) = O(S2 \o T) \o O(M)
    BY <1>4, <1>9, <2>1
  <2> QED  BY <2>1, <2>2
<1>12. O(((S \o H) \o T) \o M) = (O(S \o H) \o O(T)) \o O(M)
  <2>1. S \o H \in Seq(Mark)
    BY <1>4, <1>5, <1>9
  <2>2. (S \o H) \o T \in Seq(Mark) /\ O((S \o H) \o T) = O(S \o H) \o O(T)
    BY <1>4, <1>9, <2>1
  <2>3. O(((S \o H) \o T) \o M) = O((S \o H) \o T) \o O(M)
    BY <1>4, <1>9, <2>2
  <2> QED  BY <2>2, <2>3
<1> QED  BY <1>6, <1>7, <1>8, <1>10, <1>11, <1>12 DEF O, u

\* An assistant message that is closed: its last group becomes messages.
LEMMA GroupClosed ==
    ASSUME NEW l \in Seq(AnyLC), NEW t \in Seq(Seq(Token)), NEW c \in Seq(AnyId), NEW r \in Seq(AnyTool),
           NEW g \in Seq(AnyLC), LCMarks(g) = GroupMarks(t, c, r), NEW m \in Seq(AnyMessage)
    PROVE  Whole(l \o g, <<>>, <<>>, <<>>, None, m) = Whole(l, t, c, r, <<>>, m)
<1>1. l \o g \in Seq(AnyLC) /\ LCMarks(l \o g) = SoFar(l, t, c, r)
  BY ConcatProperties, LCMarksCat DEF SoFar
<1>2. <<>> \in Seq(Seq(Token)) /\ <<>> \in Seq(AnyId) /\ <<>> \in Seq(AnyTool) /\ <<>> # None
  BY EmptySeq, NoneIsNone
<1>3. LCMarks((l \o g) \o GroupOf(<<>>, <<>>, <<>>)) = SoFar(l \o g, <<>>, <<>>, <<>>)
  <2> DEFINE w == l \o g
  <2>1. w \in Seq(AnyLC)
    BY <1>1
  <2> HIDE DEF w
  <2>2. LCMarks(w \o GroupOf(<<>>, <<>>, <<>>)) = SoFar(w, <<>>, <<>>, <<>>)
    BY <1>2, <2>1, SoFarIs
  <2> QED  BY <2>2 DEF w
<1>4. SoFar(l \o g, <<>>, <<>>, <<>>) = LCMarks(l \o g)
  BY <1>1, SoFarNothing
<1>5. Remaining(None) = <<>> /\ Remaining(<<>>) = <<>>
  BY <1>2, MarksNone DEF Remaining
<1>6. LCMarks(l \o GroupOf(t, c, r)) = SoFar(l, t, c, r)
  BY SoFarIs
<1> QED  BY <1>1, <1>3, <1>4, <1>5, <1>6 DEF Whole

LEMMA ClosingMarks ==
    ASSUME LCInv
    PROVE  Closing \in Seq(AnyLC) /\ LCMarks(Closing) = GroupMarks(texts, calls, results)
<1>1. texts \in Seq(Seq(Token)) /\ calls \in Seq(AnyId) /\ results \in Seq(AnyTool)
  BY DEF LCInv, LCTypes
<1>2. LCMarks(Group) = GroupMarks(texts, calls, results)
  <2>1. Group = GroupOf(texts, calls, results)
    BY DEF Group, Pending, GroupOf
  <2> QED  BY <1>1, <2>1, GroupMarksAre
<1>3. CASE ~Pending /\ ~sawAnyEmit
  <2> DEFINE a == AI(<<>>, <<>>)
  <2>1. <<>> \in Seq(Token) /\ <<>> \in Seq(AnyId)
    BY EmptySeq
  <2>2. a \in AnyLC /\ a.type = "ai" /\ a.content = <<TextPart(<<>>)>> /\ a.calls = <<>>
    BY <2>1, AITyped DEF AI
  <2>3. Marks(a.content, {"text"}) = <<>>
    BY <2>1, <2>2, PartText, TextMarksNone
  <2>4. Closing = <<a>>
    BY <1>3 DEF Closing
  <2> HIDE DEF a
  <2>5. LCMarks(<<a>>) = <<>> \o <<>>
    BY <2>2, <2>3, LCMarksOne, CallMarksNone
  <2>6. GroupMarks(texts, calls, results) = <<>>
    BY <1>3, NothingPending DEF Pending
  <2> QED  BY <2>4, <2>5, <2>6, ClosingTyped
<1> QED  BY <1>2, <1>3, ClosingTyped DEF Closing

LEMMA JoinedOne == ASSUME NEW p \in AnyPart PROVE Joined(<<p>>) = p.text
<1> DEFINE c == <<p>>
<1>1. c \in Seq(AnyPart) /\ FlatMap(TextOf, c) = TextOf[p]
  BY FlatMapOne
<1> HIDE DEF c
<1>2. Joined(c) = FlatMap(TextOf, c)
  BY <1>1, JoinedIs
<1> QED  BY <1>1, <1>2 DEF c, TextOf

LEMMA ToolMark ==
    ASSUME NEW p \in AnyPart, p.kind = "result"
    PROVE  LCMarks(<<ToolResultToLC(p)>>) = <<MarkOf(p)>>
<1> DEFINE a == ToolResultToLC(p)
           t == ResultText(p)
<1>1. a \in AnyLC /\ a.type = "tool" /\ a.call_id = p.id
  BY ToolTyped
<1>2. t \in Seq(Token)
  BY EmptyText DEF ResultText, AnyPart
<1>3. a.content = <<TextPart(t)>>
  BY DEF ToolResultToLC, Tool
<1> HIDE DEF a, t
<1>4. Joined(<<TextPart(t)>>) = t
  <2>1. TextPart(t) \in AnyPart /\ TextPart(t).text = t
    BY <1>2, TextPartTyped DEF TextPart, Part
  <2> QED  BY <2>1, JoinedOne
<1>5. LCMarks(<<a>>) = <<ResultMark(p.id, t)>>
  BY <1>1, <1>3, <1>4, LCMarksOne
<1> QED  BY <1>5 DEF MarkOf, a, t

\* The tool messages of a content have the marks of its results.
LEMMA AnswersMarks ==
    ASSUME NEW content \in Seq(AnyPart)
    PROVE  LCMarks(Mapped(Answer, OfKind(content, {"result"}))) = Marks(content, {"result"})
<1> DEFINE R == {"result"}
           A == Keeper(AnyPart, Kinds(R))
           V(c) == Mapped(Answer, FlatMap(A, c))
           Q == {c \in Seq(AnyPart) : LCMarks(V(c)) = Marks(c, R)}
<1>0. MapsInto(A, AnyPart, Seq(AnyPart))
  BY KeeperMaps
<1>1. <<>> \in Q
  <2>1. V(<<>>) = <<>>
    BY FlatMapEmpty DEF Mapped
  <2> QED  BY <2>1, EmptySeq, MarksNone, LCMarksNone
<1>2. ASSUME NEW c \in Seq(AnyPart), NEW p \in AnyPart, c \in Q
      PROVE  Append(c, p) \in Q
  <2> DEFINE d == <<p>>
             x == FlatMap(A, c)
             y == A[p]
  <2>1. d \in Seq(AnyPart) /\ Append(c, p) = c \o d /\ Append(c, p) \in Seq(AnyPart)
    BY AppendIsConcat, AppendProperties
  <2>2. FlatMap(A, Append(c, p)) = x \o y
    <3> HIDE DEF A
    <3> QED  BY <1>0, FlatMapMore
  <2>3. x \in Seq(AnyPart) /\ y \in Seq(AnyPart)
    <3> HIDE DEF A
    <3> QED  BY <1>0, FlatMapTyped DEF MapsInto
  <2>4. y = IF p.kind = "result" THEN d ELSE <<>>
    BY DEF Keeper, Kinds
  <2>5. LCMarks(Mapped(Answer, y)) = Marks(d, R)
    <3>1. CASE p.kind = "result"
      <4> DEFINE a == ToolResultToLC(p)
      <4>1. Mapped(Answer, d) = <<a>>
        BY DEF Mapped, Answer
      <4>2. a \in AnyLC
        BY ToolTyped
      <4> HIDE DEF a
      <4>3. LCMarks(<<a>>) = <<MarkOf(p)>>
        BY <3>1, ToolMark DEF a
      <4>4. Marks(d, R) = <<MarkOf(p)>>
        BY <3>1, MarksOne
      <4> QED  BY <2>4, <3>1, <4>1, <4>3, <4>4
    <3>2. CASE p.kind # "result"
      <4>1. Marks(d, R) = <<>>
        BY <3>2, MarksOne
      <4>2. Mapped(Answer, <<>>) = <<>>
        BY DEF Mapped
      <4> QED  BY <2>4, <3>2, <4>1, <4>2, LCMarksNone
    <3> QED  BY <3>1, <3>2
  <2> HIDE DEF x, y, d
  <2>6. Mapped(Answer, x \o y) = Mapped(Answer, x) \o Mapped(Answer, y)
    BY <2>3, AnswerMaps, MapCat, SMTT(60)
  <2>7. Mapped(Answer, x) \in Seq(AnyLC) /\ Mapped(Answer, y) \in Seq(AnyLC)
    BY <2>3, AnswerMaps, MapTyped
  <2>8. LCMarks(Mapped(Answer, x) \o Mapped(Answer, y)) = LCMarks(Mapped(Answer, x)) \o LCMarks(Mapped(Answer, y))
    BY <2>7, LCMarksCat
  <2>9. Marks(c \o d, R) = Marks(c, R) \o Marks(d, R)
    BY <2>1, MarksCat
  <2>10. LCMarks(Mapped(Answer, x)) = Marks(c, R)
    BY <1>2 DEF x
  <2>11. LCMarks(V(Append(c, p))) = Marks(Append(c, p), R)
    BY <2>1, <2>2, <2>5, <2>6, <2>8, <2>9, <2>10
  <2> QED  BY <2>1, <2>11
<1>3. Seq(AnyPart) \subseteq Q
  <2> HIDE DEF Q
  <2> QED  BY <1>1, <1>2, SeqInduction
<1>4. OfKind(content, R) = FlatMap(A, content)
  BY OfKindIs
<1> QED  BY <1>3, <1>4

\* Feedback has no marks.
LEMMA FeedbackMarks ==
    ASSUME NEW c \in Seq(AnyPart), \A i \in DOMAIN c : c[i].kind = "feedback", NEW kinds, "feedback" \notin kinds
    PROVE  Marks(c, kinds) = <<>>
<1> DEFINE A == Kinds({"feedback"})
           F == Keeper(AnyPart, Kinds(kinds))
<1>1. c \in Seq(A)
  <2>1. \A i \in 1..Len(c) : c[i] \in A
    BY LenProperties, ElementOfSeq DEF Kinds
  <2> QED  BY <2>1
<1>2. \A x \in A : F[x] = <<>>
  BY DEF Kinds, Keeper
<1> HIDE DEF A, F
<1>3. FlatMap(F, c) = <<>>
  BY <1>1, <1>2, FlatMapNothing
<1>4. Marks(c, kinds) = FlatMap(Keeper(Mark, Unfiled), FlatMap(MarkFn, FlatMap(F, c)))
  BY MarksAre DEF F
<1> QED  BY <1>3, <1>4, FlatMapEmpty

\* A message that is converted at once keeps its marks.
LEMMA ToLCMarks ==
    ASSUME NEW msg \in AnyMessage, ~Walked(msg)
    PROVE  LCMarks(ToLC(msg)) = Marks(msg.content, Shown[msg.role])
<1> DEFINE c == msg.content
<1>0. c \in Seq(AnyPart) /\ msg.role \in {"user", "system", "tool", "assistant"}
  BY DEF AnyMessage
<1>1. CASE IsFeedbackOnly(msg)
  <2>1. ToLC(msg) = <<>> /\ \A i \in DOMAIN c : c[i].kind = "feedback"
    BY <1>1 DEF ToLC, IsFeedbackOnly
  <2>2. "feedback" \notin Shown[msg.role]
    BY <1>0 DEF Shown
  <2> HIDE DEF c
  <2>3. Marks(c, Shown[msg.role]) = <<>>
    BY <1>0, <2>1, <2>2, FeedbackMarks
  <2> QED  BY <2>1, <2>3, LCMarksNone DEF c
<1>2. CASE ~IsFeedbackOnly(msg) /\ msg.role = "user"
  <2> DEFINE m == Human(UserContentToLC(c))
  <2>1. ToLC(msg) = <<m>>
    BY <1>2 DEF ToLC
  <2>2. m \in AnyLC /\ m.type = "human" /\ m.content = UserContentToLC(c)
    BY <1>0, HumanTyped DEF Human
  <2> HIDE DEF m
  <2>3. LCMarks(<<m>>) = Marks(m.content, {"text"})
    BY <2>2, LCMarksOne
  <2> QED  BY <1>0, <1>2, <2>1, <2>2, <2>3, UserMarks, ShownIs
<1>3. CASE ~IsFeedbackOnly(msg) /\ msg.role = "system"
  <2> DEFINE m == System(<<TextPart(GatherText(c))>>)
  <2>0. GatherText(c) \in Seq(Token)
    BY <1>0, GatherTextTyped
  <2>1. ToLC(msg) = <<m>>
    BY <1>3 DEF ToLC
  <2>2. m \in AnyLC /\ m.type = "system" /\ m.content = <<TextPart(GatherText(c))>>
    BY <2>0, SystemTyped DEF System
  <2> HIDE DEF m
  <2>3. LCMarks(<<m>>) = Marks(m.content, {"text"})
    BY <2>2, LCMarksOne
  <2>4. Marks(<<TextPart(GatherText(c))>>, {"text"}) = TextMarks(GatherText(c))
    BY <2>0, PartText
  <2>5. TextMarks(GatherText(c)) = Marks(c, {"text"})
    BY <1>0, GatherTextMarks
  <2> QED  BY <1>3, <2>1, <2>2, <2>3, <2>4, <2>5, ShownIs
<1>4. CASE ~IsFeedbackOnly(msg) /\ msg.role = "tool"
  <2> DEFINE answers == OfKind(c, {"result"})
  <2>1. ToLC(msg) = [i \in DOMAIN answers |-> ToolResultToLC(answers[i])]
    BY <1>4 DEF ToLC
  <2>2. ToLC(msg) = Mapped(Answer, answers)
    BY <1>0, <2>1, AnswersAre
  <2> QED  BY <1>0, <1>4, <2>2, AnswersMarks, ShownIs
<1> QED  BY <1>0, <1>1, <1>2, <1>3, <1>4 DEF Walked

\* A message that is converted at once, and an assistant's that is opened.
LEMMA MessageTaken ==
    ASSUME NEW l \in Seq(AnyLC), NEW m \in Seq(AnyMessage), m # <<>>
    PROVE  /\ ~Walked(Head(m)) =>
                 Whole(l \o ToLC(Head(m)), <<>>, <<>>, <<>>, None, Tail(m)) = Whole(l, <<>>, <<>>, <<>>, None, m)
           /\ Walked(Head(m)) =>
                 Whole(l, <<>>, <<>>, <<>>, Head(m).content, Tail(m)) = Whole(l, <<>>, <<>>, <<>>, None, m)
<1> DEFINE h == Head(m)
           u == Tail(m)
           H == Marks(h.content, Shown[h.role])
           U == ThreadMarks(u)
           L == LCMarks(l)
<1>1. h \in AnyMessage /\ u \in Seq(AnyMessage) /\ h.content \in Seq(AnyPart)
  <2>1. h \in AnyMessage /\ u \in Seq(AnyMessage)
    BY HeadTyped
  <2> QED  BY <2>1 DEF AnyMessage
<1>2. ThreadMarks(m) = H \o U
  BY ThreadMarksHead
<1>3. H \in Seq(Mark) /\ U \in Seq(Mark) /\ L \in Seq(Mark)
  BY <1>1, MarksAre, ThreadMarksAre, LCMarksAre
<1>4. <<>> \in Seq(Seq(Token)) /\ <<>> \in Seq(AnyId) /\ <<>> \in Seq(AnyTool)
  BY EmptySeq
<1> HIDE DEF h, u, H, U
<1>5. ASSUME NEW w \in Seq(AnyLC)
      PROVE  LCMarks(w \o GroupOf(<<>>, <<>>, <<>>)) = LCMarks(w)
  BY <1>4, SoFarIs, SoFarNothing
<1>6. Remaining(None) = <<>>
  BY DEF Remaining
<1>7. Whole(l, <<>>, <<>>, <<>>, None, m) = L \o (H \o U)
  <2>1. L \o <<>> = L
    BY <1>3, ConcatEmptySeq
  <2> QED  BY <1>2, <1>5, <1>6, <2>1 DEF Whole
<1>8. ASSUME ~Walked(h)
      PROVE  Whole(l \o ToLC(h), <<>>, <<>>, <<>>, None, u) = L \o (H \o U)
  <2> DEFINE g == ToLC(h)
             w == l \o g
  <2>1. g \in Seq(AnyLC) /\ LCMarks(g) = H
    BY <1>1, <1>8, ToLCTyped, ToLCMarks DEF H
  <2> HIDE DEF g
  <2>2. w \in Seq(AnyLC) /\ LCMarks(w) = L \o H
    BY <2>1, ConcatProperties, LCMarksCat
  <2> HIDE DEF w
  <2>3. LCMarks(w \o GroupOf(<<>>, <<>>, <<>>)) = L \o H
    BY <1>5, <2>2
  <2> HIDE DEF L
  <2>4. L \o H \in Seq(Mark)
    BY <1>3, ConcatProperties
  <2>5. (L \o H) \o <<>> = L \o H
    BY <2>4, ConcatEmptySeq
  <2>6. L \o (H \o U) = (L \o H) \o U
    <3>1. Regroups(L, H, U)
      BY <1>3, CatRegroups
    <3> QED  BY <3>1 DEF Regroups
  <2>7. Whole(w, <<>>, <<>>, <<>>, None, u) = (L \o H) \o U
    BY <1>6, <2>3, <2>5 DEF Whole, U
  <2> QED  BY <2>6, <2>7 DEF w, g
<1>9. ASSUME Walked(h)
      PROVE  Whole(l, <<>>, <<>>, <<>>, h.content, u) = L \o (H \o U)
  <2>1. h.content # None /\ h.role = "assistant"
    BY <1>1, <1>9, NoneIsNone DEF Walked
  <2>2. Remaining(h.content) = H
    BY <2>1 DEF Remaining, H
  <2>3. LCMarks(l \o GroupOf(<<>>, <<>>, <<>>)) = L
    BY <1>5
  <2> HIDE DEF L
  <2>4. L \o (H \o U) = (L \o H) \o U
    <3>1. Regroups(L, H, U)
      BY <1>3, CatRegroups
    <3> QED  BY <3>1 DEF Regroups
  <2> QED  BY <2>2, <2>3, <2>4 DEF Whole, U
<1> QED  BY <1>7, <1>8, <1>9 DEF h, u

\* The steps of the walk.
LEMMA ConvertOrder ==
    ASSUME LCInv, ChronologyKept, Convert \/ OpenAssistant
    PROVE  ChronologyKept'
<1>1. /\ lc \in Seq(AnyLC) /\ todo \in Seq(AnyMessage) /\ todo # <<>> /\ parts = None
      /\ texts = <<>> /\ calls = <<>> /\ results = <<>> /\ UNCHANGED given
  BY DEF LCInv, LCTypes, LCPhases, Convert, OpenAssistant
<1>2. Whole(lc', texts', calls', results', parts', todo') = Whole(lc, texts, calls, results, parts, todo)
  <2>1. CASE Convert
    <3>1. /\ ~Walked(Head(todo)) /\ lc' = lc \o ToLC(Head(todo)) /\ todo' = Tail(todo)
          /\ texts' = <<>> /\ calls' = <<>> /\ results' = <<>> /\ parts' = None
      BY <1>1, <2>1 DEF Convert, walkVars
    <3> QED  BY <1>1, <3>1, MessageTaken
  <2>2. CASE OpenAssistant
    <3>1. /\ Walked(Head(todo)) /\ lc' = lc /\ todo' = Tail(todo)
          /\ texts' = <<>> /\ calls' = <<>> /\ results' = <<>> /\ parts' = Head(todo).content
      BY <2>2 DEF OpenAssistant
    <3> QED  BY <1>1, <3>1, MessageTaken
  <2> QED  BY <2>1, <2>2
<1> QED  BY <1>1, <1>2, ChronologyIs DEF given

\* The part that is taken, its types and marks.
LEMMA PartIs ==
    ASSUME LCInv, parts # None, parts # <<>>
    PROVE  /\ parts \in Seq(AnyPart) /\ Head(parts) \in AnyPart
           /\ Head(parts).text \in Seq(Token) /\ Head(parts).id \in AnyId
           /\ Head(parts).kind = "text" =>
                 Marks(<<Head(parts)>>, Shown["assistant"]) = TextMarks(Head(parts).text)
           /\ Head(parts).kind = "call" =>
                 Marks(<<Head(parts)>>, Shown["assistant"]) = CallMarks(<<Head(parts).id>>)
           /\ Head(parts).kind = "result" =>
                 Marks(<<Head(parts)>>, Shown["assistant"]) = LCMarks(<<ToolResultToLC(Head(parts))>>)
           /\ Head(parts).kind \notin {"text", "call", "result"} =>
                 Marks(<<Head(parts)>>, Shown["assistant"]) = <<>>
<1> DEFINE h == Head(parts)
           K == Shown["assistant"]
<1>1. parts \in Seq(AnyPart)
  BY WalkingIsBefore
<1>2. h \in AnyPart
  BY <1>1, HeadTyped
<1>3. h.text \in Seq(Token) /\ h.id \in AnyId
  BY <1>2 DEF AnyPart, AnyId
<1>4. K = {"text", "call", "result"}
  BY ShownIs
<1> HIDE DEF h, K
<1>5. h.kind = "text" => Marks(<<h>>, K) = TextMarks(h.text)
  BY <1>2, <1>4, MarksOne
<1>6. h.kind = "call" => Marks(<<h>>, K) = CallMarks(<<h.id>>)
  <2>1. CallMarks(<<h.id>>) = <<CallMark(h.id)>>
    BY <1>3 DEF CallMarks, Mapped, CallMarkFn
  <2>2. h.kind = "call" => MarkOf(h) = CallMark(h.id)
    BY DEF MarkOf
  <2> QED  BY <1>2, <1>4, <2>1, <2>2, MarksOne
<1>7. h.kind = "result" => Marks(<<h>>, K) = LCMarks(<<ToolResultToLC(h)>>)
  BY <1>2, <1>4, ToolMark, MarksOne
<1>8. h.kind \notin {"text", "call", "result"} => Marks(<<h>>, K) = <<>>
  BY <1>2, <1>4, MarksOne
<1> QED  BY <1>1, <1>2, <1>3, <1>5, <1>6, <1>7, <1>8 DEF h, K

\* A part that is taken keeps the order when its marks go where they belong.
LEMMA TakenOrder ==
    ASSUME LCInv, LCInv', ChronologyKept, parts # None, parts # <<>>, parts' = Tail(parts),
           UNCHANGED <<given, todo>>,
           \A kinds \in KindsInOrder :
              Only(SoFar(lc', texts', calls', results'), kinds)
                 = Only(SoFar(lc, texts, calls, results) \o Marks(<<Head(parts)>>, Shown["assistant"]), kinds)
    PROVE  ChronologyKept'
<1>1. /\ lc \in Seq(AnyLC) /\ texts \in Seq(Seq(Token)) /\ calls \in Seq(AnyId) /\ results \in Seq(AnyTool)
      /\ lc' \in Seq(AnyLC) /\ texts' \in Seq(Seq(Token)) /\ calls' \in Seq(AnyId) /\ results' \in Seq(AnyTool)
      /\ todo \in Seq(AnyMessage)
  BY DEF LCInv, LCTypes
<1>2. parts \in Seq(AnyPart)
  BY WalkingIsBefore
<1>3. ASSUME NEW kinds \in KindsInOrder
      PROVE  Only(Whole(lc', texts', calls', results', parts', todo'), kinds)
                = Only(Whole(lc, texts, calls, results, parts, todo), kinds)
  <2>1. PICK l2 \in Seq(AnyLC), t2 \in Seq(Seq(Token)), c2 \in Seq(AnyId), r2 \in Seq(AnyTool) :
           l2 = lc' /\ t2 = texts' /\ c2 = calls' /\ r2 = results'
    BY <1>1
  <2>2. HeadMoves(lc, texts, calls, results, l2, t2, c2, r2, parts, kinds)
    BY <1>3, <2>1 DEF HeadMoves
  <2>3. Only(Whole(l2, t2, c2, r2, Tail(parts), todo), kinds)
           = Only(Whole(lc, texts, calls, results, parts, todo), kinds)
    BY <1>1, <1>2, <2>2, PartTaken, SMTT(60)
  <2> QED  BY <2>1, <2>3
<1> QED  BY <1>3, ChronologyIs DEF given

LEMMA TakeTextOrder ==
    ASSUME LCInv, LCInv', ChronologyKept, TakeText
    PROVE  ChronologyKept'
<1> DEFINE h == Head(parts)
           x == h.text
<1>1. /\ parts # None /\ parts # <<>> /\ h.kind = "text" /\ GoOn(<<x>>, <<>>) /\ parts' = Tail(parts)
      /\ UNCHANGED <<given, todo>>
  BY DEF TakeText
<1>2. x \in Seq(Token) /\ Marks(<<h>>, Shown["assistant"]) = TextMarks(x)
  BY <1>1, PartIs
<1>3. /\ lc \in Seq(AnyLC) /\ texts \in Seq(Seq(Token)) /\ calls \in Seq(AnyId) /\ results \in Seq(AnyTool)
      /\ (lastWasToolResult <=> results # <<>>)
  BY <1>1 DEF LCInv, LCTypes, LCPhases
<1> HIDE DEF x, h
<1>4. ASSUME NEW kinds \in KindsInOrder
      PROVE  Only(SoFar(lc', texts', calls', results'), kinds)
                = Only(SoFar(lc, texts, calls, results) \o TextMarks(x), kinds)
  <2>1. CASE lastWasToolResult
    <3>1. lc' = lc \o GroupOf(texts, calls, results) /\ texts' = <<x>> /\ calls' = <<>> /\ results' = <<>>
      BY <1>1, <2>1 DEF GoOn, Group, Pending, GroupOf
    <3>2. SoFar(lc \o GroupOf(texts, calls, results), <<x>>, <<>>, <<>>)
             = SoFar(lc, texts, calls, results) \o GroupMarks(<<x>>, <<>>, <<>>)
      BY <1>3, SoFarStarts
    <3> QED  BY <1>2, <3>1, <3>2, GroupMarksStart
  <2>2. CASE ~lastWasToolResult
    <3>1. /\ lc' = lc /\ texts' = texts \o <<x>> /\ calls' = calls \o <<>> /\ results' = results
          /\ results = <<>>
      BY <1>1, <1>3, <2>2 DEF GoOn
    <3>2. texts' = Append(texts, x) /\ calls' = calls
      BY <1>2, <1>3, <3>1, AppendIsConcat, ConcatEmptySeq
    <3>3. kinds \cap {"text"} = {} \/ kinds \cap {"call"} = {}
      BY DEF KindsInOrder
    <3>4. Only(SoFar(lc, Append(texts, x), calls, <<>>), kinds)
             = Only(SoFar(lc, texts, calls, <<>>) \o TextMarks(x), kinds)
      BY <1>2, <1>3, <3>3, SoFarMoreTexts
    <3> QED  BY <3>1, <3>2, <3>4
  <2> QED  BY <2>1, <2>2
<1> QED  BY <1>1, <1>2, <1>4, TakenOrder DEF h

LEMMA TakeCallOrder ==
    ASSUME LCInv, LCInv', ChronologyKept, TakeCall
    PROVE  ChronologyKept'
<1> DEFINE h == Head(parts)
           x == h.id
<1>1. /\ parts # None /\ parts # <<>> /\ h.kind = "call" /\ GoOn(<<>>, <<x>>) /\ parts' = Tail(parts)
      /\ UNCHANGED <<given, todo>>
  BY DEF TakeCall
<1>2. x \in AnyId /\ Marks(<<h>>, Shown["assistant"]) = CallMarks(<<x>>)
  BY <1>1, PartIs
<1>3. /\ lc \in Seq(AnyLC) /\ texts \in Seq(Seq(Token)) /\ calls \in Seq(AnyId) /\ results \in Seq(AnyTool)
      /\ (lastWasToolResult <=> results # <<>>)
  BY <1>1 DEF LCInv, LCTypes, LCPhases
<1> HIDE DEF x, h
<1>4. SoFar(lc', texts', calls', results') = SoFar(lc, texts, calls, results) \o CallMarks(<<x>>)
  <2>1. CASE lastWasToolResult
    <3>1. lc' = lc \o GroupOf(texts, calls, results) /\ texts' = <<>> /\ calls' = <<x>> /\ results' = <<>>
      BY <1>1, <2>1 DEF GoOn, Group, Pending, GroupOf
    <3>2. SoFar(lc \o GroupOf(texts, calls, results), <<>>, <<x>>, <<>>)
             = SoFar(lc, texts, calls, results) \o GroupMarks(<<>>, <<x>>, <<>>)
      BY <1>3, SoFarStarts
    <3> QED  BY <1>2, <3>1, <3>2, GroupMarksStart
  <2>2. CASE ~lastWasToolResult
    <3> DEFINE d == <<x>>
    <3>0. d \in Seq(AnyId)
      BY <1>2
    <3>1. /\ lc' = lc /\ texts' = texts \o <<>> /\ calls' = calls \o d /\ results' = results
          /\ results = <<>>
      BY <1>1, <1>3, <2>2 DEF GoOn
    <3>2. texts' = texts
      BY <1>3, <3>1, ConcatEmptySeq
    <3> HIDE DEF d
    <3>4. SoFar(lc, texts, calls \o d, <<>>) = SoFar(lc, texts, calls, <<>>) \o CallMarks(d)
      BY <1>3, <3>0, SoFarMoreCalls
    <3> QED  BY <3>1, <3>2, <3>4 DEF d
  <2> QED  BY <2>1, <2>2
<1> QED  BY <1>1, <1>2, <1>4, TakenOrder DEF h

LEMMA TakeResultOrder ==
    ASSUME LCInv, LCInv', ChronologyKept, TakeResult \/ DropPart
    PROVE  ChronologyKept'
<1> DEFINE h == Head(parts)
           a == ToolResultToLC(h)
<1>1. /\ parts # None /\ parts # <<>> /\ parts' = Tail(parts)
      /\ UNCHANGED <<given, todo, texts, calls, lc>>
  BY DEF TakeResult, DropPart
<1>2. h \in AnyPart /\ a \in AnyTool
  BY <1>1, PartIs, ToolTyped
<1>3. lc \in Seq(AnyLC) /\ texts \in Seq(Seq(Token)) /\ calls \in Seq(AnyId) /\ results \in Seq(AnyTool)
  BY DEF LCInv, LCTypes
<1>4. SoFar(lc', texts', calls', results')
         = SoFar(lc, texts, calls, results) \o Marks(<<h>>, Shown["assistant"])
  <2>1. CASE TakeResult
    <3>1. h.kind = "result" /\ results' = Append(results, a)
      BY <2>1 DEF TakeResult
    <3>2. Marks(<<h>>, Shown["assistant"]) = LCMarks(<<a>>)
      BY <1>1, <3>1, PartIs
    <3> HIDE DEF a, h
    <3>3. SoFar(lc, texts, calls, Append(results, a)) = SoFar(lc, texts, calls, results) \o LCMarks(<<a>>)
      BY <1>2, <1>3, SoFarMoreResults
    <3> QED  BY <1>1, <3>1, <3>2, <3>3
  <2>2. CASE DropPart
    <3>1. h.kind \notin {"text", "call", "result"} /\ results' = results
      BY <2>2 DEF DropPart
    <3>2. Marks(<<h>>, Shown["assistant"]) = <<>>
      BY <1>1, <3>1, PartIs
    <3>3. SoFar(lc, texts, calls, results) \o <<>> = SoFar(lc, texts, calls, results)
      BY <1>3, SoFarIs, ConcatEmptySeq
    <3> QED  BY <1>1, <3>1, <3>2, <3>3
  <2> QED  BY <2>1, <2>2
<1> HIDE DEF h
<1> QED  BY <1>1, <1>4, TakenOrder DEF h

LEMMA CloseAssistantOrder ==
    ASSUME LCInv, ChronologyKept, CloseAssistant
    PROVE  ChronologyKept'
<1>1. /\ parts = <<>> /\ lc' = lc \o Closing /\ parts' = None
      /\ texts' = <<>> /\ calls' = <<>> /\ results' = <<>> /\ UNCHANGED <<given, todo>>
  BY DEF CloseAssistant, Closing
<1>2. /\ lc \in Seq(AnyLC) /\ texts \in Seq(Seq(Token)) /\ calls \in Seq(AnyId) /\ results \in Seq(AnyTool)
      /\ todo \in Seq(AnyMessage)
  BY DEF LCInv, LCTypes
<1>3. Whole(lc \o Closing, <<>>, <<>>, <<>>, None, todo) = Whole(lc, texts, calls, results, <<>>, todo)
  BY <1>2, ClosingMarks, GroupClosed
<1> QED  BY <1>1, <1>3, ChronologyIs DEF given

\* Nothing of the walk changes on the way back; the thread that comes back is all there is
\* to convert when the conversation resumes.
LEMMA BackOrder ==
    ASSUME LCInv, ChronologyKept,
           FromHuman \/ FromAI \/ FromTool \/ FromOther \/ FromEnd \/ Resume \/ UNCHANGED lcVars
    PROVE  ChronologyKept'
<1>1. CASE ~Resume
  <2>1. UNCHANGED <<given, todo, walkVars, lc>>
    BY <1>1 DEF FromHuman, FromAI, FromTool, FromOther, FromEnd, BackNext, lcVars
  <2> QED  BY <2>1, ChronologyIs DEF given, walkVars
<1>2. CASE Resume
  <2>1. /\ parts = None /\ texts = <<>> /\ calls = <<>> /\ results = <<>> /\ UNCHANGED walkVars
        /\ thread' = out /\ todo' = out /\ prior' = <<>> /\ lc' = <<>>
    BY <1>2 DEF Resume, Converted, LCInv, LCPhases
  <2>2. Whole(lc', texts', calls', results', parts', todo') = LCMarks(prior') \o ThreadMarks(thread')
    <3>1. GroupOf(<<>>, <<>>, <<>>) = <<>> /\ Remaining(None) = <<>>
      BY DEF GroupOf, Remaining
    <3> QED  BY <2>1, <3>1, LCMarksNone DEF Whole, walkVars
  <2> QED  BY <2>2, ChronologyIs
<1> QED  BY <1>1, <1>2

LEMMA ChronologyInit == LCReady => ChronologyKept
<1> SUFFICES ASSUME LCReady
             PROVE  ChronologyKept
  OBVIOUS
<1>1. /\ lc = prior /\ todo = thread /\ parts = None /\ texts = <<>> /\ calls = <<>> /\ results = <<>>
      /\ prior \in Seq(AnyLC)
  BY DEF LCReady
<1>2. GroupOf(<<>>, <<>>, <<>>) = <<>> /\ Remaining(None) = <<>>
  BY DEF GroupOf, Remaining
<1>3. prior \o <<>> = prior /\ LCMarks(prior) \o <<>> = LCMarks(prior)
  BY <1>1, LCMarksAre, ConcatEmptySeq
<1>4. Whole(lc, texts, calls, results, parts, todo) = LCMarks(prior) \o ThreadMarks(thread)
  BY <1>1, <1>2, <1>3 DEF Whole
<1> QED  BY <1>4, ChronologyIs

LEMMA ChronologyNext == LCInv /\ LCInv' /\ ChronologyKept /\ [LCNext]_lcVars => ChronologyKept'
  BY ConvertOrder, TakeTextOrder, TakeCallOrder, TakeResultOrder, CloseAssistantOrder, BackOrder DEF LCNext

\* "preserve chronological order" (langchain.py:103): at every point of the walk the
\* messages, the group that is pending and what is left have every text, call and result
\* once, and the texts and the calls keep their order and their side of every result.
THEOREM OrderIsKept == LCSpec => []ChronologyKept
  BY GivenIsReady, ConversionTyped, ChronologyInit, ChronologyNext, PTL DEF LCSpec

----------------------------------------------------------------------------
(* What a thread that came back is converted to.                           *)

IdOf == [p \in AnyPart |-> p.id]
CallIds(c) == Mapped(IdOf, OfKind(c, {"call"}))
Answers(c) == Mapped(Answer, OfKind(c, {"result"}))

LEMMA IdOfMaps == MapsInto(IdOf, AnyPart, AnyId)
  BY DEF IdOf, MapsInto, AnyPart, AnyId

OfKindSplits(c, d, kinds) == OfKind(c \o d, kinds) = OfKind(c, kinds) \o OfKind(d, kinds)

LEMMA OfKindSplit ==
    ASSUME NEW c \in Seq(AnyPart), NEW d \in Seq(AnyPart), NEW kinds
    PROVE  OfKindSplits(c, d, kinds)
<1> DEFINE A == Keeper(AnyPart, Kinds(kinds))
           w == c \o d
<1>1. MapsInto(A, AnyPart, Seq(AnyPart)) /\ w \in Seq(AnyPart)
  BY KeeperMaps, ConcatProperties
<1>2. OfKind(c, kinds) = FlatMap(A, c) /\ OfKind(d, kinds) = FlatMap(A, d)
  BY OfKindIs
<1>3. OfKind(w, kinds) = FlatMap(A, w)
  <2> HIDE DEF w
  <2> QED  BY <1>1, OfKindIs
<1> HIDE DEF A
<1>4. FlatMap(A, c \o d) = FlatMap(A, c) \o FlatMap(A, d)
  BY <1>1, FlatMapCat
<1> QED  BY <1>2, <1>3, <1>4 DEF OfKindSplits

LEMMA OfKindCat ==
    ASSUME NEW c \in Seq(AnyPart), NEW d \in Seq(AnyPart), NEW kinds
    PROVE  /\ OfKind(c \o d, kinds) = OfKind(c, kinds) \o OfKind(d, kinds)
           /\ OfKind(c, kinds) \in Seq(AnyPart) /\ OfKind(d, kinds) \in Seq(AnyPart)
<1>1. OfKindSplits(c, d, kinds)
  BY OfKindSplit
<1>2. OfKind(c, kinds) \in Seq(AnyPart)
  BY OfKindIs
<1>3. OfKind(d, kinds) \in Seq(AnyPart)
  BY OfKindIs
<1> QED  BY <1>1, <1>2, <1>3 DEF OfKindSplits

LEMMA OfKindOne ==
    ASSUME NEW p \in AnyPart, NEW kinds
    PROVE  OfKind(<<p>>, kinds) = IF p.kind \in kinds THEN <<p>> ELSE <<>>
<1> DEFINE A == Keeper(AnyPart, Kinds(kinds))
           c == <<p>>
<1>1. c \in Seq(AnyPart) /\ FlatMap(A, c) = A[p]
  BY FlatMapOne
<1>2. A[p] = IF p.kind \in kinds THEN c ELSE <<>>
  BY DEF Keeper, Kinds
<1> HIDE DEF A
<1>3. OfKind(c, kinds) = FlatMap(A, c)
  <2> HIDE DEF c
  <2> QED  BY <1>1, OfKindIs DEF A
<1> QED  BY <1>1, <1>2, <1>3

LEMMA OfKindNone == ASSUME NEW kinds PROVE OfKind(<<>>, kinds) = <<>>
  BY EmptySeq, OfKindIs, FlatMapEmpty

LEMMA JoinedCat ==
    ASSUME NEW c \in Seq(AnyPart), NEW d \in Seq(AnyPart)
    PROVE  Joined(c \o d) = Joined(c) \o Joined(d)
<1> DEFINE w == c \o d
<1>1. w \in Seq(AnyPart)
  BY ConcatProperties
<1>2. FlatMap(TextOf, c \o d) = FlatMap(TextOf, c) \o FlatMap(TextOf, d)
  BY TextOfMaps, FlatMapCat
<1> HIDE DEF w
<1>3. Joined(w) = FlatMap(TextOf, w) /\ Joined(c) = FlatMap(TextOf, c) /\ Joined(d) = FlatMap(TextOf, d)
  BY <1>1, JoinedIs
<1> QED  BY <1>2, <1>3 DEF w

LEMMA JoinedNone == Joined(<<>>) = <<>>
  BY EmptySeq, JoinedIs, FlatMapEmpty

\* The text, the calls and the tool messages of contents one after the other.
LEMMA PartsCat ==
    ASSUME NEW c \in Seq(AnyPart), NEW d \in Seq(AnyPart)
    PROVE  /\ GatherText(c \o d) = GatherText(c) \o GatherText(d)
           /\ CallIds(c \o d) = CallIds(c) \o CallIds(d)
           /\ Answers(c \o d) = Answers(c) \o Answers(d)
<1>1. GatherText(c \o d) = GatherText(c) \o GatherText(d)
  <2> DEFINE x == OfKind(c, {"text"})
             y == OfKind(d, {"text"})
  <2>1. OfKind(c \o d, {"text"}) = x \o y /\ x \in Seq(AnyPart) /\ y \in Seq(AnyPart)
    BY OfKindCat
  <2> HIDE DEF x, y
  <2>2. Joined(x \o y) = Joined(x) \o Joined(y)
    BY <2>1, JoinedCat
  <2> QED  BY <2>1, <2>2 DEF GatherText, x, y
<1>2. CallIds(c \o d) = CallIds(c) \o CallIds(d)
  <2> DEFINE x == OfKind(c, {"call"})
             y == OfKind(d, {"call"})
  <2>1. OfKind(c \o d, {"call"}) = x \o y /\ x \in Seq(AnyPart) /\ y \in Seq(AnyPart)
    BY OfKindCat
  <2> HIDE DEF x, y
  <2>2. Mapped(IdOf, x \o y) = Mapped(IdOf, x) \o Mapped(IdOf, y)
    BY <2>1, IdOfMaps, MapCat, SMTT(60)
  <2> QED  BY <2>1, <2>2 DEF CallIds, x, y
<1>3. Answers(c \o d) = Answers(c) \o Answers(d)
  <2> DEFINE x == OfKind(c, {"result"})
             y == OfKind(d, {"result"})
  <2>1. OfKind(c \o d, {"result"}) = x \o y /\ x \in Seq(AnyPart) /\ y \in Seq(AnyPart)
    BY OfKindCat
  <2> HIDE DEF x, y
  <2>2. Mapped(Answer, x \o y) = Mapped(Answer, x) \o Mapped(Answer, y)
    BY <2>1, AnswerMaps, MapCat, SMTT(60)
  <2> QED  BY <2>1, <2>2 DEF Answers, x, y
<1> QED  BY <1>1, <1>2, <1>3

LEMMA PartsTyped ==
    ASSUME NEW c \in Seq(AnyPart)
    PROVE  GatherText(c) \in Seq(Token) /\ CallIds(c) \in Seq(AnyId) /\ Answers(c) \in Seq(AnyTool)
<1>1. GatherText(c) \in Seq(Token)
  BY GatherTextTyped
<1>2. CallIds(c) \in Seq(AnyId)
  BY OfKindIs, IdOfMaps, MapTyped DEF CallIds
<1>3. Answers(c) \in Seq(AnyTool)
  BY OfKindIs, AnswerMaps, MapTyped DEF Answers
<1> QED  BY <1>1, <1>2, <1>3

LEMMA PartsOne ==
    ASSUME NEW p \in AnyPart
    PROVE  /\ GatherText(<<p>>) = IF p.kind = "text" THEN p.text ELSE <<>>
           /\ CallIds(<<p>>) = IF p.kind = "call" THEN <<p.id>> ELSE <<>>
           /\ Answers(<<p>>) = IF p.kind = "result" THEN <<ToolResultToLC(p)>> ELSE <<>>
<1>1. \A kind : OfKind(<<p>>, {kind}) = IF p.kind = kind THEN <<p>> ELSE <<>>
  BY OfKindOne
<1>2. GatherText(<<p>>) = IF p.kind = "text" THEN p.text ELSE <<>>
  BY <1>1, JoinedOne, JoinedNone DEF GatherText
<1>3. /\ Mapped(IdOf, <<p>>) = <<p.id>> /\ Mapped(IdOf, <<>>) = <<>>
      /\ Mapped(Answer, <<p>>) = <<ToolResultToLC(p)>> /\ Mapped(Answer, <<>>) = <<>>
  BY DEF Mapped, IdOf, Answer
<1>4. CallIds(<<p>>) = IF p.kind = "call" THEN <<p.id>> ELSE <<>>
  BY <1>1, <1>3 DEF CallIds
<1>5. Answers(<<p>>) = IF p.kind = "result" THEN <<ToolResultToLC(p)>> ELSE <<>>
  BY <1>1, <1>3 DEF Answers
<1> QED  BY <1>2, <1>4, <1>5

LEMMA PartsNone == GatherText(<<>>) = <<>> /\ CallIds(<<>>) = <<>> /\ Answers(<<>>) = <<>>
<1>1. Mapped(IdOf, <<>>) = <<>> /\ Mapped(Answer, <<>>) = <<>>
  BY DEF Mapped
<1> QED  BY <1>1, OfKindNone, JoinedNone DEF GatherText, CallIds, Answers

\* What an assistant message becomes whose results are its last parts: its text, its
\* calls, and a tool message for each result.
Turned(t, c, r, p) == <<AI(FlattenSeq(t) \o GatherText(p), c \o CallIds(p))>> \o (r \o Answers(p))

Image == [msg \in AnyMessage |-> IF msg.role = "assistant" THEN Turned(<<>>, <<>>, <<>>, msg.content)
                                 ELSE ToLC(msg)]
Images(t) == FlatMap(Image, t)

\* No part but a result follows a result.
ResultsLast(c) ==
    /\ \A i \in DOMAIN c : c[i].kind \in {"text", "call", "result"}
    /\ \A i, j \in DOMAIN c : i < j /\ c[i].kind = "result" => c[j].kind = "result"
Settled(t) == \A i \in DOMAIN t : t[i].role = "assistant" => ResultsLast(t[i].content)

NamedFn == [id \in AnyId |-> Named(id)]
NamedAll(ids) == Mapped(NamedFn, ids)
Norm == [m \in AnyLC |-> Resumed(m)]
Norms(l) == Mapped(Norm, l)

LEMMA TurnedTyped ==
    ASSUME NEW t \in Seq(Seq(Token)), NEW c \in Seq(AnyId), NEW r \in Seq(AnyTool), NEW p \in Seq(AnyPart)
    PROVE  Turned(t, c, r, p) \in Seq(AnyLC)
<1> DEFINE text == FlattenSeq(t) \o GatherText(p)
           ids == c \o CallIds(p)
           tools == r \o Answers(p)
<1>1. text \in Seq(Token) /\ ids \in Seq(AnyId) /\ tools \in Seq(AnyTool)
  BY FlattenTyped, PartsTyped, ConcatProperties
<1> HIDE DEF text, ids, tools
<1>2. AI(text, ids) \in AnyLC /\ tools \in Seq(AnyLC)
  BY <1>1, AITyped, ToolsAreLC
<1>3. <<AI(text, ids)>> \in Seq(AnyLC)
  BY <1>2
<1>4. <<AI(text, ids)>> \o tools \in Seq(AnyLC)
  BY <1>2, <1>3, ConcatProperties
<1> QED  BY <1>4 DEF Turned, text, ids, tools

LEMMA ImageMaps == MapsInto(Image, AnyMessage, Seq(AnyLC))
<1>1. ASSUME NEW msg \in AnyMessage
      PROVE  Image[msg] \in Seq(AnyLC)
  <2>1. msg.content \in Seq(AnyPart)
    BY DEF AnyMessage
  <2>2. <<>> \in Seq(Seq(Token)) /\ <<>> \in Seq(AnyId) /\ <<>> \in Seq(AnyTool)
    BY EmptySeq
  <2>3. Turned(<<>>, <<>>, <<>>, msg.content) \in Seq(AnyLC)
    BY <2>1, <2>2, TurnedTyped
  <2>4. msg.role # "assistant" => ToLC(msg) \in Seq(AnyLC)
    BY ToLCTyped DEF Walked
  <2> QED  BY <2>3, <2>4 DEF Image
<1> QED  BY <1>1 DEF MapsInto, Image

\* A message of one text, by its text.
LEMMA LCByText ==
    ASSUME NEW m \in AnyLC
    PROVE  /\ m.type = "human" => m = Human(m.content)
           /\ m.type = "system" => m = System(m.content)
           /\ m.type = "ai" => m = AI(Joined(m.content), m.calls)
           /\ m.type = "tool" => m = Tool(m.call_id, Joined(m.content))
<1>1. /\ m = [type |-> m.type, content |-> m.content, calls |-> m.calls, call_id |-> m.call_id]
      /\ m.type # "ai" => m.calls = <<>>
      /\ m.type # "tool" => m.call_id = None
  BY DEF AnyLC
<1>2. m.type # "human" => m.content = <<TextPart(Joined(m.content))>>
  BY OneTextMessage
<1> QED  BY <1>1, <1>2 DEF Human, System, AI, Tool

LEMMA NamedAllIs ==
    ASSUME NEW ids \in Seq(AnyId)
    PROVE  /\ NamedAll(ids) \in Seq(AnyId)
           /\ NamedAll(ids) = [i \in DOMAIN ids |-> Named(ids[i])]
<1>1. MapsInto(NamedFn, AnyId, AnyId)
  BY NamedTyped DEF MapsInto, NamedFn
<1>2. \A i \in DOMAIN ids : ids[i] \in AnyId
  BY LenProperties, ElementOfSeq
<1>3. NamedAll(ids) = [i \in DOMAIN ids |-> Named(ids[i])]
  BY <1>2 DEF NamedAll, Mapped, NamedFn
<1> QED  BY <1>1, <1>3, MapTyped DEF NamedAll

\* What each type of message is after the conversation has resumed.
LEMMA NormIs ==
    ASSUME NEW m \in AnyLC
    PROVE  /\ m.type = "other" => Norm[m] = System(m.content)
           /\ m.type = "ai" => Norm[m] = AI(Joined(m.content), NamedAll(m.calls))
           /\ m.type \notin {"other", "ai"} => Norm[m] = m
<1>1. Norm[m] = Resumed(m)
  BY DEF Norm
<1>2. CASE m.type = "ai"
  <2> DEFINE ids == NamedAll(m.calls)
             t == Joined(m.content)
  <2>1. ids = [i \in DOMAIN m.calls |-> Named(m.calls[i])]
    BY LCFields, NamedAllIs
  <2>2. m = AI(t, m.calls)
    BY <1>2, LCByText
  <2>3. Resumed(m) = [m EXCEPT !.calls = ids]
    BY <1>2, <2>1 DEF Resumed
  <2> HIDE DEF ids, t
  <2>4. [AI(t, m.calls) EXCEPT !.calls = ids] = AI(t, ids)
    BY DEF AI
  <2> QED  BY <1>1, <1>2, <2>2, <2>3, <2>4 DEF ids, t
<1>3. CASE m.type # "ai"
  BY <1>1, <1>3 DEF Resumed
<1> QED  BY <1>2, <1>3

LEMMA NormMaps == MapsInto(Norm, AnyLC, AnyLC)
<1>1. ASSUME NEW m \in AnyLC, m.type = "other"
      PROVE  System(m.content) \in AnyLC
  <2>1. Joined(m.content) \in Seq(Token) /\ m.content = <<TextPart(Joined(m.content))>>
    BY <1>1, OneTextMessage
  <2>2. System(<<TextPart(Joined(m.content))>>) \in AnyLC
    BY <2>1, SystemTyped
  <2> QED  BY <2>1, <2>2
<1>2. ASSUME NEW m \in AnyLC, m.type = "ai"
      PROVE  Norm[m] \in AnyLC
  BY <1>2, LCFields, NamedAllIs, NormIs, AITyped
<1>3. ASSUME NEW m \in AnyLC
      PROVE  Norm[m] \in AnyLC
  BY <1>1, <1>2, NormIs
<1>4. \A m \in AnyLC : Resumed(m) \in AnyLC
  BY <1>3 DEF Norm
<1> QED  BY <1>4 DEF MapsInto, Norm

\* A message that was one text, as one text again.
LEMMA TextIfAnyBack ==
    ASSUME NEW text \in Seq(Token)
    PROVE  /\ GatherText(TextIfAny(text)) = text /\ CallIds(TextIfAny(text)) = <<>>
           /\ Answers(TextIfAny(text)) = <<>> /\ Files(TextIfAny(text)) = <<>>
           /\ ~HasKind(TextIfAny(text), "image")
           /\ \A role : ~IsFeedbackOnly(Message(role, TextIfAny(text)))
           /\ ResultsLast(TextIfAny(text))
           /\ GatherText(<<TextPart(text)>>) = text
           /\ \A role : ~IsFeedbackOnly(Message(role, <<TextPart(text)>>))
<1> DEFINE p == TextPart(text)
           c == <<p>>
<1>1. p \in AnyPart /\ p.kind = "text" /\ p.text = text
  BY TextPartTyped DEF TextPart, Part
<1>2. TextIfAny(text) = IF text = <<>> THEN <<>> ELSE c
  BY DEF TextIfAny
<1> HIDE DEF p
<1>3. GatherText(c) = text /\ CallIds(c) = <<>> /\ Answers(c) = <<>>
  BY <1>1, PartsOne
<1>4. OfKind(c, {"file"}) = <<>> /\ OfKind(<<>>, {"file"}) = <<>>
  BY <1>1, OfKindOne, OfKindNone
<1>5. Files(c) = <<>> /\ Files(<<>>) = <<>>
  <2>1. [i \in DOMAIN <<>> |-> TextPart(<<FileMark>>)] = <<>>
    OBVIOUS
  <2> QED  BY <1>4, <2>1, JoinedNone DEF Files
<1>6. DOMAIN c = {1} /\ c[1] = p /\ c # <<>>
  OBVIOUS
<1> HIDE DEF c
<1>7. ~HasKind(c, "image") /\ ~HasKind(<<>>, "image") /\ ResultsLast(c) /\ ResultsLast(<<>>)
  BY <1>1, <1>6 DEF HasKind, ResultsLast
<1>8. \A role : ~IsFeedbackOnly(Message(role, c)) /\ ~IsFeedbackOnly(Message(role, <<>>))
  BY <1>1, <1>6 DEF IsFeedbackOnly, Message
<1> QED  BY <1>2, <1>3, <1>5, <1>7, <1>8, PartsNone DEF c, p

\* Blocks, as the same blocks again.
LEMMA BlocksBack ==
    ASSUME NEW m \in AnyLC, m.type = "human", HasKind(m.content, "image")
    PROVE  UserContentToLC(m.content) = m.content /\ ~IsFeedbackOnly(Message("user", m.content))
<1> DEFINE c == m.content
           A == {p \in AnyPart : p.kind = "image" \/ (p.kind = "text" /\ p.text # <<>>)}
           F == Keeper(AnyPart, BlockShown)
<1>1. c \in Seq(AnyPart) /\ HasKind(c, "image")
      /\ \A i \in DOMAIN c : c[i].kind = "image" \/ (c[i].kind = "text" /\ c[i].text # <<>>)
  BY DEF AnyLC
<1> HIDE DEF c
<1>2. c \in Seq(A)
  <2>1. \A i \in 1..Len(c) : c[i] \in A
    BY <1>1, LenProperties, ElementOfSeq
  <2> QED  BY <1>1, <2>1
<1>3. \A x \in A : F[x] = <<x>>
  BY DEF Keeper, BlockShown
<1> HIDE DEF F
<1>4. FlatMap(F, c) = c
  BY <1>2, <1>3, FlatMapSame
<1>5. UserContentToLC(c) = Mapped(ShownBlock, c)
  BY <1>1, <1>4, BlocksAre DEF F
<1>6. Mapped(ShownBlock, c) = c
  <2>1. \A i \in DOMAIN c : ShownBlock[c[i]] = c[i]
    <3>1. \A i \in DOMAIN c : c[i] \in AnyPart /\ c[i].kind # "file"
      BY <1>1, LenProperties, ElementOfSeq
    <3> QED  BY <3>1 DEF ShownBlock
  <2> QED  BY <1>1, <2>1 DEF Mapped
<1>7. ~IsFeedbackOnly(Message("user", c))
  BY <1>1 DEF IsFeedbackOnly, Message, HasKind
<1> QED  BY <1>5, <1>6, <1>7 DEF c

LEMMA FromLCOneImage ==
    ASSUME NEW m \in AnyLC, m.type \in {"human", "system", "other"}
    PROVE  Image[FromLCOne(m)] = <<Norm[m]>> /\ FromLCOne(m).role # "assistant"
<1> DEFINE t == Joined(m.content)
<1>1. FromLCOne(m) \in AnyMessage
  BY FromLCTyped
<1>2. t \in Seq(Token)
  BY LCFields
<1>3. CASE m.type = "human" /\ HasKind(m.content, "image")
  <2>1. FromLCOne(m) = Message("user", m.content)
    BY <1>3 DEF FromLCOne, UserContentFromLC
  <2>2. ToLC(Message("user", m.content)) = <<Human(m.content)>>
    BY <1>3, BlocksBack DEF ToLC, Message
  <2>3. Norm[m] = Human(m.content)
    BY <1>3, LCByText, NormIs
  <2> QED  BY <1>1, <2>1, <2>2, <2>3 DEF Image, Message
<1>4. CASE m.type = "human" /\ ~HasKind(m.content, "image")
  <2>0. m.content = <<TextPart(t)>>
    BY <1>4, OneTextMessage
  <2> HIDE DEF t
  <2>1. FromLCOne(m) = Message("user", TextIfAny(t))
    BY <1>4 DEF FromLCOne, UserContentFromLC, t
  <2>2. UserContentToLC(TextIfAny(t)) = <<TextPart(t \o <<>>)>>
    BY <1>2, TextIfAnyBack DEF UserContentToLC
  <2>3. t \o <<>> = t
    BY <1>2, ConcatEmptySeq
  <2>4. ToLC(Message("user", TextIfAny(t))) = <<Human(UserContentToLC(TextIfAny(t)))>>
    BY <1>2, TextIfAnyBack DEF ToLC, Message
  <2>5. Norm[m] = Human(m.content)
    BY <1>4, LCByText, NormIs
  <2>6. Image[FromLCOne(m)] = ToLC(FromLCOne(m)) /\ FromLCOne(m).role = "user"
    BY <1>1, <2>1 DEF Image, Message
  <2> QED  BY <2>0, <2>1, <2>2, <2>3, <2>4, <2>5, <2>6
<1>5. CASE m.type = "system"
  <2>0. m.content = <<TextPart(t)>>
    BY <1>5, OneTextMessage
  <2> HIDE DEF t
  <2>1. FromLCOne(m) = Message("system", TextIfAny(t))
    BY <1>5 DEF FromLCOne, t
  <2>2. ToLC(Message("system", TextIfAny(t))) = <<System(<<TextPart(GatherText(TextIfAny(t)))>>)>>
    BY <1>2, TextIfAnyBack DEF ToLC, Message
  <2>3. Norm[m] = System(m.content)
    BY <1>5, LCByText, NormIs
  <2>4. Image[FromLCOne(m)] = ToLC(FromLCOne(m)) /\ FromLCOne(m).role = "system"
    BY <1>1, <2>1 DEF Image, Message
  <2>5. GatherText(TextIfAny(t)) = t
    BY <1>2, TextIfAnyBack
  <2> QED  BY <2>0, <2>1, <2>2, <2>3, <2>4, <2>5
<1>6. CASE m.type = "other"
  <2>0. m.content = <<TextPart(t)>>
    BY <1>6, OneTextMessage
  <2> HIDE DEF t
  <2>1. FromLCOne(m) = Message("system", <<TextPart(t)>>)
    BY <1>6 DEF FromLCOne, t
  <2>2. ToLC(Message("system", <<TextPart(t)>>)) = <<System(<<TextPart(GatherText(<<TextPart(t)>>))>>)>>
    BY <1>2, TextIfAnyBack DEF ToLC, Message
  <2>3. Norm[m] = System(m.content)
    BY <1>6, NormIs
  <2>4. Image[FromLCOne(m)] = ToLC(FromLCOne(m)) /\ FromLCOne(m).role = "system"
    BY <1>1, <2>1 DEF Image, Message
  <2>5. GatherText(<<TextPart(t)>>) = t
    BY <1>2, TextIfAnyBack
  <2> QED  BY <2>0, <2>1, <2>2, <2>3, <2>4, <2>5
<1> QED  BY <1>3, <1>4, <1>5, <1>6

\* The parts made of calls.
LEMMA CallPartsBack ==
    ASSUME NEW ids \in Seq(AnyId)
    PROVE  /\ GatherText(Mapped(CallPart, ids)) = <<>> /\ Answers(Mapped(CallPart, ids)) = <<>>
           /\ CallIds(Mapped(CallPart, ids)) = NamedAll(ids)
<1> DEFINE V(s) == Mapped(CallPart, s)
           Q == {s \in Seq(AnyId) : GatherText(V(s)) = <<>> /\ Answers(V(s)) = <<>> /\ CallIds(V(s)) = NamedAll(s)}
<1>1. <<>> \in Q
  <2>1. Mapped(CallPart, <<>>) = <<>>
    BY DEF Mapped
  <2>2. NamedAll(<<>>) = <<>>
    BY DEF NamedAll, Mapped
  <2> QED  BY <2>1, <2>2, EmptySeq, PartsNone
<1>2. ASSUME NEW s \in Seq(AnyId), NEW id \in AnyId, s \in Q
      PROVE  Append(s, id) \in Q
  <2> DEFINE t == <<id>>
             p == CallPart[id]
             x == Mapped(CallPart, s)
             y == <<p>>
  <2>1. t \in Seq(AnyId) /\ Append(s, id) = s \o t /\ Append(s, id) \in Seq(AnyId)
    BY AppendIsConcat, AppendProperties
  <2>2. Mapped(CallPart, t) = y
    BY DEF Mapped
  <2>4. p \in AnyPart /\ p.kind = "call" /\ p.id = Named(id)
    BY CallPartMaps DEF CallPart, Part, MapsInto
  <2> HIDE DEF t, p
  <2>5. GatherText(y) = <<>> /\ CallIds(y) = <<Named(id)>> /\ Answers(y) = <<>>
    BY <2>4, PartsOne
  <2>6. Mapped(CallPart, s \o t) = x \o y
    <3>1. Mapped(CallPart, s \o t) = Mapped(CallPart, s) \o Mapped(CallPart, t)
      BY <2>1, CallPartMaps, MapCat
    <3> QED  BY <2>2, <3>1
  <2>7. x \in Seq(AnyPart) /\ y \in Seq(AnyPart)
    BY <2>4, CallPartsAre
  <2>8. GatherText(x) = <<>> /\ Answers(x) = <<>> /\ CallIds(x) = NamedAll(s)
    BY <1>2
  <2> HIDE DEF x, y
  <2>9. GatherText(x \o y) = <<>> \o <<>> /\ CallIds(x \o y) = NamedAll(s) \o <<Named(id)>> /\ Answers(x \o y) = <<>> \o <<>>
    BY <2>5, <2>7, <2>8, PartsCat
  <2>10. GatherText(x \o y) = <<>> /\ CallIds(x \o y) = NamedAll(s \o t) /\ Answers(x \o y) = <<>>
    <3>1. NamedAll(s \o t) = NamedAll(s) \o NamedAll(t)
      <4>1. MapsInto(NamedFn, AnyId, AnyId)
        BY NamedTyped DEF MapsInto, NamedFn
      <4> QED  BY <2>1, <4>1, MapCat DEF NamedAll
    <3>2. NamedAll(t) = <<Named(id)>>
      BY DEF NamedAll, Mapped, NamedFn, t
    <3> QED  BY <2>9, <3>1, <3>2
  <2>11. V(s \o t) = x \o y
    BY <2>6
  <2> QED  BY <2>1, <2>10, <2>11
<1>3. Seq(AnyId) \subseteq Q
  <2> HIDE DEF Q
  <2> QED  BY <1>1, <1>2, SeqInduction
<1> QED  BY <1>3

LEMMA FromLCTurnImage ==
    ASSUME NEW m \in AnyLC, m.type = "ai"
    PROVE  Turned(<<>>, <<>>, <<>>, FromLCTurn(m)) = <<Norm[m]>>
<1> DEFINE t == Joined(m.content)
           x == TextIfAny(t)
           y == Mapped(CallPart, m.calls)
           ids == NamedAll(m.calls)
<1>1. t \in Seq(Token) /\ ids \in Seq(AnyId) /\ m.calls \in Seq(AnyId)
  BY LCFields, NamedAllIs
<1> HIDE DEF t, ids
<1>2. GatherText(x) = t /\ CallIds(x) = <<>> /\ Answers(x) = <<>> /\ x \in Seq(AnyPart)
  BY <1>1, TextIfAnyBack, TextIfAnyTyped
<1>3. GatherText(y) = <<>> /\ CallIds(y) = ids /\ Answers(y) = <<>> /\ y \in Seq(AnyPart)
  BY <1>1, CallPartsBack, CallPartsAre DEF ids
<1>4. FromLCTurn(m) = x \o y
  BY DEF FromLCTurn, t
<1> HIDE DEF x, y
<1>5. GatherText(x \o y) = t \o <<>> /\ CallIds(x \o y) = <<>> \o ids /\ Answers(x \o y) = <<>> \o <<>>
  BY <1>2, <1>3, PartsCat
<1>6. GatherText(x \o y) = t /\ CallIds(x \o y) = ids /\ Answers(x \o y) = <<>>
  BY <1>1, <1>5, ConcatEmptySeq
<1>7. FlattenSeq(<<>>) \o t = t /\ <<>> \o ids = ids
  BY <1>1, FlattenEmpty, ConcatEmptySeq
<1>8. Turned(<<>>, <<>>, <<>>, x \o y) = <<AI(t, ids)>>
  <2> DEFINE a == AI(t, ids)
  <2>1. Turned(<<>>, <<>>, <<>>, x \o y) = <<a>> \o (<<>> \o <<>>)
    BY <1>6, <1>7 DEF Turned
  <2> HIDE DEF a
  <2>2. <<a>> \o (<<>> \o <<>>) = <<a>>
    OBVIOUS
  <2> QED  BY <2>1, <2>2 DEF a
<1>9. Norm[m] = AI(t, ids)
  BY NormIs DEF t, ids
<1> QED  BY <1>4, <1>8, <1>9

LEMMA FromLCResultImage ==
    ASSUME NEW m \in AnyLC, m.type = "tool"
    PROVE  /\ GatherText(<<FromLCResult(m)>>) = <<>> /\ CallIds(<<FromLCResult(m)>>) = <<>>
           /\ Answers(<<FromLCResult(m)>>) = <<Norm[m]>> /\ Norm[m] \in AnyTool
           /\ Image[Message("tool", <<FromLCResult(m)>>)] = <<Norm[m]>>
<1> DEFINE r == FromLCResult(m)
           c == <<r>>
<1>1. r \in AnyPart /\ r.kind = "result" /\ r.id = m.call_id /\ ResultText(r) = Joined(m.content)
  <2>1. r \in AnyPart
    BY FromLCTyped
  <2> QED  BY <2>1 DEF FromLCResult, ToolResultFromLC, Result, Part, ResultText
<1>2. ToolResultToLC(r) = Norm[m] /\ Norm[m] \in AnyTool
  BY <1>1, LCByText, NormIs DEF ToolResultToLC, AnyTool
<1> HIDE DEF r
<1>3. GatherText(c) = <<>> /\ CallIds(c) = <<>> /\ Answers(c) = <<Norm[m]>>
  BY <1>1, <1>2, PartsOne
<1>4. c \in Seq(AnyPart) /\ c[1] = r /\ DOMAIN c = {1}
  BY <1>1
<1> HIDE DEF c
<1>5. ToLC(Message("tool", c)) = Answers(c)
  <2> DEFINE answers == OfKind(c, {"result"})
  <2>1. ~IsFeedbackOnly(Message("tool", c))
    BY <1>1, <1>4 DEF IsFeedbackOnly, Message
  <2>2. ToLC(Message("tool", c)) = [i \in DOMAIN answers |-> ToolResultToLC(answers[i])]
    BY <2>1 DEF ToLC, Message
  <2> QED  BY <1>4, <2>2, AnswersAre DEF Answers
<1>6. Message("tool", c) \in AnyMessage /\ Message("tool", c).role = "tool"
  BY <1>4, MessageTyped
<1>7. Image[Message("tool", c)] = ToLC(Message("tool", c))
  BY <1>6 DEF Image
<1> QED  BY <1>2, <1>3, <1>5, <1>7 DEF r, c

LEMMA SettledAppend ==
    ASSUME NEW t \in Seq(AnyMessage), NEW m \in AnyMessage
    PROVE  Settled(Append(t, m)) <=> Settled(t) /\ (m.role = "assistant" => ResultsLast(m.content))
<1> DEFINE u == Append(t, m)
<1>1. /\ DOMAIN u = 1..Len(t) + 1 /\ DOMAIN t = 1..Len(t) /\ Len(t) \in Nat
      /\ \A i \in 1..Len(t) : u[i] = t[i]
      /\ u[Len(t) + 1] = m
  BY AppendProperties, LenProperties
<1> HIDE DEF u
<1>2. \A i \in 1..Len(t) + 1 : i \in 1..Len(t) \/ i = Len(t) + 1
  BY <1>1
<1>3. \A i \in 1..Len(t) : i \in 1..Len(t) + 1
  BY <1>1
<1>4. Len(t) + 1 \in 1..Len(t) + 1
  BY <1>1
<1>5. Settled(u) <=> Settled(t) /\ (m.role = "assistant" => ResultsLast(m.content))
  BY <1>1, <1>2, <1>3, <1>4 DEF Settled
<1> QED  BY <1>5 DEF u

LEMMA SettledTail ==
    ASSUME NEW t \in Seq(AnyMessage), t # <<>>, Settled(t)
    PROVE  Settled(Tail(t)) /\ (Head(t).role = "assistant" => ResultsLast(Head(t).content))
<1>1. /\ DOMAIN t = 1..Len(t) /\ Len(t) \in Nat /\ Len(t) # 0 /\ t[1] = Head(t)
      /\ Tail(t) \in Seq(AnyMessage) /\ DOMAIN Tail(t) = 1..Len(t) - 1
      /\ \A i \in 1..Len(t) - 1 : Tail(t)[i] = t[i + 1]
  <2>1. Tail(t) \in Seq(AnyMessage) /\ t[1] = Head(t) /\ Len(Tail(t)) = Len(t) - 1
    BY HeadTyped
  <2>2. \A i \in 1..Len(Tail(t)) : Tail(t)[i] = t[i + 1]
    BY HeadTailProperties
  <2> QED  BY <2>1, <2>2, LenProperties, EmptySeq
<1>2. \A i \in 1..Len(t) - 1 : i + 1 \in 1..Len(t)
  BY <1>1
<1>3. 1 \in 1..Len(t)
  BY <1>1
<1> QED  BY <1>1, <1>2, <1>3 DEF Settled

LEMMA ResultsLastTail ==
    ASSUME NEW p \in Seq(AnyPart), p # <<>>, ResultsLast(p)
    PROVE  /\ ResultsLast(Tail(p)) /\ Head(p).kind \in {"text", "call", "result"}
           /\ Head(p).kind = "result" => \A i \in DOMAIN Tail(p) : Tail(p)[i].kind = "result"
<1>1. /\ DOMAIN p = 1..Len(p) /\ Len(p) \in Nat /\ Len(p) # 0 /\ p[1] = Head(p)
      /\ Tail(p) \in Seq(AnyPart) /\ DOMAIN Tail(p) = 1..Len(p) - 1
      /\ \A i \in 1..Len(p) - 1 : Tail(p)[i] = p[i + 1]
  <2>1. Tail(p) \in Seq(AnyPart) /\ p[1] = Head(p) /\ Len(Tail(p)) = Len(p) - 1
    BY HeadTyped
  <2>2. \A i \in 1..Len(Tail(p)) : Tail(p)[i] = p[i + 1]
    BY HeadTailProperties
  <2> QED  BY <2>1, <2>2, LenProperties, EmptySeq
<1>2. \A i \in 1..Len(p) - 1 : i + 1 \in 1..Len(p) /\ 1 < i + 1
  BY <1>1
<1>3. 1 \in 1..Len(p)
  BY <1>1
<1>4. \A i, j \in 1..Len(p) - 1 : i < j => i + 1 < j + 1
  OBVIOUS
<1> QED  BY <1>1, <1>2, <1>3, <1>4 DEF ResultsLast

LEMMA ResultsLastAppend ==
    ASSUME NEW c \in Seq(AnyPart), NEW r \in AnyPart, ResultsLast(c), r.kind = "result"
    PROVE  ResultsLast(Append(c, r))
<1> DEFINE u == Append(c, r)
<1>1. /\ DOMAIN u = 1..Len(c) + 1 /\ DOMAIN c = 1..Len(c) /\ Len(c) \in Nat
      /\ \A i \in 1..Len(c) : u[i] = c[i]
      /\ u[Len(c) + 1] = r
  BY AppendProperties, LenProperties
<1> HIDE DEF u
<1>2. \A i \in 1..Len(c) + 1 : i \in 1..Len(c) \/ i = Len(c) + 1
  BY <1>1
<1>3. \A i, j \in 1..Len(c) + 1 : i < j => i \in 1..Len(c)
  BY <1>1
<1>4. ResultsLast(u)
  BY <1>1, <1>2, <1>3 DEF ResultsLast
<1> QED  BY <1>4 DEF u

LEMMA TurnResultsLast ==
    ASSUME NEW m \in AnyLC
    PROVE  ResultsLast(FromLCTurn(m))
<1> DEFINE A == Kinds({"text", "call"})
           t == Joined(m.content)
           x == TextIfAny(t)
           y == Mapped(CallPart, m.calls)
<1>1. t \in Seq(Token) /\ m.calls \in Seq(AnyId)
  BY LCFields
<1>2. x \in Seq(A)
  <2>1. TextPart(t) \in AnyPart /\ TextPart(t).kind = "text"
    BY <1>1, TextPartTyped DEF TextPart, Part
  <2>2. TextPart(t) \in A
    BY <2>1 DEF Kinds
  <2> HIDE DEF A, t
  <2>3. <<TextPart(t)>> \in Seq(A) /\ <<>> \in Seq(A)
    BY <2>2, EmptySeq
  <2> QED  BY <2>3 DEF TextIfAny
<1>3. y \in Seq(A)
  <2>1. \A id \in AnyId : CallPart[id] \in A
    BY CallPartMaps DEF MapsInto, CallPart, Part, Kinds
  <2>2. MapsInto(CallPart, AnyId, A)
    BY <2>1 DEF MapsInto, CallPart
  <2> QED  BY <1>1, <2>2, MapTyped
<1> HIDE DEF x, y
<1>4. x \o y \in Seq(A)
  BY <1>2, <1>3, ConcatProperties
<1> DEFINE c == x \o y
<1>5. c \in Seq(A)
  BY <1>4
<1>6. FromLCTurn(m) = c
  BY DEF FromLCTurn, x, y, t
<1> HIDE DEF c
<1>7. \A i \in DOMAIN c : c[i] \in A
  BY <1>5, LenProperties, ElementOfSeq
<1>8. \A i \in DOMAIN c : c[i].kind \in {"text", "call"}
  BY <1>7 DEF Kinds
<1>9. ResultsLast(c)
  BY <1>8 DEF ResultsLast
<1> QED  BY <1>6, <1>9

\* A tool message that joins an assistant message comes after what that becomes.
LEMMA TurnedMore ==
    ASSUME NEW c \in Seq(AnyPart), NEW m \in AnyLC, m.type = "tool"
    PROVE  Turned(<<>>, <<>>, <<>>, Append(c, FromLCResult(m))) = Turned(<<>>, <<>>, <<>>, c) \o <<Norm[m]>>
<1> DEFINE r == FromLCResult(m)
           y == <<r>>
           z == <<Norm[m]>>
           w == c \o y
           a == AI(GatherText(c), CallIds(c))
<1>1. r \in AnyPart /\ y \in Seq(AnyPart) /\ Append(c, r) = w
  BY FromLCTyped, AppendIsConcat
<1>2. GatherText(y) = <<>> /\ CallIds(y) = <<>> /\ Answers(y) = z /\ z \in Seq(AnyTool)
  <2>1. Norm[m] \in AnyTool
    BY FromLCResultImage
  <2> QED  BY <2>1, FromLCResultImage
<1>3. GatherText(c) \in Seq(Token) /\ CallIds(c) \in Seq(AnyId) /\ Answers(c) \in Seq(AnyTool)
  BY PartsTyped
<1> HIDE DEF y, z, r
<1>4. GatherText(w) = GatherText(c) \o <<>> /\ CallIds(w) = CallIds(c) \o <<>> /\ Answers(w) = Answers(c) \o z
  BY <1>1, <1>2, PartsCat
<1> HIDE DEF w
<1>5. GatherText(w) = GatherText(c) /\ CallIds(w) = CallIds(c)
  BY <1>3, <1>4, ConcatEmptySeq
<1>6. <<>> \o GatherText(c) = GatherText(c) /\ <<>> \o CallIds(c) = CallIds(c)
  BY <1>3, ConcatEmptySeq
<1>7. <<>> \o Answers(c) = Answers(c) /\ <<>> \o (Answers(c) \o z) = Answers(c) \o z
  <2>1. Answers(c) \o z \in Seq(AnyTool)
    BY <1>2, <1>3, ConcatProperties
  <2> QED  BY <1>3, <2>1, ConcatEmptySeq
<1>8. Turned(<<>>, <<>>, <<>>, w) = <<a>> \o (Answers(c) \o z) /\ Turned(<<>>, <<>>, <<>>, c) = <<a>> \o Answers(c)
  BY <1>4, <1>5, <1>6, <1>7, FlattenEmpty DEF Turned
<1>9. a \in AnyLC
  BY <1>3, AITyped
<1> DEFINE l == <<a>>
<1> HIDE DEF a
<1>10. l \in Seq(AnyLC)
  BY <1>9
<1> HIDE DEF l
<1>11. Answers(c) \in Seq(AnyLC) /\ z \in Seq(AnyLC)
  BY <1>2, <1>3, ToolsAreLC
<1>12. (l \o Answers(c)) \o z = l \o (Answers(c) \o z)
  <2>1. Regroups(l, Answers(c), z)
    BY <1>10, <1>11, CatRegroups
  <2> QED  BY <2>1 DEF Regroups
<1> QED  BY <1>1, <1>8, <1>12 DEF l, z, r

----------------------------------------------------------------------------
(* A thread that came back becomes the list it came from.                  *)

\* What came back so far becomes, once converted, what was converted back.
CameBack == Settled(Flushed) /\ Images(Flushed) = Norms(SubSeq(lc, 1, back))

LEMMA NormsCat ==
    ASSUME NEW s \in Seq(AnyLC), NEW l \in Seq(AnyLC)
    PROVE  Norms(s \o l) = Norms(s) \o Norms(l)
  BY NormMaps, MapCat DEF Norms

LEMMA NormsOne == ASSUME NEW m PROVE Norms(<<m>>) = <<Norm[m]>>
  BY DEF Norms, Mapped

LEMMA BackNorms ==
    ASSUME LCInv, BackNext
    PROVE  Norms(SubSeq(lc, 1, back))' = Norms(SubSeq(lc, 1, back)) \o <<Norm[lc[back + 1]]>>
<1> DEFINE s == SubSeq(lc, 1, back)
           m == lc[back + 1]
           l == <<m>>
<1>1. SubSeq(lc, 1, back)' = s \o l /\ s \in Seq(AnyLC) /\ l \in Seq(AnyLC)
  BY BackList
<1>2. Norms(SubSeq(lc, 1, back))' = Norms(s \o l)
  BY <1>1
<1>3. Norms(l) = <<Norm[m]>>
  BY NormsOne
<1> HIDE DEF s, l
<1>4. Norms(s \o l) = Norms(s) \o Norms(l)
  BY <1>1, NormsCat
<1> QED  BY <1>2, <1>3, <1>4 DEF s

LEMMA ImagesMore ==
    ASSUME NEW t \in Seq(AnyMessage), NEW m \in AnyMessage
    PROVE  Images(Append(t, m)) = Images(t) \o Image[m] /\ Images(t) \in Seq(AnyLC)
<1>1. FlatMap(Image, Append(t, m)) = FlatMap(Image, t) \o Image[m]
  BY ImageMaps, FlatMapMore
<1>2. FlatMap(Image, t) \in Seq(AnyLC)
  BY ImageMaps, FlatMapTyped
<1> QED  BY <1>1, <1>2 DEF Images

LEMMA NothingCameBack ==
    /\ LCInv /\ back = 0 /\ Flushed = <<>> => CameBack
    /\ LCInv' /\ back' = 0 /\ Flushed' = <<>> => CameBack'
<1>1. ASSUME NEW l
      PROVE  Norms(SubSeq(l, 1, 0)) = <<>>
  <2>1. SubSeq(l, 1, 0) = <<>>
    BY SubSeqEmpty
  <2> QED  BY <2>1 DEF Norms, Mapped
<1>2. Images(<<>>) = <<>> /\ Settled(<<>>)
  BY FlatMapEmpty DEF Images, Settled
<1> QED  BY <1>1, <1>2 DEF CameBack

LEMMA FromOneCame ==
    ASSUME LCInv, CameBack, FromOne
    PROVE  CameBack'
<1> DEFINE m == lc[back + 1]
           o == FromLCOne(m)
<1>1. BackNext /\ m.type \in {"human", "system", "other"} /\ m \in AnyLC
  BY BackIs DEF FromOne
<1>2. Flushed' = Append(Flushed, o)
  BY DEF FromOne, Flushed
<1>3. o \in AnyMessage /\ Image[o] = <<Norm[m]>> /\ o.role # "assistant"
  BY <1>1, FromLCTyped, FromLCOneImage
<1>4. Norms(SubSeq(lc, 1, back))' = Norms(SubSeq(lc, 1, back)) \o <<Norm[m]>>
  BY <1>1, BackNorms
<1> HIDE DEF o
<1>5. Images(Append(Flushed, o)) = Images(Flushed) \o Image[o]
  BY <1>3, FlushedTyped, ImagesMore
<1>6. Settled(Append(Flushed, o))
  BY <1>3, FlushedTyped, SettledAppend DEF CameBack
<1> QED  BY <1>2, <1>3, <1>4, <1>5, <1>6 DEF CameBack

LEMMA FromAICame ==
    ASSUME LCInv, CameBack, FromAI
    PROVE  CameBack'
<1> DEFINE m == lc[back + 1]
<1>1. /\ BackNext /\ m.type = "ai" /\ m \in AnyLC /\ out' = Flushed
      /\ pendingAssistant' \in AnyMessage /\ pendingAssistant'.role = "assistant"
      /\ pendingAssistant'.content = FromLCTurn(m)
  BY FromAIIs, BackIs
<1>2. PICK o \in AnyMessage : o = pendingAssistant'
  BY <1>1
<1>3. Flushed' = Append(Flushed, o)
  BY <1>1, <1>2, NoneIsNone DEF Flushed
<1>4. Image[o] = <<Norm[m]>> /\ ResultsLast(o.content)
  <2>1. Image[o] = Turned(<<>>, <<>>, <<>>, FromLCTurn(m))
    BY <1>1, <1>2 DEF Image
  <2> QED  BY <1>1, <1>2, <2>1, FromLCTurnImage, TurnResultsLast
<1>5. Images(Append(Flushed, o)) = Images(Flushed) \o Image[o]
  BY FlushedTyped, ImagesMore
<1>6. Norms(SubSeq(lc, 1, back))' = Norms(SubSeq(lc, 1, back)) \o <<Norm[m]>>
  BY <1>1, BackNorms
<1>7. Settled(Append(Flushed, o))
  BY <1>4, FlushedTyped, SettledAppend DEF CameBack
<1> QED  BY <1>3, <1>4, <1>5, <1>6, <1>7 DEF CameBack

LEMMA FromToolCame ==
    ASSUME LCInv, CameBack, FromTool
    PROVE  CameBack'
<1> DEFINE m == lc[back + 1]
           r == FromLCResult(m)
<1>1. BackNext /\ m.type = "tool" /\ m \in AnyLC /\ r \in AnyPart /\ r.kind = "result"
  BY FromToolIs, BackIs DEF FromLCResult, ToolResultFromLC, Result, Part
<1>2. Norms(SubSeq(lc, 1, back))' = Norms(SubSeq(lc, 1, back)) \o <<Norm[m]>>
  BY <1>1, BackNorms
<1>3. out \in Seq(AnyMessage) /\ (pendingAssistant = None \/ pendingAssistant \in AnyMessage)
  BY DEF LCInv, LCTypes
<1>4. CASE pendingAssistant = None
  <2> DEFINE o == Message("tool", <<r>>)
  <2>1. Flushed = out /\ Flushed' = Append(out, o)
    BY <1>4, FromToolIs DEF Flushed
  <2>2. o \in AnyMessage /\ o.role = "tool"
    <3>1. <<r>> \in Seq(AnyPart)
      BY <1>1
    <3> QED  BY <3>1, MessageTyped
  <2>3. Image[o] = <<Norm[m]>>
    BY <1>1, FromLCResultImage
  <2> HIDE DEF o
  <2>4. Images(Append(out, o)) = Images(out) \o Image[o]
    BY <1>3, <2>2, ImagesMore
  <2>5. Settled(Append(out, o))
    BY <1>3, <2>1, <2>2, SettledAppend DEF CameBack
  <2> QED  BY <1>2, <2>1, <2>3, <2>4, <2>5 DEF CameBack
<1>5. CASE pendingAssistant # None
  <2> DEFINE c == pendingAssistant.content
             d == Append(c, r)
             o == Message("assistant", d)
             z == <<Norm[m]>>
             b == Turned(<<>>, <<>>, <<>>, c)
  <2>1. pendingAssistant' = o /\ out' = out /\ c \in Seq(AnyPart)
    BY <1>5, FromToolIs
  <2>2. d \in Seq(AnyPart)
    BY <1>1, <2>1, AppendProperties
  <2>3. o \in AnyMessage /\ o.role = "assistant" /\ o.content = d
    BY <2>2, MessageTyped
  <2>4. Flushed = Append(out, pendingAssistant) /\ Flushed' = Append(out, o)
    BY <1>5, <2>1, <2>3, NoneIsNone DEF Flushed
  <2>5. pendingAssistant \in AnyMessage /\ pendingAssistant.role = "assistant"
    BY <1>3, <1>5 DEF LCInv, LCPhases
  <2>6. Image[pendingAssistant] = b /\ Image[o] = Turned(<<>>, <<>>, <<>>, d)
    BY <2>3, <2>5 DEF Image
  <2>7. Turned(<<>>, <<>>, <<>>, d) = b \o z
    BY <1>1, <2>1, TurnedMore
  <2>8. Settled(out) /\ ResultsLast(c)
    BY <1>3, <2>4, <2>5, SettledAppend DEF CameBack
  <2>9. ResultsLast(d)
    BY <1>1, <2>1, <2>8, ResultsLastAppend
  <2>10. Settled(Append(out, o))
    <3> HIDE DEF o, d
    <3> QED  BY <1>3, <2>3, <2>8, <2>9, SettledAppend
  <2>11. Images(Append(out, pendingAssistant)) = Images(out) \o Image[pendingAssistant]
    BY <1>3, <2>5, ImagesMore
  <2>12. Images(Append(out, o)) = Images(out) \o Image[o] /\ Images(out) \in Seq(AnyLC)
    <3> HIDE DEF o, d
    <3> QED  BY <1>3, <2>3, ImagesMore
  <2>13. b \in Seq(AnyLC)
    BY <2>5, <2>6, ImageMaps DEF MapsInto
  <2>14. z \in Seq(AnyLC)
    BY <1>1, NormMaps DEF MapsInto
  <2> HIDE DEF z, b, o, d, m
  <2>15. Images(out) \o (b \o z) = (Images(out) \o b) \o z
    BY <2>12, <2>13, <2>14, ConcatAssociative, SMTT(60)
  <2> QED  BY <1>2, <2>4, <2>6, <2>7, <2>10, <2>11, <2>12, <2>15 DEF CameBack, z
<1> QED  BY <1>4, <1>5

LEMMA CameBackNext == LCInv /\ LCInv' /\ CameBack /\ [LCNext]_lcVars => CameBack'
<1> SUFFICES ASSUME LCInv, LCInv', CameBack, [LCNext]_lcVars
             PROVE  CameBack'
  OBVIOUS
<1>1. CASE UNCHANGED lcVars
  BY <1>1 DEF lcVars, backVars, CameBack, Flushed
<1>2. CASE LCNext
  <2>1. CASE \/ Convert \/ OpenAssistant \/ TakeText \/ TakeCall \/ TakeResult \/ DropPart
             \/ CloseAssistant \/ Resume
    <3>1. back' = 0 /\ Flushed' = <<>>
      BY <2>1, ForthLeavesBack
    <3> QED  BY <3>1, NothingCameBack
  <2>2. CASE FromHuman \/ FromOther
    BY <2>2, FromOneIs, FromOneCame
  <2>3. CASE FromAI
    BY <2>3, FromAICame
  <2>4. CASE FromTool
    BY <2>4, FromToolCame
  <2>5. CASE FromEnd
    <3>1. back' = back /\ lc' = lc /\ Flushed' = Flushed
      BY <2>5 DEF FromEnd, Flushed
    <3> QED  BY <3>1 DEF CameBack
  <2> QED  BY <1>2, <2>1, <2>2, <2>3, <2>4, <2>5 DEF LCNext
<1> QED  BY <1>1, <1>2

\* What is left of the assistant message that is walked, as messages.
Unwalked(t, c, r, p) == IF p = None THEN <<>> ELSE Turned(t, c, r, p)

\* Once the conversation resumed: the messages so far, and what is left of the thread as
\* messages, are the list it came back from; nothing but results follows a result.
GoesForth ==
    before # None =>
        /\ Settled(todo)
        /\ parts # None => /\ ResultsLast(parts) /\ ~sawAnyEmit
                           /\ results # <<>> => \A i \in DOMAIN parts : parts[i].kind = "result"
        /\ Norms(before) = (lc \o Unwalked(texts, calls, results, parts)) \o Images(todo)

\* A part that is taken is in the group.
LEMMA TurnedTakes ==
    ASSUME NEW t \in Seq(Seq(Token)), NEW c \in Seq(AnyId), NEW r \in Seq(AnyTool),
           NEW p \in Seq(AnyPart), p # <<>>
    PROVE  /\ Head(p).kind = "text" => Turned(Append(t, Head(p).text), c, r, Tail(p)) = Turned(t, c, r, p)
           /\ Head(p).kind = "call" => Turned(t, Append(c, Head(p).id), r, Tail(p)) = Turned(t, c, r, p)
           /\ Head(p).kind = "result" =>
                 Turned(t, c, Append(r, ToolResultToLC(Head(p))), Tail(p)) = Turned(t, c, r, p)
<1> DEFINE h == Head(p)
           u == Tail(p)
           q == <<h>>
<1>1. h \in AnyPart /\ u \in Seq(AnyPart) /\ h.text \in Seq(Token) /\ h.id \in AnyId
      /\ ToolResultToLC(h) \in AnyTool
  <2>1. h \in AnyPart /\ u \in Seq(AnyPart)
    BY HeadTyped
  <2> QED  BY <2>1, ToolTyped DEF AnyPart, AnyId
<1>2. p = q \o u /\ q \in Seq(AnyPart)
  <2>1. p = <<Head(p)>> \o Tail(p)
    BY HeadTailProperties
  <2> QED  BY <1>1, <2>1
<1>3. /\ GatherText(q) = IF h.kind = "text" THEN h.text ELSE <<>>
      /\ CallIds(q) = IF h.kind = "call" THEN <<h.id>> ELSE <<>>
      /\ Answers(q) = IF h.kind = "result" THEN <<ToolResultToLC(h)>> ELSE <<>>
  BY <1>1, PartsOne
<1>4. GatherText(u) \in Seq(Token) /\ CallIds(u) \in Seq(AnyId) /\ Answers(u) \in Seq(AnyTool)
  BY <1>1, PartsTyped
<1> HIDE DEF h, u, q
<1>5. GatherText(p) = GatherText(q) \o GatherText(u) /\ CallIds(p) = CallIds(q) \o CallIds(u)
      /\ Answers(p) = Answers(q) \o Answers(u)
  <2>1. GatherText(q \o u) = GatherText(q) \o GatherText(u) /\ CallIds(q \o u) = CallIds(q) \o CallIds(u)
        /\ Answers(q \o u) = Answers(q) \o Answers(u)
    BY <1>1, <1>2, PartsCat
  <2> QED  BY <1>2, <2>1
<1>6. <<>> \o GatherText(u) = GatherText(u) /\ <<>> \o CallIds(u) = CallIds(u) /\ <<>> \o Answers(u) = Answers(u)
  BY <1>4, ConcatEmptySeq
<1>7. CASE h.kind = "text"
  <2>1. FlattenSeq(Append(t, h.text)) = FlattenSeq(t) \o h.text /\ FlattenSeq(t) \in Seq(Token)
    BY <1>1, FlattenMore, FlattenTyped
  <2>2. FlattenSeq(t) \o (h.text \o GatherText(u)) = (FlattenSeq(t) \o h.text) \o GatherText(u)
    <3> DEFINE x == FlattenSeq(t)
               y == h.text
               z == GatherText(u)
    <3>1. x \in Seq(Token) /\ y \in Seq(Token) /\ z \in Seq(Token)
      BY <1>1, <1>4, <2>1
    <3> HIDE DEF x, y, z
    <3>2. x \o (y \o z) = (x \o y) \o z
      <4>1. Regroups(x, y, z)
        BY <3>1, CatRegroups
      <4> QED  BY <4>1 DEF Regroups
    <3> QED  BY <3>2 DEF x, y, z
  <2>3. GatherText(p) = h.text \o GatherText(u) /\ CallIds(p) = CallIds(u) /\ Answers(p) = Answers(u)
    BY <1>3, <1>5, <1>6, <1>7
  <2>4. Turned(Append(t, h.text), c, r, u) = Turned(t, c, r, p)
    BY <2>1, <2>2, <2>3 DEF Turned
  <2> QED  BY <1>7, <2>4 DEF h, u
<1>8. CASE h.kind = "call"
  <2> DEFINE d == <<h.id>>
  <2>1. d \in Seq(AnyId) /\ Append(c, h.id) = c \o d
    BY <1>1, AppendIsConcat
  <2>2. CallIds(q) = d /\ GatherText(q) = <<>> /\ Answers(q) = <<>>
    BY <1>3, <1>8
  <2> HIDE DEF d
  <2>3. c \o (d \o CallIds(u)) = (c \o d) \o CallIds(u)
    <3>1. Regroups(c, d, CallIds(u))
      BY <1>4, <2>1, CatRegroups
    <3> QED  BY <3>1 DEF Regroups
  <2>4. GatherText(p) = GatherText(u) /\ CallIds(p) = d \o CallIds(u) /\ Answers(p) = Answers(u)
    BY <1>5, <1>6, <2>2
  <2>5. Turned(t, Append(c, h.id), r, u) = Turned(t, c, r, p)
    BY <2>1, <2>3, <2>4 DEF Turned
  <2> QED  BY <1>8, <2>5 DEF h, u
<1>9. CASE h.kind = "result"
  <2> DEFINE a == ToolResultToLC(h)
             d == <<a>>
  <2>1. d \in Seq(AnyTool) /\ Append(r, a) = r \o d
    BY <1>1, AppendIsConcat
  <2>2. CallIds(q) = <<>> /\ GatherText(q) = <<>> /\ Answers(q) = d
    BY <1>3, <1>9
  <2> HIDE DEF d, a
  <2>3. r \o (d \o Answers(u)) = (r \o d) \o Answers(u)
    <3>1. Regroups(r, d, Answers(u))
      BY <1>4, <2>1, CatRegroups
    <3> QED  BY <3>1 DEF Regroups
  <2>4. GatherText(p) = GatherText(u) /\ CallIds(p) = CallIds(u) /\ Answers(p) = d \o Answers(u)
    BY <1>5, <1>6, <2>2
  <2>5. Turned(t, c, Append(r, a), u) = Turned(t, c, r, p)
    BY <2>1, <2>3, <2>4 DEF Turned
  <2> QED  BY <1>9, <2>5 DEF a, h, u
<1> QED  BY <1>7, <1>8, <1>9 DEF h, u

LEMMA ImagesHead ==
    ASSUME NEW t \in Seq(AnyMessage), t # <<>>
    PROVE  /\ Images(t) = Image[Head(t)] \o Images(Tail(t))
           /\ Image[Head(t)] \in Seq(AnyLC) /\ Images(Tail(t)) \in Seq(AnyLC)
<1>1. Head(t) \in AnyMessage /\ Tail(t) \in Seq(AnyMessage)
  BY HeadTyped
<1>2. FlatMap(Image, t) = Image[Head(t)] \o FlatMap(Image, Tail(t))
  BY ImageMaps, FlatMapHead
<1>3. Image[Head(t)] \in Seq(AnyLC)
  BY <1>1, ImageMaps DEF MapsInto
<1>4. FlatMap(Image, Tail(t)) \in Seq(AnyLC)
  BY <1>1, ImageMaps, FlatMapTyped
<1> QED  BY <1>2, <1>3, <1>4 DEF Images

\* A content without feedback is not feedback only.
LEMMA SettledIsWalked ==
    ASSUME NEW msg \in AnyMessage, msg.role = "assistant", ResultsLast(msg.content)
    PROVE  Walked(msg)
<1>1. msg.content \in Seq(AnyPart)
  BY DEF AnyMessage
<1>2. msg.content # <<>> => 1 \in DOMAIN msg.content
  BY <1>1, EmptySeq, LenProperties
<1> QED  BY <1>2 DEF Walked, IsFeedbackOnly, ResultsLast

LEMMA ConvertForth ==
    ASSUME LCInv, GoesForth, Convert \/ OpenAssistant
    PROVE  GoesForth'
<1> DEFINE h == Head(todo)
           U == Images(Tail(todo))
<1>1. /\ lc \in Seq(AnyLC) /\ todo \in Seq(AnyMessage) /\ todo # <<>> /\ parts = None
      /\ before' = before /\ todo' = Tail(todo)
  BY DEF LCInv, LCTypes, Convert, OpenAssistant, given
<1> SUFFICES ASSUME before # None
             PROVE  GoesForth'
  BY <1>1 DEF GoesForth
<1>2. h \in AnyMessage /\ Tail(todo) \in Seq(AnyMessage)
  BY <1>1, HeadTyped
<1>3. Settled(todo) /\ Norms(before) = (lc \o <<>>) \o Images(todo)
  BY <1>1 DEF GoesForth, Unwalked
<1>4. Settled(Tail(todo)) /\ (h.role = "assistant" => ResultsLast(h.content))
  BY <1>1, <1>3, SettledTail
<1>5. Images(todo) = Image[h] \o U /\ Image[h] \in Seq(AnyLC) /\ U \in Seq(AnyLC)
  BY <1>1, ImagesHead
<1>6. Norms(before) = (lc \o Image[h]) \o U
  <2>1. lc \o <<>> = lc
    BY <1>1, ConcatEmptySeq
  <2> HIDE DEF U, h
  <2>2. lc \o (Image[h] \o U) = (lc \o Image[h]) \o U
    <3>1. Regroups(lc, Image[h], U)
      BY <1>1, <1>5, CatRegroups
    <3> QED  BY <3>1 DEF Regroups
  <2> QED  BY <1>3, <1>5, <2>1, <2>2
<1>7. CASE Convert
  <2>1. ~Walked(h) /\ lc' = lc \o ToLC(h) /\ UNCHANGED walkVars
    BY <1>7 DEF Convert
  <2>2. h.role # "assistant"
    BY <1>2, <1>4, <2>1, SettledIsWalked
  <2>3. Image[h] = ToLC(h)
    BY <1>2, <2>2 DEF Image
  <2>4. parts' = None
    BY <1>1, <2>1 DEF walkVars
  <2>5. Norms(before') = (lc' \o <<>>) \o Images(todo')
    <3>1. lc \o Image[h] \in Seq(AnyLC)
      BY <1>1, <1>5, ConcatProperties
    <3>2. (lc \o Image[h]) \o <<>> = lc \o Image[h]
      BY <3>1, ConcatEmptySeq
    <3> QED  BY <1>1, <1>6, <2>1, <2>3, <3>2
  <2> QED  BY <1>1, <1>4, <2>4, <2>5 DEF GoesForth, Unwalked
<1>8. CASE OpenAssistant
  <2>1. /\ Walked(h) /\ lc' = lc /\ parts' = h.content
        /\ texts' = <<>> /\ calls' = <<>> /\ results' = <<>> /\ sawAnyEmit' = FALSE
    BY <1>8 DEF OpenAssistant
  <2>2. h.role = "assistant" /\ h.content # None
    BY <1>2, <2>1, NoneIsNone DEF Walked, AnyMessage
  <2>3. Image[h] = Turned(<<>>, <<>>, <<>>, h.content)
    BY <1>2, <2>2 DEF Image
  <2>4. Norms(before') = (lc' \o Turned(texts', calls', results', parts')) \o Images(todo')
    BY <1>1, <1>6, <2>1, <2>3
  <2> QED  BY <1>1, <1>4, <2>1, <2>2, <2>4 DEF GoesForth, Unwalked
<1> QED  BY <1>7, <1>8

\* A step of the walk that takes a part into the group.
LEMMA TakenForth ==
    ASSUME LCInv, GoesForth, before # None, parts # None, parts # <<>>, parts' = Tail(parts),
           UNCHANGED <<given, todo, lc, sawAnyEmit>>,
           Turned(texts', calls', results', parts') = Turned(texts, calls, results, parts),
           results' # <<>> => \A i \in DOMAIN Tail(parts) : Tail(parts)[i].kind = "result"
    PROVE  GoesForth'
<1>1. parts \in Seq(AnyPart)
  BY WalkingIsBefore
<1>2. parts' # None
  BY <1>1, HeadTyped, NoneIsNone
<1>3. ResultsLast(parts')
  BY <1>1, ResultsLastTail DEF GoesForth
<1>4. Norms(before') = (lc' \o Turned(texts', calls', results', parts')) \o Images(todo')
  BY DEF GoesForth, Unwalked, given
<1> QED  BY <1>2, <1>3, <1>4 DEF GoesForth, Unwalked, given

LEMMA WalkForth ==
    ASSUME LCInv, GoesForth, TakeText \/ TakeCall \/ TakeResult \/ DropPart
    PROVE  GoesForth'
<1> DEFINE h == Head(parts)
<1>1. parts # None /\ parts # <<>> /\ parts' = Tail(parts) /\ UNCHANGED <<given, todo>>
  BY DEF TakeText, TakeCall, TakeResult, DropPart
<1> SUFFICES ASSUME before # None
             PROVE  GoesForth'
  BY <1>1 DEF GoesForth, given
<1>2. /\ texts \in Seq(Seq(Token)) /\ calls \in Seq(AnyId) /\ results \in Seq(AnyTool)
      /\ parts \in Seq(AnyPart) /\ (lastWasToolResult <=> results # <<>>)
  BY <1>1 DEF LCInv, LCTypes, LCPhases
<1>3. ResultsLast(parts) /\ (results # <<>> => \A i \in DOMAIN parts : parts[i].kind = "result")
  BY <1>1 DEF GoesForth
<1>4. h \in AnyPart /\ h = parts[1] /\ 1 \in DOMAIN parts
  BY <1>1, <1>2, HeadTyped, EmptySeq, LenProperties
<1>5. h.text \in Seq(Token) /\ h.id \in AnyId
  BY <1>4 DEF AnyPart, AnyId
<1>6. h.kind \in {"text", "call", "result"} /\ (results # <<>> => h.kind = "result")
      /\ (h.kind = "result" => \A i \in DOMAIN Tail(parts) : Tail(parts)[i].kind = "result")
  BY <1>1, <1>2, <1>3, <1>4, ResultsLastTail
<1>7. CASE TakeText
  <2>1. h.kind = "text" /\ GoOn(<<h.text>>, <<>>)
    BY <1>7 DEF TakeText
  <2>2. results = <<>> /\ ~lastWasToolResult
    BY <1>2, <1>6, <2>1
  <2>3. /\ texts' = texts \o <<h.text>> /\ calls' = calls \o <<>>
        /\ UNCHANGED <<lc, results, lastWasToolResult, sawAnyEmit>>
    BY <2>1, <2>2 DEF GoOn
  <2>4. texts' = Append(texts, h.text) /\ calls' = calls
    BY <1>2, <1>5, <2>3, AppendIsConcat, ConcatEmptySeq
  <2>5. Turned(texts', calls', results', parts') = Turned(texts, calls, results, parts)
    BY <1>1, <1>2, <2>1, <2>3, <2>4, TurnedTakes
  <2> QED  BY <1>1, <2>2, <2>3, <2>5, TakenForth
<1>8. CASE TakeCall
  <2>1. h.kind = "call" /\ GoOn(<<>>, <<h.id>>)
    BY <1>8 DEF TakeCall
  <2>2. results = <<>> /\ ~lastWasToolResult
    BY <1>2, <1>6, <2>1
  <2>3. /\ texts' = texts \o <<>> /\ calls' = calls \o <<h.id>>
        /\ UNCHANGED <<lc, results, lastWasToolResult, sawAnyEmit>>
    BY <2>1, <2>2 DEF GoOn
  <2>4. texts' = texts /\ calls' = Append(calls, h.id)
    BY <1>2, <1>5, <2>3, AppendIsConcat, ConcatEmptySeq
  <2>5. Turned(texts', calls', results', parts') = Turned(texts, calls, results, parts)
    BY <1>1, <1>2, <2>1, <2>3, <2>4, TurnedTakes
  <2> QED  BY <1>1, <2>2, <2>3, <2>5, TakenForth
<1>9. CASE TakeResult
  <2>1. /\ h.kind = "result" /\ results' = Append(results, ToolResultToLC(h))
        /\ UNCHANGED <<texts, calls, sawAnyEmit, lc>>
    BY <1>9 DEF TakeResult
  <2>2. Turned(texts', calls', results', parts') = Turned(texts, calls, results, parts)
    BY <1>1, <1>2, <2>1, TurnedTakes
  <2> QED  BY <1>1, <1>6, <2>1, <2>2, TakenForth
<1>10. CASE DropPart
  BY <1>6, <1>10 DEF DropPart
<1> QED  BY <1>7, <1>8, <1>9, <1>10

LEMMA CloseForth ==
    ASSUME LCInv, GoesForth, CloseAssistant
    PROVE  GoesForth'
<1>1. /\ parts = <<>> /\ lc' = lc \o Closing /\ parts' = None /\ UNCHANGED <<given, todo>>
  BY DEF CloseAssistant, Closing
<1>2. parts # None
  BY <1>1, EmptySeq, NoneIsNone
<1> SUFFICES ASSUME before # None
             PROVE  GoesForth'
  BY <1>1 DEF GoesForth, given
<1>3. /\ texts \in Seq(Seq(Token)) /\ calls \in Seq(AnyId) /\ results \in Seq(AnyTool) /\ lc \in Seq(AnyLC)
  BY DEF LCInv, LCTypes
<1>4. ~sawAnyEmit /\ Settled(todo) /\ Norms(before) = (lc \o Turned(texts, calls, results, <<>>)) \o Images(todo)
  BY <1>1, <1>2 DEF GoesForth, Unwalked
<1>5. Turned(texts, calls, results, <<>>) = <<AI(FlattenSeq(texts), calls)>> \o results
  <2>1. FlattenSeq(texts) \in Seq(Token)
    BY <1>3, FlattenTyped
  <2>2. FlattenSeq(texts) \o <<>> = FlattenSeq(texts) /\ calls \o <<>> = calls /\ results \o <<>> = results
    BY <1>3, <2>1, ConcatEmptySeq
  <2> QED  BY <2>2, PartsNone DEF Turned
<1>6. Turned(texts, calls, results, <<>>) = Closing
  <2>1. CASE Pending
    BY <1>5, <2>1 DEF Closing, Group
  <2>2. CASE ~Pending
    <3>1. Closing = <<AI(<<>>, <<>>)>> /\ texts = <<>> /\ calls = <<>> /\ results = <<>>
      BY <1>4, <2>2 DEF Closing, Pending
    <3> DEFINE a == AI(<<>>, <<>>)
    <3>2. Turned(texts, calls, results, <<>>) = <<a>> \o <<>>
      BY <1>5, <3>1, FlattenEmpty
    <3>3. Closing = <<a>>
      BY <3>1
    <3> HIDE DEF a
    <3>4. <<a>> \o <<>> = <<a>>
      OBVIOUS
    <3> QED  BY <3>2, <3>3, <3>4
  <2> QED  BY <2>1, <2>2
<1>7. (lc \o Closing) \o <<>> = lc \o Closing
  <2>1. lc \o Closing \in Seq(AnyLC)
    BY <1>3, ClosingTyped, ConcatProperties
  <2> QED  BY <2>1, ConcatEmptySeq
<1>8. Norms(before') = (lc' \o <<>>) \o Images(todo')
  BY <1>1, <1>4, <1>6, <1>7 DEF given
<1> QED  BY <1>1, <1>4, <1>8 DEF GoesForth, Unwalked

LEMMA BackForth ==
    ASSUME LCInv, GoesForth, CameBack,
           FromHuman \/ FromAI \/ FromTool \/ FromOther \/ FromEnd \/ Resume \/ UNCHANGED lcVars
    PROVE  GoesForth'
<1>1. CASE ~Resume
  <2>1. UNCHANGED <<given, todo, walkVars, lc>>
    BY <1>1 DEF FromHuman, FromAI, FromTool, FromOther, FromEnd, BackNext, lcVars
  <2> QED  BY <2>1 DEF GoesForth, Unwalked, given, walkVars
<1>2. CASE Resume
  <2>1. /\ parts = None /\ UNCHANGED walkVars /\ back = Len(lc) /\ pendingAssistant = None
        /\ before' = lc /\ todo' = out /\ lc' = <<>> /\ lc \in Seq(AnyLC) /\ out \in Seq(AnyMessage)
    BY <1>2 DEF Resume, Converted, LCInv, LCTypes
  <2>2. Flushed = out /\ SubSeq(lc, 1, back) = lc
    BY <2>1, SubSeqFull DEF Flushed
  <2>3. Settled(out) /\ Images(out) = Norms(lc)
    BY <2>2 DEF CameBack
  <2>4. (<<>> \o <<>>) \o Images(out) = Images(out)
    <3>1. <<>> \in Seq(AnyLC) /\ Images(out) \in Seq(AnyLC)
      BY <2>1, EmptySeq, ImageMaps, FlatMapTyped DEF Images
    <3>2. <<>> \o <<>> = <<>>
      OBVIOUS
    <3> QED  BY <3>1, <3>2, ConcatEmptySeq
  <2>5. parts' = None /\ Norms(before') = (lc' \o <<>>) \o Images(todo')
    BY <2>1, <2>3, <2>4 DEF walkVars
  <2> QED  BY <2>1, <2>3, <2>5 DEF GoesForth, Unwalked
<1> QED  BY <1>1, <1>2

LEMMA GoesForthNext == LCInv /\ CameBack /\ GoesForth /\ [LCNext]_lcVars => GoesForth'
  BY ConvertForth, WalkForth, CloseForth, BackForth DEF LCNext

LEMMA GoesForthResumes == LCInv /\ GoesForth => ResumesTheSame
<1> SUFFICES ASSUME LCInv, GoesForth, before # None, Converted
             PROVE  lc = [i \in DOMAIN before |-> Resumed(before[i])]
  BY DEF ResumesTheSame
<1>1. lc \in Seq(AnyLC) /\ before \in Seq(AnyLC) /\ todo = <<>> /\ parts = None
  BY DEF LCInv, LCTypes, Converted
<1>2. Norms(before) = (lc \o <<>>) \o <<>>
  BY <1>1, FlatMapEmpty DEF GoesForth, Unwalked, Images
<1>3. lc \o <<>> = lc
  BY <1>1, ConcatEmptySeq
<1>4. \A i \in DOMAIN before : before[i] \in AnyLC
  BY <1>1, LenProperties, ElementOfSeq
<1>5. Norms(before) = [i \in DOMAIN before |-> Resumed(before[i])]
  BY <1>4 DEF Norms, Mapped, Norm
<1> QED  BY <1>2, <1>3, <1>5

LEMMA ResumesInit == LCReady => CameBack /\ GoesForth
<1> SUFFICES ASSUME LCReady
             PROVE  CameBack /\ GoesForth
  OBVIOUS
<1>1. LCInv /\ back = 0 /\ Flushed = <<>> /\ before = None
  BY LCInvInit DEF LCReady, Flushed
<1> QED  BY <1>1, NothingCameBack DEF GoesForth

\* A conversation that resumes goes on from the list it stopped at: the thread made of a
\* list of LangChain messages becomes that list again, message by message, an unknown
\* class as a system message and a call without an id with one.
THEOREM ResumedConversationIsTheSame == LCSpec => []ResumesTheSame
  BY GivenIsReady, ConversionTyped, ResumesInit, CameBackNext, GoesForthNext, GoesForthResumes, PTL DEF LCSpec
================================================================================
