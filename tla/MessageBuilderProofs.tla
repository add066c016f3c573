------------------------- MODULE MessageBuilderProofs -------------------------
(***************************************************************************)
(* The reducer's one-part equivalence, and the builder: every part in      *)
(* hand, every message returned and every event emitted is valid, whatever *)
(* the sink did, and the ids lead to the parts they name.                  *)
(***************************************************************************)
EXTENDS MessageBuilder, SequenceTheorems, TLAPS

----------------------------------------------------------------------------
(* Facts about parts and the reducer.                                        *)

LEMMA DefaultTypes ==
    ASSUME NEW type \in PartType
    PROVE  /\ DefaultText(type) \in Seq(Token) \cup {None, Absent}
           /\ DefaultStatus(type) \in Status \cup {Absent}
           /\ DefaultMeta(type) \in {None, Absent}
  BY DEF DefaultText, DefaultStatus, DefaultMeta, Status

\* A merged dictionary that the adapter accepts becomes a part object.
LEMMA ValidatedIsPart ==
    ASSUME NEW d \in Dict, Valid(d)
    PROVE  Validated(d) \in Part
<1>0. d.type \in PartType
  BY DEF Valid
<1>1. Validated(d) \in Dict
  BY <1>0, DefaultTypes DEF Validated, Dict, Pick
<1>2. Valid(Validated(d))
  <2> DEFINE v == Validated(d)
  <2>1. v.type = d.type /\ v.id = d.id /\ v.has = d.has
    BY DEF Validated
  <2>2. ASSUME v.type \in Textual  PROVE v.text # None
    <3>1. <<>> # None
      <4>1. <<>> \in Seq(Token)
        OBVIOUS
      <4> QED  BY <4>1, MarkerAssumption
    <3>2. d.text # None
      BY <2>1, <2>2 DEF Valid
    <3> QED  BY <2>1, <2>2, <3>1, <3>2 DEF Validated, Pick, DefaultText
  <2>3. ASSUME v.type \in Tracked  PROVE v.status \in Status \cup {Absent}
    BY <1>0, <2>1, <2>3, DefaultTypes DEF Validated, Pick, Valid
  <2> QED  BY <2>1, <2>2, <2>3 DEF Valid
<1>3. Validated(Validated(d)) = Validated(d)
  BY DEF Validated, Pick
<1> QED  BY <1>1, <1>2, <1>3 DEF Part

LEMMA MergeIsDict ==
    ASSUME NEW p \in Dict, NEW q \in Dict
    PROVE  Merge(p, q) \in Dict
  BY DEF Merge, Pick, Dict

\* Patching a part again with the same patch changes nothing: redelivery of a
\* part_updated is harmless.
LEMMA PatchIdempotent ==
    ASSUME NEW p \in Part, NEW q \in Dict, Valid(Merge(p, q))
    PROVE  LET once == Validated(Merge(p, q))
           IN  Validated(Merge(once, q)) = once /\ Valid(Merge(once, q))
<1> DEFINE m == Merge(p, q)
           once == Validated(m)
<1>1. m \in Dict /\ once \in Part /\ Valid(once)
  BY MergeIsDict, ValidatedIsPart DEF Part
<1>2. /\ m.type = Pick(q.type, p.type) /\ m.id = Pick(q.id, p.id)
      /\ m.has = p.has \cup q.has /\ m.text = Pick(q.text, p.text)
      /\ m.status = Pick(q.status, p.status) /\ m.meta = Pick(q.meta, p.meta)
  BY DEF Merge
<1>3. /\ once.type = m.type /\ once.id = m.id /\ once.has = m.has
      /\ once.text = Pick(m.text, DefaultText(m.type))
      /\ once.status = Pick(m.status, DefaultStatus(m.type))
      /\ once.meta = Pick(m.meta, DefaultMeta(m.type))
  BY DEF Validated
<1>4. once \in Dict
  BY <1>1 DEF Part
<1> HIDE DEF m, once
<1>5. /\ Pick(q.type, once.type) = once.type /\ Pick(q.id, once.id) = once.id
      /\ once.has \cup q.has = once.has /\ Pick(q.text, once.text) = once.text
      /\ Pick(q.status, once.status) = once.status /\ Pick(q.meta, once.meta) = once.meta
  BY <1>2, <1>3 DEF Pick
<1>6. once = [type |-> once.type, id |-> once.id, has |-> once.has, text |-> once.text,
              status |-> once.status, meta |-> once.meta]
  BY <1>4 DEF Dict
<1>7. Merge(once, q) = once
  BY <1>5, <1>6 DEF Merge
<1> QED  BY <1>1, <1>7 DEF Part, once, m

----------------------------------------------------------------------------
LEMMA AppendedSplit ==
    ASSUME NEW content, NEW e, NEW part, e.part = part,
           NEW i, i = Clamp(e.index, Len(content)) + 1
    PROVE  AfterAppended(content, e) =
              (SubSeq(content, 1, i - 1) \o <<part>>) \o SubSeq(content, i, Len(content))
<1>1. AfterAppended(content, e) = InsertAt(content, i, part)
  BY DEF AfterAppended
<1>2. InsertAt(content, i, part) =
        (SubSeq(content, 1, i - 1) \o <<part>>) \o SubSeq(content, i, Len(content))
  BY DEF InsertAt
<1> QED  BY <1>1, <1>2

\* Appending is what a receiver does when the index is the length it has.
LEMMA AppendedAtEnd ==
    ASSUME NEW content \in Seq(Part), NEW part \in Part, NEW e,
           e.index = Len(content), e.part = part
    PROVE  AfterAppended(content, e) = Append(content, part)
<1> DEFINE i == Len(content) + 1
<1>1. Len(content) \in Nat /\ i = Clamp(e.index, Len(content)) + 1
  BY LenProperties DEF Clamp
<1>2. i - 1 = Len(content)
  BY <1>1
<1>3. SubSeq(content, i, Len(content)) = <<>>
  BY <1>1, EmptySeq, SubSeqProperties
<1> HIDE DEF i
<1>4. AfterAppended(content, e) =
        (SubSeq(content, 1, i - 1) \o <<part>>) \o SubSeq(content, i, Len(content))
  BY <1>1, AppendedSplit
<1>5. AfterAppended(content, e) = (content \o <<part>>) \o <<>>
  BY <1>2, <1>3, <1>4, SubSeqFull
<1>6. content \o <<part>> \in Seq(Part) /\ Append(content, part) = content \o <<part>>
  BY AppendIsConcat
<1> QED  BY <1>5, <1>6, ConcatProperties

\* Whatever its arguments are, an incremental event that does not raise leaves
\* a content of valid parts.
LEMMA AppendedTyped ==
    ASSUME NEW content \in Seq(Part), NEW e, e.index \in Nat, e.part \in Part
    PROVE  AfterAppended(content, e) \in Seq(Part)
<1> DEFINE i == Clamp(e.index, Len(content)) + 1
           part == e.part
           left == SubSeq(content, 1, i - 1)
           right == SubSeq(content, i, Len(content))
<1>1. i \in 1 .. Len(content) + 1
  BY LenProperties DEF Clamp
<1> HIDE DEF i
<1>2. left \in Seq(Part) /\ right \in Seq(Part)
  BY <1>1, SubSeqProperties
<1>3. AfterAppended(content, e) = (left \o <<part>>) \o right
  BY AppendedSplit DEF i
<1>4. <<part>> \in Seq(Part)
  OBVIOUS
<1> HIDE DEF left, right, part
<1>5. left \o <<part>> \in Seq(Part)
  BY <1>2, <1>4, ConcatProperties
<1> QED  BY <1>2, <1>3, <1>5, ConcatProperties

LEMMA TokenKeepsPart ==
    ASSUME NEW p \in Part, HasText(p), NEW text \in Seq(Token)
    PROVE  Extended(p, text) \in Part
<1> DEFINE t == p.text \o text
           q == [p EXCEPT !.text = t]
<1>1. p.text \in Seq(Token)
  BY DEF HasText, Part, Dict
<1>2. t \in Seq(Token)
  BY <1>1, ConcatProperties
<1>3. t # None /\ t # Absent
  BY <1>2, MarkerAssumption
<1>4. Extended(p, text) = q
  BY DEF Extended
<1> HIDE DEF t
<1>5. q \in Dict /\ q.text = t
  BY <1>2 DEF Part, Dict
<1>6. Valid(q)
  <2>1. Valid(p) /\ p \in Dict
    BY DEF Part
  <2>2. q.type = p.type /\ q.id = p.id /\ q.has = p.has /\ q.status = p.status
    BY <2>1 DEF Dict
  <2>3. q.text # None
    BY <1>3, <1>5
  <2> HIDE DEF q
  <2> QED  BY <2>1, <2>2, <2>3 DEF Valid
<1>7. Validated(q) = q
  <2>1. Validated(p) = p /\ p \in Dict
    BY DEF Part
  <2>2. q = [type |-> p.type, id |-> p.id, has |-> p.has, text |-> t,
             status |-> p.status, meta |-> p.meta]
    BY <2>1 DEF Dict
  <2>3. /\ Pick(p.status, DefaultStatus(p.type)) = p.status
        /\ Pick(p.meta, DefaultMeta(p.type)) = p.meta
    BY <2>1 DEF Validated, Dict
  <2> QED  BY <1>3, <2>2, <2>3 DEF Validated, Pick
<1> QED  BY <1>4, <1>5, <1>6, <1>7 DEF Part

LEMMA DeltaTyped ==
    ASSUME NEW content \in Seq(Part), NEW e, e.index \in Nat, e.text \in Seq(Token)
    PROVE  AfterDelta(content, e) \in Seq(Part)
<1>1. CASE InRange(content, e.index) /\ HasText(content[e.index + 1])
  <2> DEFINE i == e.index + 1
  <2>1. i \in 1 .. Len(content) /\ content[i] \in Part
    BY <1>1, ElementOfSeq, LenProperties DEF InRange
  <2>2. Extended(content[i], e.text) \in Part
    BY <1>1, <2>1, TokenKeepsPart
  <2> QED  BY <1>1, <2>1, <2>2, ExceptSeq DEF AfterDelta
<1>2. CASE ~(InRange(content, e.index) /\ HasText(content[e.index + 1]))
  BY <1>2 DEF AfterDelta
<1> QED  BY <1>1, <1>2

LEMMA UpdatedTyped ==
    ASSUME NEW content \in Seq(Part), NEW e, e.index \in Nat, e.patch \in Dict,
           InRange(content, e.index) => Valid(Merge(content[e.index + 1], e.patch))
    PROVE  AfterUpdated(content, e) \in Seq(Part)
<1>1. CASE InRange(content, e.index)
  <2> DEFINE i == e.index + 1
  <2>1. i \in 1 .. Len(content) /\ content[i] \in Part
    BY <1>1, ElementOfSeq, LenProperties DEF InRange
  <2>2. Validated(Merge(content[i], e.patch)) \in Part
    BY <1>1, <2>1, MergeIsDict, ValidatedIsPart DEF Part
  <2> QED  BY <1>1, <2>1, <2>2, ExceptSeq DEF AfterUpdated
<1>2. CASE ~InRange(content, e.index)
  BY <1>2 DEF AfterUpdated
<1> QED  BY <1>1, <1>2

\* "Clients that don't want to special-case deltas may reconstruct via successive
\* ``part_updated`` events on ``text`` instead" (events.py:52-54): for a part that can
\* grow, the update that carries the grown text is accepted, and does what the delta does.
THEOREM DeltaIsUpdate ==
    ASSUME NEW content \in Seq(Part), NEW id, NEW i \in Nat, NEW text \in Seq(Token),
           InRange(content, i), HasText(content[i + 1])
    PROVE  LET patch == [NoPatch EXCEPT !.text = content[i + 1].text \o text]
           IN  /\ Valid(Merge(content[i + 1], patch))
               /\ AfterUpdated(content, Updated(id, i, patch)) = AfterDelta(content, Delta(id, i, text))
<1> DEFINE p == content[i + 1]
           grown == p.text \o text
           patch == [NoPatch EXCEPT !.text = grown]
<1>1. i + 1 \in 1 .. Len(content) /\ p \in Part
  BY ElementOfSeq, LenProperties DEF InRange
<1>2. Extended(p, text) \in Part
  BY <1>1, TokenKeepsPart
<1>3. grown # Absent
  <2>1. p.text \in Seq(Token)
    BY <1>1 DEF HasText, Part, Dict
  <2>2. grown \in Seq(Token)
    BY <2>1, ConcatProperties
  <2> QED  BY <2>2, MarkerAssumption
<1>4. Merge(p, patch) = Extended(p, text)
  <2>1. p \in Dict
    BY <1>1 DEF Part
  <2>2. Extended(p, text) = [p EXCEPT !.text = grown]
    BY DEF Extended
  <2> HIDE DEF grown, p
  <2>3. Merge(p, patch) = [type |-> p.type, id |-> p.id, has |-> p.has, text |-> grown,
                           status |-> p.status, meta |-> p.meta]
    BY <1>3, <2>1 DEF Merge, Pick, NoPatch, Dict
  <2>4. Extended(p, text) = [type |-> p.type, id |-> p.id, has |-> p.has, text |-> grown,
                             status |-> p.status, meta |-> p.meta]
    BY <2>1, <2>2 DEF Dict
  <2> QED  BY <2>3, <2>4
<1>5. Valid(Merge(p, patch)) /\ Validated(Merge(p, patch)) = Extended(p, text)
  BY <1>2, <1>4 DEF Part
<1>6. AfterUpdated(content, Updated(id, i, patch))
        = [content EXCEPT ![i + 1] = Validated(Merge(p, patch))]
  BY DEF AfterUpdated, Updated
<1>7. AfterDelta(content, Delta(id, i, text)) = [content EXCEPT ![i + 1] = Extended(p, text)]
  BY DEF AfterDelta, Delta
<1> QED  BY <1>5, <1>6, <1>7

----------------------------------------------------------------------------
(* The builder.                                                              *)

LEMMA OverlayPartial ==
    ASSUME NEW D, NEW R, NEW f, IsPartial(f, D, R), NEW g, IsPartial(g, D, R)
    PROVE  IsPartial(Overlay(f, g), D, R)
  BY DEF IsPartial, Overlay

LEMMA BucketPartial ==
    ASSUME NEW b
    PROVE  b \in Bucket <=> IsPartial(b, MetaKey, MetaVal)
  BY DEF Bucket, IsPartial

LEMMA MetaPartial ==
    ASSUME NEW meta
    PROVE  meta \in Meta <=> IsPartial(meta, Namespace, Bucket)
  BY DEF Meta, IsPartial

LEMMA EmptyTypes ==
    EmptyBucket \in Bucket /\ EmptyMeta \in Meta /\ IsMessageMap(NoMessages)
<1>1. IsPartial(EmptyBucket, MetaKey, MetaVal)
  BY DEF EmptyBucket, IsPartial
<1>2. IsPartial(EmptyMeta, Namespace, Bucket)
  BY DEF EmptyMeta, IsPartial
<1>3. IsPartial(NoMessages, MessageId, Message)
  BY DEF NoMessages, IsPartial
<1> QED  BY <1>1, <1>2, <1>3, BucketPartial, MetaPartial DEF IsMessageMap

LEMMA NewMessageTyped ==
    ASSUME NEW m \in MessageId, NEW meta \in Meta
    PROVE  NewMessage(m, meta) \in Message
  BY DEF NewMessage, Message

\* Every constructor of an event builds one.
LEMMA EventTypes ==
    ASSUME NEW m \in MessageId, NEW i \in Nat
    PROVE  /\ \A message \in Message :
                Started(message) \in Event /\ Finalized(m, message) \in Event
           /\ \A part \in Part : Appended(m, i, part) \in Event
           /\ \A text \in Seq(Token) : Delta(m, i, text) \in Event
           /\ \A patch \in Dict : Updated(m, i, patch) \in Event
  BY DEF Event, Started, Finalized, Appended, Delta, Updated

LEMMA TrackedPartTyped ==
    ASSUME NEW kind \in Tracked, NEW id \in PartId, NEW meta \in Bucket \cup {None}
    PROVE  TrackedPart(kind, id, meta) \in Part
<1> DEFINE d == [type |-> kind, id |-> id, has |-> Required[kind], text |-> Absent,
                 status |-> Absent, meta |-> meta]
<1>1. kind \in PartType /\ Required[kind] \in SUBSET FieldName
  BY DEF Tracked, PartType, Required, FieldName
<1>2. d \in Dict
  BY <1>1 DEF Dict
<1>3. Valid(d)
  BY <1>1, MarkerAssumption DEF Valid
<1> QED  BY <1>2, <1>3, ValidatedIsPart DEF TrackedPart

LEMMA StatusPatchTyped ==
    ASSUME NEW part \in Part, NEW status \in StatusInputs,
           NEW metaPatch \in PartMeta \cup {Absent}
    PROVE  StatusPatch(part, status, metaPatch) \in Dict
<1>1. status \in Status \cup {"bogus", None, Absent}
  BY BuilderAssumption
<1>2. metaPatch # Absent => Overlay(OrEmpty(part.meta), metaPatch) \in Bucket
  BY BuilderAssumption, EmptyTypes, OverlayPartial, BucketPartial DEF OrEmpty
<1> DEFINE meta == IF metaPatch = Absent THEN Absent
                   ELSE Overlay(OrEmpty(part.meta), metaPatch)
<1>3. meta \in Bucket \cup {None, Absent}
  BY <1>2
<1>4. StatusPatch(part, status, metaPatch) =
         [NoPatch EXCEPT !.status = status, !.meta = meta]
  BY DEF StatusPatch
<1> HIDE DEF meta
<1>5. NoPatch \in Dict
  BY DEF NoPatch, Dict
<1> QED  BY <1>1, <1>3, <1>4, <1>5 DEF Dict

----------------------------------------------------------------------------
\* What an edit needs to preserve the types of everything but the index.
LEMMA EditTyped ==
    ASSUME BuilderTypeOK, NEW m \in MessageId, Open(m), NEW outcome,
           NEW content \in Seq(Part), NEW e \in Event, Edit(m, content, e, outcome)
    PROVE  /\ msg' \in [MessageId -> Message \cup {None}]
           /\ finalized' \in [MessageId -> BOOLEAN]
           /\ returned' \in [MessageId -> Message \cup {None}]
           /\ skewed' \subseteq MessageId
           /\ log' \in Seq(Event)
           /\ faults' \in Nat
<1>1. [msg[m] EXCEPT !.content = content] \in Message
  <2>1. msg[m] \in Message
    BY DEF BuilderTypeOK, Open
  <2> QED  BY <2>1 DEF Message
<1>2. msg' \in [MessageId -> Message \cup {None}]
  BY <1>1 DEF BuilderTypeOK, Edit
<1>3. log' \in Seq(Event) /\ faults' \in Nat
  BY AppendProperties DEF BuilderTypeOK, Edit, Emit
<1> QED  BY <1>2, <1>3 DEF BuilderTypeOK, Edit

LEMMA PushTyped ==
    ASSUME BuilderTypeOK, NEW m \in MessageId, Open(m), NEW part \in Part, NEW outcome,
           Push(m, part, outcome)
    PROVE  /\ msg' \in [MessageId -> Message \cup {None}]
           /\ finalized' \in [MessageId -> BOOLEAN]
           /\ returned' \in [MessageId -> Message \cup {None}]
           /\ skewed' \subseteq MessageId
           /\ log' \in Seq(Event)
           /\ faults' \in Nat
           /\ Len(msg[m].content) \in Nat
<1> DEFINE content == msg[m].content
<1>1. content \in Seq(Part) /\ Len(content) \in Nat
  BY LenProperties DEF BuilderTypeOK, Open, Message
<1>2. Append(content, part) \in Seq(Part) /\ Appended(m, Len(content), part) \in Event
  BY <1>1, AppendProperties, EventTypes
<1> QED  BY <1>1, <1>2, EditTyped DEF Push

LEMMA StartTyped ==
    ASSUME BuilderTypeOK, NEW m \in MessageId, NEW meta \in Meta, NEW outcome,
           Start(m, meta, outcome)
    PROVE  BuilderTypeOK'
<1>1. NewMessage(m, meta) \in Message /\ Started(NewMessage(m, meta)) \in Event
  BY NewMessageTyped, EventTypes
<1>2. log' \in Seq(Event) /\ faults' \in Nat
  BY <1>1, AppendProperties DEF BuilderTypeOK, Start, Emit
<1> QED  BY <1>1, <1>2 DEF BuilderTypeOK, Start

LEMMA RestartTyped ==
    ASSUME BuilderTypeOK, NEW m \in MessageId, NEW meta \in Meta, Restart(m, meta)
    PROVE  BuilderTypeOK'
<1>1. NewMessage(m, meta) \in Message /\ Started(NewMessage(m, meta)) \in Event
  BY NewMessageTyped, EventTypes
<1>2. log' \in Seq(Event) /\ faults' \in Nat
  BY <1>1, AppendProperties DEF BuilderTypeOK, Restart
<1>3. index' = [n \in MessageId |-> [k \in Tracked |-> index'[n][k]]]
  BY DEF BuilderTypeOK, Restart, NoIndex
<1>4. \A n \in MessageId, k \in Tracked : IsPartial(index'[n][k], PartId, Nat)
  BY DEF BuilderTypeOK, Restart, NoIndex, IsPartial
<1> QED  BY <1>1, <1>2, <1>3, <1>4 DEF BuilderTypeOK, Restart

LEMMA AppendPartTyped ==
    ASSUME BuilderTypeOK, NEW m \in MessageId, NEW part \in PartInputs, NEW outcome,
           AppendPart(m, part, outcome)
    PROVE  BuilderTypeOK'
  BY PushTyped, BuilderAssumption DEF AppendPart, Editable, BuilderTypeOK

LEMMA AddTrackedTyped ==
    ASSUME BuilderTypeOK, NEW m \in MessageId, NEW kind \in Tracked, NEW id \in PartId,
           NEW meta \in PartMeta \cup {None}, NEW outcome,
           AddTracked(m, kind, id, meta, outcome)
    PROVE  BuilderTypeOK'
<1> DEFINE new == Overlay(index[m][kind], [i \in {id} |-> Len(msg[m].content)])
<1>1. TrackedPart(kind, id, meta) \in Part
  BY TrackedPartTyped, BuilderAssumption
<1>2. IsPartial([i \in {id} |-> Len(msg[m].content)], PartId, Nat)
  BY <1>1, PushTyped DEF AddTracked, Editable, IsPartial
<1>3. IsPartial(new, PartId, Nat)
  BY <1>2, OverlayPartial DEF BuilderTypeOK
<1>4. index' = index \/ index' = [index EXCEPT ![m][kind] = new]
  BY DEF AddTracked
<1> HIDE DEF new
<1>5. index' = [n \in MessageId |-> [k \in Tracked |-> index'[n][k]]]
  BY <1>4 DEF BuilderTypeOK
<1>6. \A n \in MessageId, k \in Tracked : IsPartial(index'[n][k], PartId, Nat)
  BY <1>3, <1>4 DEF BuilderTypeOK
<1> QED  BY <1>1, <1>5, <1>6, PushTyped DEF AddTracked, Editable, BuilderTypeOK

LEMMA AppendTokenTyped ==
    ASSUME BuilderTypeOK, NEW m \in MessageId, NEW i \in Nat, NEW text \in Seq(Token),
           NEW outcome, AppendToken(m, i, text, outcome)
    PROVE  BuilderTypeOK'
<1> DEFINE content == msg[m].content
           next == [content EXCEPT ![i + 1] = Extended(@, text)]
<1>1. content \in Seq(Part)
  BY DEF BuilderTypeOK, AppendToken, Editable, Open, Message
<1>2. i + 1 \in 1 .. Len(content) /\ content[i + 1] \in Part
  BY <1>1, ElementOfSeq, LenProperties DEF AppendToken, InRange
<1>3. next \in Seq(Part)
  BY <1>1, <1>2, TokenKeepsPart, ExceptSeq DEF AppendToken
<1>4. Delta(m, i, text) \in Event
  BY EventTypes
<1> QED  BY <1>3, <1>4, EditTyped DEF AppendToken, Editable, BuilderTypeOK

LEMMA PatchPartTyped ==
    ASSUME BuilderTypeOK, NEW m \in MessageId, NEW i \in Nat, NEW patch \in Dict,
           NEW outcome, PatchPart(m, i, patch, outcome)
    PROVE  BuilderTypeOK'
<1> DEFINE content == msg[m].content
           merged == Merge(content[i + 1], patch)
           next == [content EXCEPT ![i + 1] = Validated(merged)]
<1>1. content \in Seq(Part)
  BY DEF BuilderTypeOK, PatchPart, Editable, Open, Message
<1>2. i + 1 \in 1 .. Len(content) /\ content[i + 1] \in Part
  BY <1>1, ElementOfSeq, LenProperties DEF PatchPart, InRange
<1>3. Validated(merged) \in Part
  BY <1>2, MergeIsDict, ValidatedIsPart DEF PatchPart, Part
<1>4. next \in Seq(Part)
  BY <1>1, <1>2, <1>3, ExceptSeq
<1>5. Updated(m, i, patch) \in Event
  BY EventTypes
<1>6. Edit(m, next, Updated(m, i, patch), outcome) /\ Open(m) /\ UNCHANGED index
  BY DEF PatchPart, Editable
<1> HIDE DEF next
<1> QED  BY <1>4, <1>5, <1>6, EditTyped DEF BuilderTypeOK

LEMMA UpdateStatusTyped ==
    ASSUME BuilderTypeOK, NEW m \in MessageId, NEW kind \in Tracked, NEW id \in PartId,
           NEW status \in StatusInputs, NEW metaPatch \in PartMeta \cup {Absent},
           NEW outcome, UpdateStatus(m, kind, id, status, metaPatch, outcome)
    PROVE  BuilderTypeOK'
<1> DEFINE i == index[m][kind][id]
           patch == StatusPatch(msg[m].content[i + 1], status, metaPatch)
<1>1. i \in Nat
  BY DEF BuilderTypeOK, UpdateStatus, IsPartial
<1>2. PatchPart(m, i, patch, outcome)
  BY DEF UpdateStatus
<1>3. msg[m].content \in Seq(Part)
  BY DEF BuilderTypeOK, UpdateStatus, Open, Message
<1>4. msg[m].content[i + 1] \in Part
  <2>1. InRange(msg[m].content, i)
    BY <1>2 DEF PatchPart
  <2>2. i + 1 \in 1 .. Len(msg[m].content)
    BY <1>1, <1>3, <2>1, LenProperties DEF InRange
  <2> QED  BY <1>3, <2>2, ElementOfSeq
<1>5. patch \in Dict
  BY <1>4, StatusPatchTyped
<1> HIDE DEF i, patch
<1> QED  BY <1>1, <1>2, <1>5, PatchPartTyped

LEMMA SetMetaTakesPlace ==
    ASSUME BuilderTypeOK, NEW m \in MessageId, NEW namespace \in Namespace,
           NEW values \in MetaInputs, SetMeta(m, namespace, values)
    PROVE  /\ msg'[m] \in Message /\ msg'[m].content = msg[m].content
           /\ \A n \in MessageId \ {m} : msg'[n] = msg[n]
           /\ msg' \in [MessageId -> Message \cup {None}]
<1> DEFINE meta   == msg[m].meta
           bucket == IF namespace \in DOMAIN meta THEN meta[namespace] ELSE EmptyBucket
           merged == Overlay(bucket, values)
           single == [n \in {namespace} |-> merged]
           next   == Overlay(meta, single)
<1>1. msg[m] \in Message /\ meta \in Meta
  BY DEF BuilderTypeOK, SetMeta, Editable, Open, Message
<1>2. bucket \in Bucket
  BY <1>1, MetaPartial, EmptyTypes DEF IsPartial
<1>3. merged \in Bucket
  BY <1>2, OverlayPartial, BucketPartial, BuilderAssumption
<1>4. IsPartial(single, Namespace, Bucket)
  BY <1>3 DEF IsPartial
<1>5. next \in Meta
  BY <1>1, <1>4, OverlayPartial, MetaPartial
<1>6. msg' = [msg EXCEPT ![m].meta = next]
  BY DEF SetMeta
<1> HIDE DEF next
<1>7. [msg[m] EXCEPT !.meta = next] \in Message
  BY <1>1, <1>5 DEF Message
<1>8. [msg[m] EXCEPT !.meta = next].content = msg[m].content
  BY <1>1 DEF Message
<1> QED  BY <1>6, <1>7, <1>8 DEF BuilderTypeOK

LEMMA SetMetaTyped ==
    ASSUME BuilderTypeOK, NEW m \in MessageId, NEW namespace \in Namespace,
           NEW values \in MetaInputs, SetMeta(m, namespace, values)
    PROVE  BuilderTypeOK'
<1>1. msg' \in [MessageId -> Message \cup {None}]
  BY SetMetaTakesPlace
<1>2. UNCHANGED <<index, finalized, returned, skewed, log, faults>>
  BY DEF SetMeta
<1> QED  BY <1>1, <1>2 DEF BuilderTypeOK

LEMMA FinalizeTyped ==
    ASSUME BuilderTypeOK, NEW m \in MessageId, NEW outcome, Finalize(m, outcome)
    PROVE  BuilderTypeOK'
<1>1. msg[m] \in Message
  BY DEF BuilderTypeOK, Finalize, Open
<1>2. Finalized(m, msg[m]) \in Event
  BY <1>1, EventTypes
<1>3. log' \in Seq(Event) /\ faults' \in Nat
  BY <1>2, AppendProperties DEF BuilderTypeOK, Finalize, Emit
<1> QED  BY <1>1, <1>3 DEF BuilderTypeOK, Finalize

LEMMA FinalizeAgainTyped ==
    ASSUME BuilderTypeOK, NEW m \in MessageId, FinalizeAgain(m)
    PROVE  BuilderTypeOK'
  BY DEF BuilderTypeOK, FinalizeAgain, Open

LEMMA IndicesTyped ==
    ASSUME BuilderTypeOK, NEW m \in MessageId
    PROVE  Indices(m) \subseteq Nat
  BY LenProperties DEF BuilderTypeOK, Indices, Open, Message

----------------------------------------------------------------------------
LEMMA BuilderTypeInit == BuilderInit => BuilderTypeOK
  BY DEF BuilderInit, BuilderTypeOK, NoIndex, IsPartial

LEMMA BuilderTypeStep ==
    ASSUME BuilderTypeOK, [BuilderNext]_builderVars
    PROVE  BuilderTypeOK'
<1>1. CASE UNCHANGED builderVars
  BY <1>1 DEF BuilderTypeOK, builderVars
<1>2. ASSUME NEW m \in MessageId, Restart(m, EmptyMeta)  PROVE BuilderTypeOK'
  BY <1>2, RestartTyped, EmptyTypes
<1>3. ASSUME NEW m \in MessageId, FinalizeAgain(m)  PROVE BuilderTypeOK'
  BY <1>3, FinalizeAgainTyped
<1>4. ASSUME NEW m \in MessageId, NEW namespace \in Namespace, NEW values \in MetaInputs,
             SetMeta(m, namespace, values)
      PROVE  BuilderTypeOK'
  BY <1>4, SetMetaTyped
<1>5. ASSUME NEW m \in MessageId, NEW outcome \in Outcome, Start(m, EmptyMeta, outcome)
      PROVE  BuilderTypeOK'
  BY <1>5, StartTyped, EmptyTypes
<1>6. ASSUME NEW m \in MessageId, NEW outcome \in Outcome, Finalize(m, outcome)
      PROVE  BuilderTypeOK'
  BY <1>6, FinalizeTyped
<1>7. ASSUME NEW m \in MessageId, NEW outcome \in Outcome, NEW part \in PartInputs,
             AppendPart(m, part, outcome)
      PROVE  BuilderTypeOK'
  BY <1>7, AppendPartTyped
<1>8. ASSUME NEW m \in MessageId, NEW outcome \in Outcome, NEW kind \in Tracked,
             NEW id \in PartId, NEW meta \in PartMeta \cup {None},
             AddTracked(m, kind, id, meta, outcome)
      PROVE  BuilderTypeOK'
  BY <1>8, AddTrackedTyped
<1>9. ASSUME NEW m \in MessageId, NEW outcome \in Outcome, NEW i \in Indices(m),
             NEW t \in Token, AppendToken(m, i, <<t>>, outcome)
      PROVE  BuilderTypeOK'
  <2>1. <<t>> \in Seq(Token)
    OBVIOUS
  <2> QED  BY <1>9,   <2>1, IndicesTyped, AppendTokenTyped
<1>10. ASSUME NEW m \in MessageId, NEW outcome \in Outcome, NEW i \in Indices(m),
             NEW patch \in Patches, PatchPart(m, i, patch, outcome)
      PROVE  BuilderTypeOK'
  BY <1>10, IndicesTyped, PatchPartTyped, BuilderAssumption
<1>11. ASSUME NEW m \in MessageId, NEW outcome \in Outcome, NEW kind \in Tracked,
             NEW id \in PartId, NEW status \in StatusInputs,
             NEW metaPatch \in PartMeta \cup {Absent},
             UpdateStatus(m, kind, id, status, metaPatch, outcome)
      PROVE  BuilderTypeOK'
  BY <1>11, UpdateStatusTyped
<1> QED
  BY <1>1, <1>2, <1>3, <1>4, <1>5, <1>6, <1>7, <1>8, <1>9, <1>10, <1>11 DEF BuilderNext

\* Every part a builder holds, every message it returned and every event it
\* emitted is a valid one, and its index maps ids to content positions: for
\* any number of messages, any inputs, any fault.
THEOREM BuilderTypeCorrect == BuilderSpec => []BuilderTypeOK
<1>1. BuilderInit => BuilderTypeOK
  BY BuilderTypeInit
<1>2. BuilderTypeOK /\ [BuilderNext]_builderVars => BuilderTypeOK'
  BY BuilderTypeStep
<1> QED  BY <1>1, <1>2, PTL DEF BuilderSpec
----------------------------------------------------------------------------
(***************************************************************************)
(* The id index.  An id leads to its part whatever the sink does; that     *)
(* every tracked part is listed, so that no id is taken twice, needs a     *)
(* sink that does not raise between append_part and the index.             *)
(***************************************************************************)

\* An update neither moves parts, nor renames them, nor makes a tracked one of
\* another part.
Morphed(old, new) ==
    /\ DOMAIN new = DOMAIN old /\ Len(new) = Len(old)
    /\ \A i \in DOMAIN old :
          /\ new[i].id = old[i].id
          /\ new[i].type \in Tracked => new[i].type = old[i].type

LEMMA MorphedSound ==
    ASSUME NEW old, NEW new, Morphed(old, new), NEW ids
    PROVE  /\ LeadsTo(ids, old) /\ old \in Seq(Part)
              /\ (\A k \in Tracked : IsPartial(ids[k], PartId, Nat)) => LeadsTo(ids, new)
           /\ Lists(ids, old) => Lists(ids, new)
<1>1. ASSUME LeadsTo(ids, old), old \in Seq(Part), NEW kind \in Tracked,
             IsPartial(ids[kind], PartId, Nat), NEW id \in DOMAIN ids[kind]
      PROVE  InRange(new, ids[kind][id]) /\ new[ids[kind][id] + 1].id = id
  <2> DEFINE i == ids[kind][id]
  <2>1. i \in Nat /\ InRange(old, i) /\ old[i + 1].id = id
    BY <1>1 DEF LeadsTo, IsPartial
  <2>2. i + 1 \in DOMAIN old
    BY <1>1, <2>1, LenProperties DEF InRange
  <2> QED  BY <2>1, <2>2 DEF Morphed, InRange
<1>2. ASSUME Lists(ids, old), NEW i \in DOMAIN new, new[i].type \in Tracked
      PROVE  /\ new[i].id \in DOMAIN ids[new[i].type]
             /\ ids[new[i].type][new[i].id] = i - 1
  BY <1>2 DEF Morphed, Lists
<1> QED  BY <1>1, <1>2 DEF LeadsTo, Lists

\* An appended part is behind all that are indexed.
LEMMA AppendedSound ==
    ASSUME NEW content \in Seq(Part), NEW part \in Part, NEW ids,
           \A k \in Tracked : IsPartial(ids[k], PartId, Nat)
    PROVE  /\ LeadsTo(ids, content) => LeadsTo(ids, Append(content, part))
           /\ Lists(ids, content) /\ part.type \notin Tracked
              => Lists(ids, Append(content, part))
<1> DEFINE new == Append(content, part)
<1>1. /\ Len(content) \in Nat /\ DOMAIN content = 1 .. Len(content)
      /\ Len(new) = Len(content) + 1 /\ DOMAIN new = 1 .. Len(content) + 1
      /\ new[Len(content) + 1] = part
      /\ \A i \in 1 .. Len(content) : new[i] = content[i]
  BY LenProperties, AppendProperties
<1> HIDE DEF new
<1>2. ASSUME LeadsTo(ids, content), NEW kind \in Tracked, NEW id \in DOMAIN ids[kind]
      PROVE  InRange(new, ids[kind][id]) /\ new[ids[kind][id] + 1].id = id
  <2> DEFINE i == ids[kind][id]
  <2>1. i \in Nat /\ InRange(content, i) /\ content[i + 1].id = id
    BY <1>2 DEF LeadsTo, IsPartial
  <2> QED  BY <1>1, <2>1 DEF InRange
<1>3. ASSUME Lists(ids, content), part.type \notin Tracked, NEW i \in DOMAIN new,
             new[i].type \in Tracked
      PROVE  /\ new[i].id \in DOMAIN ids[new[i].type]
             /\ ids[new[i].type][new[i].id] = i - 1
  BY <1>1, <1>3 DEF Lists
<1> QED  BY <1>2, <1>3 DEF LeadsTo, Lists, new

\* The index learns of the part that was appended under a new id.
LEMMA IndexedSound ==
    ASSUME NEW content \in Seq(Part), NEW part \in Part, part.type \in Tracked,
           NEW ids, NEW next,
           \A k \in Tracked : IsPartial(ids[k], PartId, Nat),
           part.id \notin DOMAIN ids[part.type],
           next[part.type] = Overlay(ids[part.type], [i \in {part.id} |-> Len(content)]),
           \A k \in Tracked \ {part.type} : next[k] = ids[k]
    PROVE  /\ LeadsTo(ids, content) => LeadsTo(next, Append(content, part))
           /\ Lists(ids, content) => Lists(next, Append(content, part))
<1> DEFINE new == Append(content, part)
<1>1. /\ Len(content) \in Nat /\ DOMAIN content = 1 .. Len(content)
      /\ Len(new) = Len(content) + 1 /\ DOMAIN new = 1 .. Len(content) + 1
      /\ new[Len(content) + 1] = part
      /\ \A i \in 1 .. Len(content) : new[i] = content[i]
  BY LenProperties, AppendProperties
<1> HIDE DEF new
<1>2. /\ DOMAIN next[part.type] = DOMAIN ids[part.type] \cup {part.id}
      /\ next[part.type][part.id] = Len(content)
      /\ \A id \in DOMAIN ids[part.type] : next[part.type][id] = ids[part.type][id]
  BY DEF Overlay
<1>3. \A k \in Tracked : \A id \in DOMAIN ids[k] :
         id \in DOMAIN next[k] /\ next[k][id] = ids[k][id]
  BY <1>2
<1>4. \A k \in Tracked : \A id \in DOMAIN next[k] :
         id \in DOMAIN ids[k] \/ (k = part.type /\ id = part.id)
  BY <1>2
<1>5. ASSUME LeadsTo(ids, content), NEW kind \in Tracked, NEW id \in DOMAIN next[kind]
      PROVE  InRange(new, next[kind][id]) /\ new[next[kind][id] + 1].id = id
  <2>1. CASE id \in DOMAIN ids[kind]
    <3> DEFINE i == ids[kind][id]
    <3>1. i \in Nat /\ InRange(content, i) /\ content[i + 1].id = id /\ next[kind][id] = i
      BY <1>3, <1>5, <2>1 DEF LeadsTo, IsPartial
    <3> QED  BY <1>1, <3>1 DEF InRange
  <2>2. CASE kind = part.type /\ id = part.id
    BY <1>1, <1>2, <2>2 DEF InRange
  <2> QED  BY <1>4, <2>1, <2>2
<1>6. ASSUME Lists(ids, content), NEW i \in DOMAIN new, new[i].type \in Tracked
      PROVE  /\ new[i].id \in DOMAIN next[new[i].type]
             /\ next[new[i].type][new[i].id] = i - 1
  <2>1. CASE i \in DOMAIN content
    BY <1>1, <1>3, <1>6, <2>1 DEF Lists
  <2>2. CASE i = Len(content) + 1
    BY <1>1, <1>2, <2>2
  <2> QED  BY <1>1, <2>1, <2>2
<1> QED  BY <1>5, <1>6 DEF LeadsTo, Lists, new

LeadsAt(n) == IF Open(n) THEN LeadsTo(index[n], msg[n].content) ELSE index[n] = NoIndex
ListsAt(n) == Open(n) => Lists(index[n], msg[n].content)

\* Inductive together with the types, the second when the sink does not raise.
Leads == \A n \in MessageId : LeadsAt(n)
Listed == \A n \in MessageId : ListsAt(n)

\* A step touches one message at most.
LEMMA OthersSound ==
    ASSUME NEW m \in MessageId,
           \A n \in MessageId \ {m} : msg'[n] = msg[n] /\ index'[n] = index[n]
    PROVE  /\ Leads /\ LeadsAt(m)' => Leads'
           /\ Listed /\ ListsAt(m)' => Listed'
  BY DEF Leads, Listed, LeadsAt, ListsAt, Open

LEMMA EditTakesPlace ==
    ASSUME BuilderTypeOK, NEW m \in MessageId, Open(m), NEW content \in Seq(Part),
           NEW e, NEW outcome, Edit(m, content, e, outcome)
    PROVE  /\ Open(m)' /\ msg'[m].content = content
           /\ \A n \in MessageId \ {m} : msg'[n] = msg[n]
<1>1. msg[m] \in Message /\ msg' = [msg EXCEPT ![m].content = content]
  BY DEF BuilderTypeOK, Open, Edit
<1>2. msg'[m] = [msg[m] EXCEPT !.content = content]
  BY <1>1 DEF BuilderTypeOK
<1>3. msg'[m] \in Message /\ msg'[m].content = content
  BY <1>1, <1>2 DEF Message
<1>4. Open(m)'
  BY <1>3, NoneAssumption DEF Open
<1> QED  BY <1>1, <1>3, <1>4 DEF BuilderTypeOK

LEMMA FreshSound == LeadsTo(NoIndex, <<>>) /\ \A ids : Lists(ids, <<>>)
  BY DEF LeadsTo, Lists, NoIndex

LEMMA StartSound ==
    ASSUME BuilderTypeOK, Leads, NEW m \in MessageId, NEW meta, NEW outcome,
           Start(m, meta, outcome) \/ Restart(m, meta)
    PROVE  Leads' /\ (Listed => Listed')
<1>1. \A n \in MessageId \ {m} : msg'[n] = msg[n] /\ index'[n] = index[n]
  BY DEF Start, Restart, BuilderTypeOK
<1>2. \/ msg' = msg /\ index' = index
      \/ msg'[m].content = <<>> /\ index'[m] = NoIndex
  BY DEF Start, Restart, BuilderTypeOK, NewMessage, Leads, LeadsAt
<1>3. CASE msg' = msg /\ index' = index
  BY <1>1, <1>3, OthersSound DEF Leads, Listed, LeadsAt, ListsAt, Open
<1>4. CASE msg'[m].content = <<>> /\ index'[m] = NoIndex
  <2>1. LeadsAt(m)' /\ ListsAt(m)'
    BY <1>4, FreshSound DEF LeadsAt, ListsAt
  <2> QED  BY <1>1, <2>1, OthersSound
<1> QED  BY <1>2, <1>3, <1>4

\* The index of one builder, as the lemmas about sequences need it.
LEMMA ContentTyped ==
    ASSUME BuilderTypeOK, NEW m \in MessageId, Open(m)
    PROVE  /\ msg[m].content \in Seq(Part)
           /\ \A k \in Tracked : IsPartial(index[m][k], PartId, Nat)
  BY DEF BuilderTypeOK, Open, Message

LEMMA AppendPartSound ==
    ASSUME BuilderTypeOK, PlainInputs, Leads, NEW m \in MessageId,
           NEW part \in PartInputs, NEW outcome, AppendPart(m, part, outcome)
    PROVE  Leads' /\ (Listed => Listed')
<1> DEFINE content == msg[m].content
<1>1. Open(m) /\ part \in Part /\ part.type \notin Tracked
  BY BuilderAssumption DEF AppendPart, Editable, PlainInputs
<1>2. Append(content, part) \in Seq(Part)
  BY <1>1, ContentTyped, AppendProperties
<1>3. Edit(m, Append(content, part), Appended(m, Len(content), part), outcome) /\ index' = index
  BY DEF AppendPart, Push
<1>4. /\ Open(m)' /\ msg'[m].content = Append(content, part)
      /\ \A n \in MessageId \ {m} : msg'[n] = msg[n]
  BY <1>1, <1>2, <1>3, EditTakesPlace
<1>5. LeadsAt(m)' /\ (Listed => ListsAt(m)')
  BY <1>1, <1>3, <1>4, ContentTyped, AppendedSound DEF Leads, Listed, LeadsAt, ListsAt
<1> QED  BY <1>3, <1>4, <1>5, OthersSound

LEMMA AddTrackedSound ==
    ASSUME BuilderTypeOK, Leads, NEW m \in MessageId, NEW kind \in Tracked,
           NEW id \in PartId, NEW meta \in PartMeta \cup {None}, NEW outcome,
           AddTracked(m, kind, id, meta, outcome)
    PROVE  Leads' /\ (Listed /\ outcome = "handed" => Listed')
<1> DEFINE content == msg[m].content
           part == TrackedPart(kind, id, meta)
           new == Overlay(index[m][kind], [i \in {id} |-> Len(content)])
<1>1. part \in Part /\ part.type = kind /\ part.id = id
  BY TrackedPartTyped, BuilderAssumption DEF TrackedPart, Validated
<1>2. Open(m) /\ id \notin DOMAIN index[m][kind]
  BY DEF AddTracked, Editable
<1>3. /\ Edit(m, Append(content, part), Appended(m, Len(content), part), outcome)
      /\ index' = IF outcome = "handed" THEN [index EXCEPT ![m][kind] = new] ELSE index
  BY DEF AddTracked, Push
<1> HIDE DEF part, new
<1>4. Append(content, part) \in Seq(Part)
  BY <1>1, <1>2, ContentTyped, AppendProperties
<1>5. /\ Open(m)' /\ msg'[m].content = Append(content, part)
      /\ \A n \in MessageId \ {m} : msg'[n] = msg[n]
  BY <1>2, <1>3, <1>4, EditTakesPlace
<1>6. /\ index[m] = [k \in Tracked |-> index[m][k]]
      /\ \A n \in MessageId \ {m} : index'[n] = index[n]
  BY <1>3 DEF BuilderTypeOK
<1>7. CASE outcome = "handed"
  <2>1. index'[m] = [index[m] EXCEPT ![kind] = new]
    BY <1>3, <1>7 DEF BuilderTypeOK
  <2>2. index'[m][part.type] = new /\ \A k \in Tracked \ {part.type} : index'[m][k] = index[m][k]
    BY <1>1, <1>6, <2>1
  <2>3. new = Overlay(index[m][part.type], [i \in {part.id} |-> Len(content)])
    BY <1>1 DEF new
  <2>4. /\ LeadsTo(index[m], content) => LeadsTo(index'[m], Append(content, part))
        /\ Lists(index[m], content) => Lists(index'[m], Append(content, part))
    BY <1>1, <1>2, <2>2, <2>3, ContentTyped, IndexedSound
  <2>5. LeadsAt(m)' /\ (Listed => ListsAt(m)')
    BY <1>2, <1>5, <2>4 DEF Leads, Listed, LeadsAt, ListsAt
  <2> QED  BY <1>5, <1>6, <2>5, OthersSound
<1>8. CASE outcome # "handed"
  <2>1. index' = index
    BY <1>3, <1>8
  <2>2. LeadsAt(m)'
    BY <1>1, <1>2, <1>5, <2>1, ContentTyped, AppendedSound DEF Leads, LeadsAt
  <2> QED  BY <1>5, <1>8, <2>1, <2>2, OthersSound
<1> QED  BY <1>7, <1>8

\* What append_token and patch_part have in common.
LEMMA MorphStep ==
    ASSUME BuilderTypeOK, Leads, NEW m \in MessageId, Open(m), NEW i \in Nat,
           InRange(msg[m].content, i), NEW part \in Part, NEW e, NEW outcome,
           part.id = msg[m].content[i + 1].id,
           part.type \in Tracked => part.type = msg[m].content[i + 1].type,
           Edit(m, [msg[m].content EXCEPT ![i + 1] = part], e, outcome),
           UNCHANGED index
    PROVE  Leads' /\ (Listed => Listed')
<1> DEFINE content == msg[m].content
           next == [content EXCEPT ![i + 1] = part]
<1>1. content \in Seq(Part) /\ i + 1 \in 1 .. Len(content) /\ DOMAIN content = 1 .. Len(content)
  BY ContentTyped, LenProperties DEF InRange
<1>2. /\ next \in Seq(Part) /\ Len(next) = Len(content)
      /\ \A j \in 1 .. Len(content) : next[j] = IF j = i + 1 THEN part ELSE content[j]
  BY <1>1, ExceptSeq
<1> HIDE DEF next
<1>3. DOMAIN next = DOMAIN content
  BY <1>1, <1>2, LenProperties
<1>4. Morphed(content, next)
  BY <1>1, <1>2, <1>3 DEF Morphed
<1>5. /\ Open(m)' /\ msg'[m].content = next
      /\ \A n \in MessageId \ {m} : msg'[n] = msg[n]
  BY <1>2, EditTakesPlace DEF next
<1>6. LeadsAt(m)' /\ (Listed => ListsAt(m)')
  BY <1>1, <1>4, <1>5, ContentTyped, MorphedSound DEF Leads, Listed, LeadsAt, ListsAt
<1> QED  BY <1>5, <1>6, OthersSound

LEMMA AppendTokenSound ==
    ASSUME BuilderTypeOK, Leads, NEW m \in MessageId, NEW i \in Nat,
           NEW text \in Seq(Token), NEW outcome, AppendToken(m, i, text, outcome)
    PROVE  Leads' /\ (Listed => Listed')
<1> DEFINE old == msg[m].content[i + 1]
<1>1. Open(m) /\ InRange(msg[m].content, i) /\ HasText(old)
  BY DEF AppendToken, Editable
<1>2. i + 1 \in 1 .. Len(msg[m].content)
  BY <1>1, ContentTyped, LenProperties DEF InRange
<1>3. old \in Part
  BY <1>1, <1>2, ContentTyped, ElementOfSeq
<1>4. Extended(old, text) \in Part
  BY <1>1, <1>3, TokenKeepsPart
<1>5. Extended(old, text).id = old.id /\ Extended(old, text).type = old.type
  BY <1>3 DEF Extended, Part, Dict
<1>6. /\ Edit(m, [msg[m].content EXCEPT ![i + 1] = Extended(old, text)], Delta(m, i, text), outcome)
      /\ UNCHANGED index
  BY DEF AppendToken
<1> HIDE DEF old
<1> QED  BY <1>1, <1>4, <1>5, <1>6, MorphStep DEF old

LEMMA PatchPartSound ==
    ASSUME BuilderTypeOK, Leads, NEW m \in MessageId, NEW i \in Nat, NEW patch \in Dict,
           patch.id = Absent, patch.type \notin Tracked,
           NEW outcome, PatchPart(m, i, patch, outcome)
    PROVE  Leads' /\ (Listed => Listed')
<1> DEFINE old == msg[m].content[i + 1]
           part == Validated(Merge(old, patch))
<1>1. Open(m) /\ InRange(msg[m].content, i) /\ Valid(Merge(old, patch))
  BY DEF PatchPart, Editable
<1>2. i + 1 \in 1 .. Len(msg[m].content)
  BY <1>1, ContentTyped, LenProperties DEF InRange
<1>3. old \in Part
  BY <1>1, <1>2, ContentTyped, ElementOfSeq
<1>4. part \in Part
  BY <1>1, <1>3, MergeIsDict, ValidatedIsPart DEF Part
<1>5. part.id = old.id /\ (part.type \in Tracked => part.type = old.type)
  BY DEF Validated, Merge, Pick
<1>6. /\ Edit(m, [msg[m].content EXCEPT ![i + 1] = part], Updated(m, i, patch), outcome)
      /\ UNCHANGED index
  BY DEF PatchPart
<1> HIDE DEF old, part
<1> QED  BY <1>1, <1>4, <1>5, <1>6, MorphStep DEF old

\* update_tool_status() and update_subagent_status() are patches of a part.
LEMMA StatusIsPatch ==
    ASSUME BuilderTypeOK, NEW m \in MessageId, NEW kind \in Tracked, NEW id \in PartId,
           NEW status \in StatusInputs, NEW metaPatch \in PartMeta \cup {Absent},
           NEW outcome, UpdateStatus(m, kind, id, status, metaPatch, outcome)
    PROVE  LET i == index[m][kind][id]
               old == msg[m].content[i + 1]
           IN  /\ id \in DOMAIN index[m][kind] /\ i \in Nat /\ Open(m)
               /\ i + 1 \in DOMAIN msg[m].content /\ old \in Part
               /\ StatusPatch(old, status, metaPatch) \in Dict
               /\ PatchPart(m, i, StatusPatch(old, status, metaPatch), outcome)
<1> DEFINE i == index[m][kind][id]
           old == msg[m].content[i + 1]
<1>1. Open(m) /\ id \in DOMAIN index[m][kind] /\ PatchPart(m, i, StatusPatch(old, status, metaPatch), outcome)
  BY DEF UpdateStatus
<1>2. i \in Nat /\ InRange(msg[m].content, i)
  BY <1>1 DEF BuilderTypeOK, IsPartial, PatchPart
<1>3. i + 1 \in DOMAIN msg[m].content /\ i + 1 \in 1 .. Len(msg[m].content)
  BY <1>1, <1>2, ContentTyped, LenProperties DEF InRange
<1>4. old \in Part
  BY <1>1, <1>3, ContentTyped, ElementOfSeq
<1> QED  BY <1>1, <1>2, <1>3, <1>4, StatusPatchTyped

LEMMA SetMetaSound ==
    ASSUME BuilderTypeOK, Leads, NEW m \in MessageId, NEW namespace \in Namespace,
           NEW values \in MetaInputs, SetMeta(m, namespace, values)
    PROVE  Leads' /\ (Listed => Listed')
<1>1. Open(m) /\ index' = index
  BY DEF SetMeta, Editable
<1>2. /\ Open(m)' /\ msg'[m].content = msg[m].content
      /\ \A n \in MessageId \ {m} : msg'[n] = msg[n]
  BY SetMetaTakesPlace, NoneAssumption DEF Open
<1>3. LeadsAt(m)' /\ (Listed => ListsAt(m)')
  BY <1>1, <1>2 DEF Leads, Listed, LeadsAt, ListsAt
<1> QED  BY <1>1, <1>2, <1>3, OthersSound

LEMMA BuilderIndexInit == BuilderInit => Leads /\ Listed
  BY DEF BuilderInit, Leads, Listed, LeadsAt, ListsAt, Open, NoIndex

LEMMA BuilderIndexStep ==
    ASSUME PlainInputs, BuilderTypeOK, Leads, [BuilderNext]_builderVars
    PROVE  Leads' /\ ("sink" \notin Faults /\ Listed => Listed')
<1> DEFINE Goal == Leads' /\ ("sink" \notin Faults /\ Listed => Listed')
<1>1. CASE UNCHANGED builderVars
  BY <1>1 DEF builderVars, Leads, Listed, LeadsAt, ListsAt, Open
<1>2. ASSUME NEW m \in MessageId, Restart(m, EmptyMeta)  PROVE Goal
  BY <1>2, StartSound
<1>3. ASSUME NEW m \in MessageId, FinalizeAgain(m)  PROVE Goal
  BY <1>3 DEF FinalizeAgain, Leads, Listed, LeadsAt, ListsAt, Open
<1>4. ASSUME NEW m \in MessageId, NEW namespace \in Namespace, NEW values \in MetaInputs,
             SetMeta(m, namespace, values)
      PROVE  Goal
  BY <1>4, SetMetaSound
<1>5. ASSUME NEW m \in MessageId, NEW outcome \in Outcome, Start(m, EmptyMeta, outcome)
      PROVE  Goal
  BY <1>5, StartSound
<1>6. ASSUME NEW m \in MessageId, NEW outcome \in Outcome, Finalize(m, outcome)
      PROVE  Goal
  BY <1>6 DEF Finalize, Leads, Listed, LeadsAt, ListsAt, Open
<1>7. ASSUME NEW m \in MessageId, NEW outcome \in Outcome, NEW part \in PartInputs,
             AppendPart(m, part, outcome)
      PROVE  Goal
  BY <1>7, AppendPartSound
<1>8. ASSUME NEW m \in MessageId, NEW outcome \in Outcome, NEW kind \in Tracked,
             NEW id \in PartId, NEW meta \in PartMeta \cup {None},
             AddTracked(m, kind, id, meta, outcome)
      PROVE  Goal
  <2>1. "sink" \notin Faults => outcome = "handed"
    BY <1>8 DEF AddTracked, Push, Edit, Emit, FaultAllowed
  <2> QED  BY <1>8, <2>1, AddTrackedSound
<1>9. ASSUME NEW m \in MessageId, NEW outcome \in Outcome, NEW i \in Indices(m),
             NEW t \in Token, AppendToken(m, i, <<t>>, outcome)
      PROVE  Goal
  <2>1. <<t>> \in Seq(Token)
    OBVIOUS
  <2> QED  BY <1>9, <2>1, IndicesTyped, AppendTokenSound
<1>10. ASSUME NEW m \in MessageId, NEW outcome \in Outcome, NEW i \in Indices(m),
             NEW patch \in Patches, PatchPart(m, i, patch, outcome)
      PROVE  Goal
  BY <1>10, IndicesTyped, PatchPartSound, BuilderAssumption DEF PlainInputs
<1>11. ASSUME NEW m \in MessageId, NEW outcome \in Outcome, NEW kind \in Tracked,
             NEW id \in PartId, NEW status \in StatusInputs,
             NEW metaPatch \in PartMeta \cup {Absent},
             UpdateStatus(m, kind, id, status, metaPatch, outcome)
      PROVE  Goal
  <2> DEFINE i == index[m][kind][id]
             patch == StatusPatch(msg[m].content[i + 1], status, metaPatch)
  <2>1. i \in Nat /\ patch \in Dict /\ PatchPart(m, i, patch, outcome)
    BY <1>11, StatusIsPatch
  <2>2. patch.id = Absent /\ patch.type = Absent
    BY DEF StatusPatch, NoPatch
  <2>3. patch.type \notin Tracked
    BY <2>2, MarkerAssumption DEF Tracked, PartType
  <2> HIDE DEF i, patch
  <2> QED  BY <2>1, <2>2, <2>3, PatchPartSound
<1> QED
  BY <1>1, <1>2, <1>3, <1>4, <1>5, <1>6, <1>7, <1>8, <1>9, <1>10, <1>11 DEF BuilderNext

LEMMA IndexIsSound == Leads /\ Listed => IndexSound
  BY DEF Leads, Listed, LeadsAt, ListsAt, IndexSound

\* With a sink that does not raise, the id dictionaries of every builder are
\* exactly the tracked parts of its content, for any number of messages, edits
\* and restarts (streaming.py:188-199, 319-332).
THEOREM IndexStaysSound ==
    ASSUME PlainInputs, "sink" \notin Faults
    PROVE  BuilderSpec => []IndexSound
<1>1. BuilderInit => BuilderTypeOK /\ Leads /\ Listed
  BY BuilderTypeInit, BuilderIndexInit
<1>2. BuilderTypeOK /\ Leads /\ Listed /\ [BuilderNext]_builderVars
      => (BuilderTypeOK /\ Leads /\ Listed)'
  BY BuilderTypeStep, BuilderIndexStep
<1> QED  BY <1>1, <1>2, IndexIsSound, PTL DEF BuilderSpec

LEMMA IndexMakesUnique == BuilderTypeOK /\ IndexSound => NoDuplicateIds
<1> SUFFICES ASSUME BuilderTypeOK, IndexSound, NEW m \in MessageId, Open(m),
                    NEW i \in DOMAIN msg[m].content, NEW j \in DOMAIN msg[m].content,
                    msg[m].content[i].type \in Tracked,
                    msg[m].content[i].type = msg[m].content[j].type,
                    msg[m].content[i].id = msg[m].content[j].id
             PROVE  i = j
  BY DEF NoDuplicateIds
<1>1. i \in Int /\ j \in Int
  BY ContentTyped, LenProperties
<1>2. i - 1 = j - 1
  BY DEF IndexSound, Lists
<1> QED  BY <1>1, <1>2

\* ... and so no message carries two tool calls, or two subagents, under one
\* id (test_streaming.py:86-90).
THEOREM IdsStayUnique ==
    ASSUME PlainInputs, "sink" \notin Faults
    PROVE  BuilderSpec => []NoDuplicateIds
  BY IndexStaysSound, BuilderTypeCorrect, IndexMakesUnique, PTL

LEMMA StatusArrives ==
    ASSUME BuilderTypeOK, Leads, NEW m \in MessageId, NEW kind \in Tracked,
           NEW id \in PartId, NEW status \in StatusInputs,
           NEW metaPatch \in PartMeta \cup {Absent}, NEW outcome,
           UpdateStatus(m, kind, id, status, metaPatch, outcome)
    PROVE  StatusLands(m, id, status)
<1> DEFINE i == index[m][kind][id] + 1
           content == msg[m].content
           old == content[i]
           patch == StatusPatch(old, status, metaPatch)
           merged == Merge(old, patch)
           new == Validated(merged)
           next == [content EXCEPT ![i] = new]
<1>1. /\ id \in DOMAIN index[m][kind] /\ Open(m)
      /\ i \in DOMAIN content /\ old \in Part /\ patch \in Dict
      /\ PatchPart(m, index[m][kind][id], patch, outcome)
  BY StatusIsPatch
<1> HIDE DEF patch, next
<1>2. /\ Valid(merged)
      /\ Edit(m, next, Updated(m, index[m][kind][id], patch), outcome)
  BY <1>1 DEF PatchPart, next
<1>3. content \in Seq(Part)
  BY <1>1, ContentTyped
<1>4. old.id = id
  BY <1>1 DEF Leads, LeadsAt, LeadsTo
<1>5. /\ patch.type = Absent /\ patch.id = Absent /\ patch.status = status
      /\ patch.meta = IF metaPatch = Absent THEN Absent
                      ELSE Overlay(OrEmpty(old.meta), metaPatch)
  BY DEF patch, StatusPatch, NoPatch
<1> HIDE DEF i, content, old, merged, new
<1>6. new \in Part
  <2>1. merged \in Dict
    BY <1>1, MergeIsDict DEF merged, Part
  <2> QED  BY <1>2, <2>1, ValidatedIsPart DEF new
<1>7. /\ next \in Seq(Part)
      /\ \A j \in DOMAIN content : next[j] = IF j = i THEN new ELSE content[j]
  <2>1. i \in 1 .. Len(content)
    BY <1>1, <1>3, LenProperties
  <2> QED  BY <1>3, <1>6, <2>1, ExceptSeq, LenProperties DEF next
<1>8. msg'[m].content = next
  BY <1>1, <1>2, <1>7, EditTakesPlace
<1>9. status # Absent
  BY BuilderAssumption, MarkerAssumption
<1>10. merged.type = old.type /\ new.id = id /\ new.status = status
  BY <1>4, <1>5, <1>9 DEF merged, new, Merge, Validated, Pick
<1>11. DOMAIN OrEmpty(old.meta) \subseteq DOMAIN OrEmpty(new.meta)
  <2>1. CASE patch.meta = Absent
    <3>1. Validated(old).meta = old.meta
      BY <1>1 DEF Part
    <3>2. merged.meta = old.meta
      BY <2>1 DEF merged, Merge, Pick
    <3>3. Validated(merged).meta = Validated(old).meta
      BY <1>10, <3>2 DEF Validated
    <3> QED  BY <3>1, <3>3 DEF new
  <2>2. CASE patch.meta # Absent
    <3>1. new.meta = Overlay(OrEmpty(old.meta), metaPatch)
      BY <1>5, <2>2 DEF new, merged, Merge, Validated, Pick
    <3>2. metaPatch \in Bucket
      BY <1>5, <2>2, BuilderAssumption
    <3>3. OrEmpty(old.meta) \in Bucket
      BY EmptyTypes DEF OrEmpty
    <3>4. Overlay(OrEmpty(old.meta), metaPatch) \in Bucket
      BY <3>2, <3>3, OverlayPartial, BucketPartial
    <3>5. OrEmpty(new.meta) = Overlay(OrEmpty(old.meta), metaPatch)
      BY <3>1, <3>4 DEF OrEmpty
    <3> QED  BY <3>5 DEF Overlay
  <2> QED  BY <2>1, <2>2
<1>12. /\ next[i] = new
       /\ \A j \in DOMAIN content \ {i} : next[j] = content[j]
  BY <1>1, <1>7
<1> QED  BY <1>1, <1>4, <1>8, <1>10, <1>11, <1>12 DEF old, content, StatusLands

\* A status update reaches the part with its id, changes no other and drops no
\* meta key, for any number of messages and edits, and even after a sink raised
\* or callers edited a finalized message (streaming.py:217-221).
THEOREM StatusUpdatesReach ==
    ASSUME PlainInputs
    PROVE  BuilderSpec => StatusReachesItsPart
<1>1. BuilderInit => BuilderTypeOK /\ Leads
  BY BuilderTypeInit, BuilderIndexInit
<1>2. BuilderTypeOK /\ Leads /\ [BuilderNext]_builderVars => (BuilderTypeOK /\ Leads)'
  BY BuilderTypeStep, BuilderIndexStep
<1> DEFINE Reaches ==
        \A m \in MessageId, kind \in Tracked, id \in PartId, status \in StatusInputs,
           metaPatch \in PartMeta \cup {Absent}, outcome \in Outcome :
         UpdateStatus(m, kind, id, status, metaPatch, outcome) => StatusLands(m, id, status)
<1>3. BuilderTypeOK /\ Leads => [Reaches]_builderVars
  BY StatusArrives
<1> QED  BY <1>1, <1>2, <1>3, PTL DEF BuilderSpec, StatusReachesItsPart

==============================================================================
