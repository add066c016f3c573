---------------------------- MODULE PortsProofs ----------------------------
(***************************************************************************)
(* The three reducers agree: on whatever the transport makes of the        *)
(* streams of any number of messages, of any length, as long as only text  *)
(* and reasoning parts have a text and every patch is one any part takes.  *)
(*                                                                         *)
(* A raw part differs from the validated one in a text that a patch to     *)
(* text or reasoning left missing, and in nothing else.                    *)
(***************************************************************************)
EXTENDS ReducerPorts, MessageBuilderProofs

PlainMessage == [id : MessageId, meta : Meta, content : Seq(PlainPart)]

PlainEvent ==
    [event : {"message_started"}, message : PlainMessage]
    \cup [event : {"part_appended"}, message_id : MessageId, index : Nat, part : PlainPart]
    \cup [event : {"token_delta"}, message_id : MessageId, index : Nat, text : Seq(Token)]
    \cup [event : {"part_updated"}, message_id : MessageId, index : Nat, patch : PlainPatch]
    \cup {e \in [event : {"message_finalized"}, message_id : MessageId, message : PlainMessage] :
            e.message.id = e.message_id}

\* The sender has such messages in hand and emits nothing but such events.
HandPlain == \A m \in MessageId : Open(m) => msg[m] \in PlainMessage /\ msg[m].id = m
SenderPlain == BuilderTypeOK /\ HandPlain /\ log \in Seq(PlainEvent)

\* A raw part and the part it stands for.
Raw(raw, part) ==
    \/ raw = part
    \/ /\ part.type \in Textual /\ part.text = <<>>
       /\ raw = [part EXCEPT !.text = Absent]

RawContent(raw, content) ==
    /\ raw \in Seq(Dict) /\ content \in Seq(PlainPart) /\ Len(raw) = Len(content)
    /\ \A i \in 1 .. Len(content) : Raw(raw[i], content[i])

RawMessage(raw, message) ==
    /\ message \in PlainMessage
    /\ raw.id = message.id /\ raw.meta = message.meta
    /\ RawContent(raw.content, message.content)
    /\ raw = [id |-> raw.id, meta |-> raw.meta, content |-> raw.content]

\* What the receiver of another language has, and what the one of python has.
RawMap(raw, state) ==
    /\ DOMAIN raw = DOMAIN state
    /\ \A m \in DOMAIN state : state[m].id = m /\ RawMessage(raw[m], state[m])

PortsInv ==
    /\ SenderPlain
    /\ at \in 0 .. Len(log)
    /\ \A l \in Language : RawMap(port[l], port["python"])

----------------------------------------------------------------------------
\* Parts and patches.

LEMMA PlainPartFacts ==
    ASSUME NEW p \in PlainPart
    PROVE  /\ p \in Part /\ p \in Dict /\ Valid(p) /\ Validated(p) = p
           /\ p.type \in PartType /\ p.type # "feedback"
           /\ p.type \in Textual => p.text \in Seq(Token)
           /\ p.type \notin Textual => p.text = Absent
           /\ HasText(p) <=> p.type \in Textual
           /\ p.status = Absent \/ p.meta = Absent => p.type \notin Tracked
<1>1. /\ p \in Part /\ p \in Dict /\ Valid(p) /\ Validated(p) = p
      /\ p.text # Absent => p.type \in Textual
  BY DEF PlainPart, Part
<1>2. p.type \in PartType
  BY <1>1 DEF Valid
<1>3. /\ p.text = Pick(p.text, DefaultText(p.type))
      /\ p.status = Pick(p.status, DefaultStatus(p.type))
      /\ p.meta = Pick(p.meta, DefaultMeta(p.type))
  BY <1>1 DEF Validated
<1>4. <<>> \in Seq(Token) /\ <<>> # Absent /\ None # Absent /\ "pending" # Absent
  <2>1. <<>> \in Seq(Token)
    OBVIOUS
  <2>2. "pending" \in Status
    BY DEF Status
  <2> QED  BY <2>1, <2>2, MarkerAssumption
<1>5. p.type # "feedback"
  BY <1>1, <1>3, <1>4 DEF Pick, DefaultText, Textual
<1>6. p.type \in Textual => p.text \in Seq(Token)
  <2>1. p.type \in Textual => p.text # None /\ p.text # Absent
    BY <1>1, <1>3, <1>4 DEF Valid, Pick, DefaultText
  <2> QED  BY <1>1, <2>1 DEF Dict
<1>7. HasText(p) <=> p.type \in Textual
  BY <1>1, <1>6, MarkerAssumption DEF HasText
<1>8. p.status = Absent \/ p.meta = Absent => p.type \notin Tracked
  BY <1>3, <1>4 DEF Pick, DefaultStatus, DefaultMeta
<1> QED  BY <1>1, <1>2, <1>5, <1>6, <1>7, <1>8

\* Any such part takes any such patch.
LEMMA PlainTakes ==
    ASSUME NEW p \in PlainPart, NEW q \in PlainPatch
    PROVE  /\ Valid(Merge(p, q)) /\ Validated(Merge(p, q)) \in PlainPart
           /\ Merge(p, q).type \in PartType /\ Merge(p, q) \in Dict
           /\ Raw(Merge(p, q), Validated(Merge(p, q)))
<1> DEFINE d == Merge(p, q)
           v == Validated(d)
<1>1. /\ p \in Dict /\ Valid(p) /\ p.type \in PartType /\ p.type # "feedback"
      /\ p.type \in Textual => p.text \in Seq(Token)
      /\ p.type \notin Textual => p.text = Absent
      /\ p.status = Absent \/ p.meta = Absent => p.type \notin Tracked
  BY PlainPartFacts
<1>2. /\ q \in Dict /\ q.type \in Textual \cup {Absent}
      /\ q.text # None /\ (q.text # Absent => q.type \in Textual)
      /\ q.id # None /\ q.status \in Status \cup {Absent}
  BY DEF PlainPatch
<1>3. d \in Dict
  BY <1>1, <1>2, MergeIsDict
<1>4. /\ d.type = Pick(q.type, p.type) /\ d.id = Pick(q.id, p.id)
      /\ d.has = p.has \cup q.has /\ d.text = Pick(q.text, p.text)
      /\ d.status = Pick(q.status, p.status) /\ d.meta = Pick(q.meta, p.meta)
  BY DEF Merge
<1> HIDE DEF d
<1>5. d.type \in Textual \/ (d.type = p.type /\ q.type = Absent)
  BY <1>2, <1>4 DEF Pick
<1>6. d.type \in PartType /\ d.type # "feedback"
  BY <1>1, <1>5 DEF Textual, PartType
<1>7. d.type \in Textual => d.text \in Seq(Token) \cup {Absent}
  BY <1>1, <1>2, <1>4 DEF Pick, Dict
<1>8. d.type \notin Textual => d.text = Absent
  <2>1. Absent \notin Textual
    BY MarkerAssumption DEF Textual, PartType
  <2> QED  BY <1>1, <1>2, <1>4, <1>5, <2>1 DEF Pick
<1>9. Required[d.type] \subseteq d.has
  <2>1. CASE d.type \in Textual
    BY <2>1 DEF Required, Textual, PartType
  <2>2. CASE d.type = p.type
    BY <1>1, <1>4, <2>2 DEF Valid
  <2> QED  BY <1>5, <2>1, <2>2
<1>10. d.type \in Tracked => d.id \in PartId /\ d.status \in Status \cup {Absent}
  <2> SUFFICES ASSUME d.type \in Tracked  PROVE d.id \in PartId /\ d.status \in Status \cup {Absent}
    OBVIOUS
  <2>1. d.type = p.type
    BY <1>5 DEF Textual, Tracked
  <2>2. p.id \in PartId /\ p.status \in Status \cup {Absent}
    BY <1>1, <2>1 DEF Valid
  <2> QED  BY <1>2, <1>4, <2>2 DEF Pick, Dict
<1>11. Valid(d)
  <2>1. d.type \in Textual => d.text # None
    BY <1>7, MarkerAssumption
  <2> QED  BY <1>6, <1>9, <1>10, <2>1 DEF Valid
<1>12. v \in Part
  BY <1>3, <1>11, ValidatedIsPart
<1>13. /\ v.type = d.type /\ v.id = d.id /\ v.has = d.has
       /\ v.text = Pick(d.text, DefaultText(d.type))
       /\ v.status = Pick(d.status, DefaultStatus(d.type))
       /\ v.meta = Pick(d.meta, DefaultMeta(d.type))
  BY DEF Validated
<1>14. v.status = d.status /\ v.meta = d.meta
  <2>1. d.status = Absent \/ d.meta = Absent => d.type \notin Tracked
    BY <1>1, <1>4, <1>5 DEF Pick, Textual, Tracked
  <2> QED  BY <1>13, <2>1 DEF Pick, DefaultStatus, DefaultMeta
<1>15. /\ d.text # Absent => v.text = d.text
       /\ d.text = Absent => v.text = IF d.type \in Textual THEN <<>> ELSE Absent
  BY <1>6, <1>13 DEF Pick, DefaultText
<1>16. v \in PlainPart
  BY <1>8, <1>12, <1>13, <1>15 DEF PlainPart
<1> HIDE DEF v
<1>17. v \in Dict
  BY <1>12 DEF Part
<1>18. /\ d = [type |-> d.type, id |-> d.id, has |-> d.has, text |-> d.text,
               status |-> d.status, meta |-> d.meta]
       /\ v = [type |-> v.type, id |-> v.id, has |-> v.has, text |-> v.text,
               status |-> v.status, meta |-> v.meta]
  BY <1>3, <1>17 DEF Dict
<1>19. Raw(d, v)
  <2>1. CASE v.text = d.text
    BY <1>13, <1>14, <1>18, <2>1 DEF Raw
  <2>2. CASE v.text # d.text
    <3>1. d.text = Absent /\ v.text = <<>> /\ v.type \in Textual
      BY <1>13, <1>15, <2>2
    <3>2. d = [v EXCEPT !.text = Absent]
      BY <1>13, <1>14, <1>18, <3>1
    <3> QED  BY <3>1, <3>2 DEF Raw
  <2> QED  BY <2>1, <2>2
<1> QED  BY <1>3, <1>6, <1>11, <1>16, <1>19 DEF d, v

LEMMA RawFacts ==
    ASSUME NEW part \in PlainPart, NEW raw, Raw(raw, part)
    PROVE  /\ raw \in Dict /\ raw.type = part.type /\ SamePart(raw, part)
           /\ part.type \in Textual => RawText(raw) = part.text
<1>1. /\ part \in Dict /\ Valid(part) /\ Validated(part) = part
      /\ part.type \in Textual => part.text \in Seq(Token)
      /\ HasText(part) <=> part.type \in Textual
  BY PlainPartFacts
<1>2. CASE raw = part
  BY <1>1, <1>2 DEF SamePart, RawText
<1>3. CASE part.type \in Textual /\ part.text = <<>> /\ raw = [part EXCEPT !.text = Absent]
  <2>1. /\ raw.type = part.type /\ raw.id = part.id /\ raw.has = part.has
        /\ raw.text = Absent /\ raw.status = part.status /\ raw.meta = part.meta
        /\ raw \in Dict
    BY <1>1, <1>3 DEF Dict
  <2>2. Valid(raw)
    BY <1>1, <2>1, MarkerAssumption DEF Valid
  <2>3. Validated(raw) = Validated(part)
    <3>1. Pick(raw.text, DefaultText(raw.type)) = Pick(part.text, DefaultText(part.type))
      BY <1>3, <2>1 DEF Pick, DefaultText
    <3> QED  BY <2>1, <3>1 DEF Validated
  <2>4. RawText(raw) = <<>>
    BY <2>1 DEF RawText, HasText
  <2> QED  BY <1>1, <1>3, <2>1, <2>2, <2>3, <2>4 DEF SamePart
<1> QED  BY <1>2, <1>3 DEF Raw

\* The raw part after a patch stands for the validated part after it.
LEMMA RawTakes ==
    ASSUME NEW part \in PlainPart, NEW raw, Raw(raw, part), NEW q \in PlainPatch
    PROVE  Raw(Merge(raw, q), Validated(Merge(part, q))) /\ Merge(raw, q).type \in PartType
<1> DEFINE d == Merge(part, q)
           v == Validated(d)
<1>1. v \in PlainPart /\ Raw(d, v) /\ d.type \in PartType /\ d \in Dict
  BY PlainTakes
<1>2. CASE raw = part
  BY <1>1, <1>2
<1>3. CASE part.type \in Textual /\ part.text = <<>> /\ raw = [part EXCEPT !.text = Absent]
  <2>1. /\ raw.type = part.type /\ raw.id = part.id /\ raw.has = part.has
        /\ raw.text = Absent /\ raw.status = part.status /\ raw.meta = part.meta
    BY <1>3, PlainPartFacts DEF Dict
  <2>2. CASE q.text # Absent
    <3>1. Merge(raw, q) = d
      BY <2>1, <2>2 DEF Merge, Pick
    <3> QED  BY <1>1, <3>1
  <2>3. CASE q.text = Absent
    <3>1. d.text = <<>> /\ d.type \in Textual
      BY <1>3, <2>3 DEF Merge, Pick, PlainPatch
    <3>2. <<>> # Absent
      <4>1. <<>> \in Seq(Token)
        OBVIOUS
      <4> QED  BY <4>1, MarkerAssumption
    <3>3. v = d
      <4>1. v.text = <<>> /\ v.type = d.type
        BY <3>1, <3>2 DEF Validated, Pick
      <4> HIDE DEF v, d
      <4>2. v # [v EXCEPT !.text = Absent] /\ [v EXCEPT !.text = Absent].text = Absent
        BY <1>1, <3>2, <4>1, PlainPartFacts DEF Dict
      <4> QED  BY <1>1, <3>1, <3>2, <4>2 DEF Raw
    <3>4. Pick(q.text, raw.text) = Absent
      BY <2>1, <2>3 DEF Pick
    <3>5. Merge(raw, q) = [type |-> d.type, id |-> d.id, has |-> d.has, text |-> Absent,
                           status |-> d.status, meta |-> d.meta]
      BY <2>1, <3>4 DEF Merge
    <3> HIDE DEF d, v
    <3>6. Merge(raw, q) = [d EXCEPT !.text = Absent]
      BY <1>1, <3>5 DEF Dict
    <3>7. Raw(Merge(raw, q), d)
      BY <3>1, <3>6 DEF Raw
    <3>8. Merge(raw, q).type = d.type
      BY <3>5
    <3> QED  BY <1>1, <3>3, <3>7, <3>8 DEF d, v
  <2> QED  BY <2>2, <2>3
<1> QED  BY <1>2, <1>3 DEF Raw

----------------------------------------------------------------------------
\* Contents.

\* Any raw text of a textual part grows into the text of the part itself.
LEMMA RawGrows ==
    ASSUME NEW part \in PlainPart, NEW raw, Raw(raw, part), NEW text \in Seq(Token),
           part.type \in Textual
    PROVE  /\ [raw EXCEPT !.text = RawText(raw) \o text] = Extended(part, text)
           /\ Extended(part, text) \in PlainPart
<1>1. part \in Part /\ part \in Dict /\ HasText(part) /\ RawText(raw) = part.text
  BY PlainPartFacts, RawFacts
<1>2. Extended(part, text) \in Part
  BY <1>1, TokenKeepsPart
<1>3. Extended(part, text).type = part.type
  BY <1>1 DEF Extended, Dict
<1>4. raw = part \/ raw = [part EXCEPT !.text = Absent]
  BY DEF Raw
<1>5. [raw EXCEPT !.text = part.text \o text] = [part EXCEPT !.text = part.text \o text]
  BY <1>1, <1>4 DEF Dict
<1> QED  BY <1>1, <1>2, <1>3, <1>5 DEF Extended, PlainPart

LEMMA RawSplice ==
    ASSUME NEW raw, NEW content, RawContent(raw, content), NEW part \in PlainPart,
           NEW i \in 1 .. Len(content) + 1
    PROVE  RawContent((SubSeq(raw, 1, i - 1) \o <<part>>) \o SubSeq(raw, i, Len(raw)),
                      (SubSeq(content, 1, i - 1) \o <<part>>) \o SubSeq(content, i, Len(content)))
<1> DEFINE n == Len(content)
           left == SubSeq(content, 1, i - 1)
           right == SubSeq(content, i, n)
           rawLeft == SubSeq(raw, 1, i - 1)
           rawRight == SubSeq(raw, i, Len(raw))
<1>1. /\ n \in Nat /\ Len(raw) = n /\ \A k \in 1 .. n : content[k] \in PlainPart
      /\ \A k \in 1 .. n : raw[k] \in Dict
      /\ \A k \in 1 .. n : Raw(raw[k], content[k])
  BY LenProperties, ElementOfSeq DEF RawContent
<1>2. part \in Dict /\ Raw(part, part)
  BY PlainPartFacts DEF Raw
<1>3. /\ left \in Seq(PlainPart) /\ Len(left) = i - 1
      /\ \A k \in 1 .. i - 1 : left[k] = content[k]
      /\ right \in Seq(PlainPart) /\ Len(right) = n - i + 1
      /\ \A k \in 1 .. n - i + 1 : right[k] = content[i + k - 1]
  BY <1>1, SubSeqProperties
<1>4. /\ rawLeft \in Seq(Dict) /\ Len(rawLeft) = i - 1
      /\ \A k \in 1 .. i - 1 : rawLeft[k] = raw[k]
      /\ rawRight \in Seq(Dict) /\ Len(rawRight) = n - i + 1
      /\ \A k \in 1 .. n - i + 1 : rawRight[k] = raw[i + k - 1]
  BY <1>1, SubSeqProperties
<1> HIDE DEF left, right, rawLeft, rawRight
<1>5. <<part>> \in Seq(PlainPart) /\ <<part>> \in Seq(Dict) /\ Len(<<part>>) = 1
      /\ <<part>>[1] = part
  BY <1>2
<1> DEFINE most == left \o <<part>>
           rawMost == rawLeft \o <<part>>
<1>6. /\ most \in Seq(PlainPart) /\ Len(most) = i
      /\ \A k \in 1 .. i : most[k] = IF k <= i - 1 THEN left[k] ELSE <<part>>[k - (i - 1)]
      /\ rawMost \in Seq(Dict) /\ Len(rawMost) = i
      /\ \A k \in 1 .. i : rawMost[k] = IF k <= i - 1 THEN rawLeft[k] ELSE <<part>>[k - (i - 1)]
  BY <1>3, <1>4, <1>5, ConcatProperties, SMTT(60)
<1>7. ASSUME NEW k \in 1 .. i  PROVE Raw(rawMost[k], most[k])
  <2>1. CASE k <= i - 1
    <3>1. k \in 1 .. i - 1 /\ k \in 1 .. n
      BY <1>1, <2>1
    <3>2. most[k] = content[k] /\ rawMost[k] = raw[k]
      BY <1>3, <1>4, <1>6, <2>1, <3>1
    <3> QED  BY <1>1, <3>1, <3>2
  <2>2. CASE ~(k <= i - 1)
    <3>1. k - (i - 1) = 1
      BY <1>1, <2>2
    <3>2. most[k] = part /\ rawMost[k] = part
      BY <1>5, <1>6, <2>2, <3>1
    <3> QED  BY <1>2, <3>2
  <2> QED  BY <2>1, <2>2
<1> HIDE DEF most, rawMost
<1>8. /\ most \o right \in Seq(PlainPart) /\ Len(most \o right) = n + 1
      /\ \A k \in 1 .. n + 1 : (most \o right)[k] = IF k <= i THEN most[k] ELSE right[k - i]
      /\ rawMost \o rawRight \in Seq(Dict) /\ Len(rawMost \o rawRight) = n + 1
      /\ \A k \in 1 .. n + 1 :
            (rawMost \o rawRight)[k] = IF k <= i THEN rawMost[k] ELSE rawRight[k - i]
  <2>1. Len(most) + Len(right) = n + 1 /\ Len(rawMost) + Len(rawRight) = n + 1
    BY <1>1, <1>3, <1>4, <1>6
  <2>2. /\ most \o right \in Seq(PlainPart) /\ Len(most \o right) = Len(most) + Len(right)
        /\ \A k \in 1 .. Len(most) + Len(right) :
              (most \o right)[k] = IF k <= Len(most) THEN most[k] ELSE right[k - Len(most)]
    BY <1>3, <1>6, ConcatProperties, ZenonT(60)
  <2>3. /\ rawMost \o rawRight \in Seq(Dict)
        /\ Len(rawMost \o rawRight) = Len(rawMost) + Len(rawRight)
        /\ \A k \in 1 .. Len(rawMost) + Len(rawRight) :
              (rawMost \o rawRight)[k]
                 = IF k <= Len(rawMost) THEN rawMost[k] ELSE rawRight[k - Len(rawMost)]
    BY <1>4, <1>6, ConcatProperties, ZenonT(60)
  <2> QED  BY <1>6, <2>1, <2>2, <2>3
<1>9. ASSUME NEW k \in 1 .. n - i + 1  PROVE Raw(rawRight[k], right[k])
  <2>1. i + k - 1 \in 1 .. n
    BY <1>1
  <2>2. right[k] = content[i + k - 1] /\ rawRight[k] = raw[i + k - 1]
    BY <1>3, <1>4
  <2> QED  BY <1>1, <2>1, <2>2
<1>10. ASSUME NEW k \in 1 .. n + 1  PROVE Raw((rawMost \o rawRight)[k], (most \o right)[k])
  <2>1. CASE k <= i
    <3>1. k \in 1 .. i
      BY <2>1
    <3> QED  BY <1>7, <1>8, <2>1, <3>1
  <2>2. CASE ~(k <= i)
    <3>1. k - i \in 1 .. n - i + 1
      BY <1>1, <2>2
    <3> QED  BY <1>8, <1>9, <2>2, <3>1
  <2> QED  BY <2>1, <2>2
<1>11. RawContent(rawMost \o rawRight, most \o right)
  BY <1>8, <1>10 DEF RawContent
<1> QED  BY <1>11 DEF most, rawMost, left, right, rawLeft, rawRight

LEMMA RawAppended ==
    ASSUME NEW raw, NEW content, RawContent(raw, content), NEW e, e.index \in Nat,
           e.part \in PlainPart
    PROVE  RawContent(AfterAppended(raw, e), AfterAppended(content, e))
<1> DEFINE i == Clamp(e.index, Len(content)) + 1
<1>1. Len(raw) = Len(content) /\ Len(content) \in Nat
  BY LenProperties DEF RawContent
<1>2. i \in 1 .. Len(content) + 1 /\ i = Clamp(e.index, Len(raw)) + 1
  BY <1>1 DEF Clamp
<1> HIDE DEF i
<1> DEFINE part == e.part
<1>3. part \in PlainPart
  OBVIOUS
<1>4. /\ AfterAppended(content, e) =
            (SubSeq(content, 1, i - 1) \o <<part>>) \o SubSeq(content, i, Len(content))
      /\ AfterAppended(raw, e) =
            (SubSeq(raw, 1, i - 1) \o <<part>>) \o SubSeq(raw, i, Len(raw))
  BY <1>2, AppendedSplit DEF i
<1> HIDE DEF part
<1> QED  BY <1>2, <1>3, <1>4, RawSplice

\* One part of each side is replaced.
LEMMA RawReplaced ==
    ASSUME NEW raw, NEW content, RawContent(raw, content), NEW i \in 1 .. Len(content),
           NEW r, NEW p \in PlainPart, Raw(r, p)
    PROVE  RawContent([raw EXCEPT ![i] = r], [content EXCEPT ![i] = p])
<1>1. /\ raw \in Seq(Dict) /\ content \in Seq(PlainPart) /\ Len(raw) = Len(content)
      /\ \A k \in 1 .. Len(content) : Raw(raw[k], content[k])
  BY DEF RawContent
<1>2. r \in Dict
  BY RawFacts
<1>3. /\ [raw EXCEPT ![i] = r] \in Seq(Dict)
      /\ Len([raw EXCEPT ![i] = r]) = Len(raw)
      /\ \A k \in 1 .. Len(raw) : [raw EXCEPT ![i] = r][k] = IF k = i THEN r ELSE raw[k]
  BY <1>1, <1>2, ExceptSeq
<1>4. /\ [content EXCEPT ![i] = p] \in Seq(PlainPart)
      /\ Len([content EXCEPT ![i] = p]) = Len(content)
      /\ \A k \in 1 .. Len(content) :
            [content EXCEPT ![i] = p][k] = IF k = i THEN p ELSE content[k]
  BY <1>1, ExceptSeq
<1> QED  BY <1>1, <1>3, <1>4 DEF RawContent

LEMMA RawElement ==
    ASSUME NEW raw, NEW content, RawContent(raw, content), NEW i \in Nat
    PROVE  /\ InRange(raw, i) <=> InRange(content, i)
           /\ InRange(content, i) => /\ i + 1 \in 1 .. Len(content)
                                     /\ content[i + 1] \in PlainPart
                                     /\ Raw(raw[i + 1], content[i + 1])
                                     /\ raw[i + 1].type = content[i + 1].type
<1>1. InRange(raw, i) <=> InRange(content, i)
  BY DEF RawContent, InRange
<1>2. ASSUME InRange(content, i)
      PROVE  /\ i + 1 \in 1 .. Len(content) /\ content[i + 1] \in PlainPart
             /\ Raw(raw[i + 1], content[i + 1]) /\ raw[i + 1].type = content[i + 1].type
  <2>1. i + 1 \in 1 .. Len(content) /\ content[i + 1] \in PlainPart
    BY <1>2, LenProperties, ElementOfSeq DEF InRange, RawContent
  <2>2. Raw(raw[i + 1], content[i + 1])
    BY <2>1 DEF RawContent
  <2> QED  BY <2>1, <2>2, RawFacts
<1> QED  BY <1>1, <1>2

LEMMA RawDelta ==
    ASSUME NEW raw, NEW content, RawContent(raw, content), NEW e, e.index \in Nat,
           e.text \in Seq(Token)
    PROVE  RawContent(GoAfterDelta(raw, e), AfterDelta(content, e))
<1> DEFINE i == e.index + 1
<1>1. CASE InRange(content, e.index) /\ content[i].type \in Textual
  <2>1. /\ i \in 1 .. Len(content) /\ content[i] \in PlainPart /\ Raw(raw[i], content[i])
        /\ InRange(raw, e.index) /\ raw[i].type \in Textual
    BY <1>1, RawElement
  <2>2. HasText(content[i])
    BY <1>1, <2>1, PlainPartFacts
  <2> DEFINE grown == Extended(content[i], e.text)
  <2>3. [raw[i] EXCEPT !.text = RawText(raw[i]) \o e.text] = grown /\ grown \in PlainPart
    BY <1>1, <2>1, RawGrows
  <2>4. GoAfterDelta(raw, e) = [raw EXCEPT ![i] = grown]
    BY <2>1, <2>3 DEF GoAfterDelta
  <2>5. AfterDelta(content, e) = [content EXCEPT ![i] = grown]
    BY <1>1, <2>2 DEF AfterDelta
  <2> HIDE DEF grown
  <2>6. Raw(grown, grown)
    BY DEF Raw
  <2>7. RawContent([raw EXCEPT ![i] = grown], [content EXCEPT ![i] = grown])
    BY <2>1, <2>3, <2>6, RawReplaced
  <2> QED  BY <2>4, <2>5, <2>7
<1>2. CASE ~(InRange(content, e.index) /\ content[i].type \in Textual)
  <2>1. GoAfterDelta(raw, e) = raw
    BY <1>2, RawElement DEF GoAfterDelta
  <2>2. AfterDelta(content, e) = content
    BY <1>2, RawElement, PlainPartFacts DEF AfterDelta
  <2> QED  BY <2>1, <2>2
<1> QED  BY <1>1, <1>2

LEMMA RawUpdated ==
    ASSUME NEW raw, NEW content, RawContent(raw, content), NEW e, e.index \in Nat,
           e.patch \in PlainPatch
    PROVE  /\ RawContent(GoAfterUpdated(raw, e), AfterUpdated(content, e))
           /\ RawContent(TsAfterUpdated(raw, e), AfterUpdated(content, e))
           /\ InRange(content, e.index) => Valid(Merge(content[e.index + 1], e.patch))
<1> DEFINE i == e.index + 1
<1>1. CASE InRange(content, e.index)
  <2>1. /\ i \in 1 .. Len(content) /\ content[i] \in PlainPart /\ Raw(raw[i], content[i])
        /\ InRange(raw, e.index)
    BY <1>1, RawElement
  <2> DEFINE r == Merge(raw[i], e.patch)
             p == Validated(Merge(content[i], e.patch))
  <2>2. Raw(r, p) /\ r.type \in PartType
    BY <2>1, RawTakes
  <2>3. p \in PlainPart /\ Valid(Merge(content[i], e.patch))
    BY <2>1, PlainTakes
  <2>4. /\ GoAfterUpdated(raw, e) = [raw EXCEPT ![i] = r]
        /\ TsAfterUpdated(raw, e) = [raw EXCEPT ![i] = r]
    BY <2>1, <2>2 DEF GoAfterUpdated, TsAfterUpdated
  <2>5. AfterUpdated(content, e) = [content EXCEPT ![i] = p]
    BY <1>1 DEF AfterUpdated
  <2> HIDE DEF r, p
  <2>6. RawContent([raw EXCEPT ![i] = r], [content EXCEPT ![i] = p])
    BY <2>1, <2>2, <2>3, RawReplaced
  <2> QED  BY <2>3, <2>4, <2>5, <2>6
<1>2. CASE ~InRange(content, e.index)
  BY <1>2, RawElement DEF GoAfterUpdated, TsAfterUpdated, AfterUpdated
<1> QED  BY <1>1, <1>2

----------------------------------------------------------------------------
\* The reducers.

LEMMA RawSelf ==
    ASSUME NEW content \in Seq(PlainPart)
    PROVE  RawContent(content, content)
<1>1. PlainPart \subseteq Dict
  BY PlainPartFacts
<1>2. content \in Seq(Dict)
  BY <1>1, SeqMonotonic
<1> QED  BY <1>2 DEF RawContent, Raw

LEMMA PlainEventFacts ==
    ASSUME NEW e \in PlainEvent
    PROVE  /\ e.event \in {"message_started", "part_appended", "token_delta", "part_updated",
                           "message_finalized"}
           /\ IsSnapshot(e) => e.message \in PlainMessage /\ e.message.id = Target(e)
           /\ ~IsSnapshot(e) => e.index \in Nat /\ Target(e) = e.message_id
           /\ e.event = "part_appended" => e.part \in PlainPart
           /\ e.event = "token_delta" => e.text \in Seq(Token)
           /\ e.event = "part_updated" => e.patch \in PlainPatch
  BY DEF PlainEvent, IsSnapshot, Target

LEMMA ContentsFollow ==
    ASSUME NEW e \in PlainEvent, ~IsSnapshot(e), NEW raw, NEW content, RawContent(raw, content)
    PROVE  /\ RawContent(GoContentAfter(raw, e), ContentAfter(content, e))
           /\ RawContent(TsContentAfter(raw, e), ContentAfter(content, e))
           /\ RawContent(ContentAfter(content, e), ContentAfter(content, e))
<1>1. CASE e.event = "part_appended"
  <2>1. RawContent(AfterAppended(raw, e), AfterAppended(content, e))
    BY <1>1, PlainEventFacts, RawAppended
  <2> QED  BY <1>1, <2>1, RawSelf DEF GoContentAfter, TsContentAfter, ContentAfter, RawContent
<1>2. CASE e.event = "token_delta"
  <2>1. RawContent(GoAfterDelta(raw, e), AfterDelta(content, e))
    BY <1>2, PlainEventFacts, RawDelta
  <2>2. TsAfterDelta(raw, e) = GoAfterDelta(raw, e)
    BY DEF TsAfterDelta, GoAfterDelta
  <2>3. AfterDelta(content, e) \in Seq(PlainPart)
    BY <2>1 DEF RawContent
  <2> QED  BY <1>2, <2>1, <2>2, <2>3, RawSelf DEF GoContentAfter, TsContentAfter, ContentAfter
<1>3. CASE e.event = "part_updated"
  <2>1. /\ RawContent(GoAfterUpdated(raw, e), AfterUpdated(content, e))
        /\ RawContent(TsAfterUpdated(raw, e), AfterUpdated(content, e))
    BY <1>3, PlainEventFacts, RawUpdated
  <2>2. AfterUpdated(content, e) \in Seq(PlainPart)
    BY <2>1 DEF RawContent
  <2> QED  BY <1>3, <2>1, <2>2, RawSelf DEF GoContentAfter, TsContentAfter, ContentAfter
<1> QED  BY <1>1, <1>2, <1>3, PlainEventFacts DEF IsSnapshot

\* One message of each map is replaced.
LEMMA PutFollows ==
    ASSUME NEW raw, NEW state, RawMap(raw, state), NEW r, NEW s, RawMessage(r, s)
    PROVE  RawMap(Put(raw, s.id, r), Put(state, s.id, s))
  BY DEF RawMap, Put

LEMMA MessageFollows ==
    ASSUME NEW r, NEW s, RawMessage(r, s), NEW rc, NEW sc, RawContent(rc, sc)
    PROVE  /\ RawMessage([r EXCEPT !.content = rc], [s EXCEPT !.content = sc])
           /\ [s EXCEPT !.content = sc].id = s.id
<1>1. s \in PlainMessage /\ sc \in Seq(PlainPart)
  BY DEF RawMessage, RawContent
<1>2. /\ [s EXCEPT !.content = sc] \in PlainMessage
      /\ [s EXCEPT !.content = sc].id = s.id /\ [s EXCEPT !.content = sc].meta = s.meta
      /\ [s EXCEPT !.content = sc].content = sc
  BY <1>1 DEF PlainMessage
<1>3. /\ r = [id |-> r.id, meta |-> r.meta, content |-> r.content]
      /\ r.id = s.id /\ r.meta = s.meta
  BY DEF RawMessage
<1>4. [r EXCEPT !.content = rc] = [id |-> r.id, meta |-> r.meta, content |-> rc]
  BY <1>3
<1> QED  BY <1>2, <1>3, <1>4 DEF RawMessage

LEMMA MessageSelf ==
    ASSUME NEW s \in PlainMessage
    PROVE  RawMessage(s, s)
<1>1. RawContent(s.content, s.content)
  BY RawSelf DEF PlainMessage
<1> QED  BY <1>1 DEF RawMessage, PlainMessage

\* The python reducer never raises, and each of the others follows it.
LEMMA ReducersFollow ==
    ASSUME NEW e \in PlainEvent, NEW state, RawMap(state, state), NEW l \in Language,
           NEW raw, RawMap(raw, state), l = "python" => raw = state
    PROVE  RawMap(Reduce(l, raw, e), Reduce("python", state, e))
<1> DEFINE m == Target(e)
<1>1. ~Raises(state, e)
  <2> SUFFICES ASSUME e.event = "part_updated", e.message_id \in DOMAIN state,
                      InRange(state[e.message_id].content, e.index)
               PROVE  Valid(Merge(state[e.message_id].content[e.index + 1], e.patch))
    BY DEF Raises
  <2>1. LET content == state[e.message_id].content
        IN  RawContent(content, content)
    BY DEF RawMap, RawMessage
  <2>2. e.index \in Nat /\ e.patch \in PlainPatch
    BY PlainEventFacts DEF IsSnapshot
  <2> QED  BY <2>1, <2>2, RawUpdated
<1>2. Reduce("python", state, e) = ApplyEvent(state, e)
  BY <1>1 DEF Reduce
<1>3. Reduce(l, raw, e) = IF l = "python" THEN ApplyEvent(state, e)
                          ELSE IF l = "go" THEN GoApplyEvent(raw, e) ELSE TsApplyEvent(raw, e)
  BY <1>2 DEF Reduce, Language
<1>4. CASE IsSnapshot(e)
  <2>1. e.message \in PlainMessage /\ e.message.id = m /\ RawMessage(e.message, e.message)
    BY <1>4, PlainEventFacts, MessageSelf
  <2>2. ApplyEvent(state, e) = Put(state, m, e.message)
    BY <1>4 DEF ApplyEvent
  <2>3. Reduce(l, raw, e) = Put(raw, m, e.message)
    BY <1>3, <1>4, <2>2 DEF GoApplyEvent, TsApplyEvent
  <2> QED  BY <1>2, <2>1, <2>2, <2>3, PutFollows
<1>5. CASE ~IsSnapshot(e) /\ m \notin DOMAIN state
  <2>1. DOMAIN raw = DOMAIN state
    BY DEF RawMap
  <2>2. ApplyEvent(state, e) = state
    BY <1>5 DEF ApplyEvent
  <2>3. Reduce(l, raw, e) = raw
    BY <1>3, <1>5, <2>1, <2>2 DEF GoApplyEvent, TsApplyEvent
  <2> QED  BY <1>2, <2>2, <2>3
<1>6. CASE ~IsSnapshot(e) /\ m \in DOMAIN state
  <2> DEFINE s == state[m]
             r == raw[m]
             sc == ContentAfter(s.content, e)
  <2>1. /\ m \in DOMAIN raw /\ s.id = m /\ r.id = m
        /\ RawMessage(r, s) /\ RawMessage(s, s)
    BY <1>6 DEF RawMap, RawMessage
  <2>2. /\ RawContent(GoContentAfter(r.content, e), sc)
        /\ RawContent(TsContentAfter(r.content, e), sc)
        /\ RawContent(sc, sc)
    BY <1>6, <2>1, ContentsFollow DEF RawMessage
  <2>3. ApplyEvent(state, e) = Put(state, m, [s EXCEPT !.content = sc])
    BY <1>6, <2>1 DEF ApplyEvent
  <2>4. PICK rc : /\ RawContent(rc, sc)
                  /\ Reduce(l, raw, e) = Put(raw, m, [r EXCEPT !.content = rc])
    <3>1. CASE l = "python"
      BY <1>3, <2>2, <2>3, <3>1
    <3>2. CASE l = "go"
      <4>1. GoApplyEvent(raw, e) = Put(raw, m, [r EXCEPT !.content = GoContentAfter(r.content, e)])
        BY <1>6, <2>1 DEF GoApplyEvent
      <4> QED  BY <1>3, <2>2, <3>2, <4>1
    <3>3. CASE l = "typescript"
      <4>1. TsApplyEvent(raw, e) = Put(raw, m, [r EXCEPT !.content = TsContentAfter(r.content, e)])
        BY <1>6, <2>1 DEF TsApplyEvent
      <4> QED  BY <1>3, <2>2, <3>3, <4>1
    <3> QED  BY <3>1, <3>2, <3>3 DEF Language
  <2> HIDE DEF sc
  <2> DEFINE s2 == [s EXCEPT !.content = sc]
             r2 == [r EXCEPT !.content = rc]
  <2>5. RawMessage(r2, s2) /\ s2.id = m
    BY <2>1, <2>4, MessageFollows
  <2> HIDE DEF s2, r2
  <2>6. RawMap(Put(raw, m, r2), Put(state, m, s2))
    BY <2>5, PutFollows
  <2> QED  BY <1>2, <2>3, <2>4, <2>6 DEF s2, r2
<1> QED  BY <1>4, <1>5, <1>6

----------------------------------------------------------------------------
\* The sender.

EmitsPlain == log' = log \/ \E e \in PlainEvent : log' = Append(log, e)

LEMMA PlainEvents ==
    ASSUME NEW m \in MessageId, NEW i \in Nat
    PROVE  /\ \A message \in PlainMessage : Started(message) \in PlainEvent
           /\ \A message \in PlainMessage :
                 message.id = m => Finalized(m, message) \in PlainEvent
           /\ \A part \in PlainPart : Appended(m, i, part) \in PlainEvent
           /\ \A text \in Seq(Token) : Delta(m, i, text) \in PlainEvent
           /\ \A patch \in PlainPatch : Updated(m, i, patch) \in PlainEvent
<1>1. ASSUME NEW message \in PlainMessage, message.id = m
      PROVE  Finalized(m, message) \in PlainEvent
  BY <1>1 DEF PlainEvent, Finalized
<1>2. ASSUME NEW message \in PlainMessage  PROVE Started(message) \in PlainEvent
  BY DEF PlainEvent, Started
<1>3. ASSUME NEW part \in PlainPart  PROVE Appended(m, i, part) \in PlainEvent
  BY DEF PlainEvent, Appended
<1>4. ASSUME NEW text \in Seq(Token)  PROVE Delta(m, i, text) \in PlainEvent
  BY DEF PlainEvent, Delta
<1>5. ASSUME NEW patch \in PlainPatch  PROVE Updated(m, i, patch) \in PlainEvent
  BY DEF PlainEvent, Updated
<1> QED  BY <1>1, <1>2, <1>3, <1>4, <1>5

LEMMA EditPlain ==
    ASSUME SenderPlain, NEW m \in MessageId, Open(m), NEW content \in Seq(PlainPart),
           NEW e \in PlainEvent, NEW outcome, Edit(m, content, e, outcome)
    PROVE  HandPlain' /\ EmitsPlain
<1>1. EmitsPlain
  BY DEF Edit, Emit, EmitsPlain
<1>2. [msg[m] EXCEPT !.content = content] \in PlainMessage
      /\ [msg[m] EXCEPT !.content = content].id = m
  BY DEF SenderPlain, HandPlain, PlainMessage
<1>3. /\ msg' = [msg EXCEPT ![m].content = content]
      /\ DOMAIN msg = MessageId
  BY DEF Edit, SenderPlain, BuilderTypeOK
<1>4. /\ msg'[m] = [msg[m] EXCEPT !.content = content]
      /\ \A n \in MessageId \ {m} : msg'[n] = msg[n]
  BY <1>3
<1>5. HandPlain'
  BY <1>2, <1>4 DEF SenderPlain, HandPlain, Open
<1> QED  BY <1>1, <1>5

\* The content in hand, as an edit finds it.
LEMMA HandContent ==
    ASSUME SenderPlain, NEW m \in MessageId, Open(m)
    PROVE  /\ msg[m].content \in Seq(PlainPart) /\ Len(msg[m].content) \in Nat
           /\ \A i \in Nat : InRange(msg[m].content, i) =>
                 i + 1 \in 1 .. Len(msg[m].content) /\ msg[m].content[i + 1] \in PlainPart
<1>1. msg[m].content \in Seq(PlainPart)
  BY DEF SenderPlain, HandPlain, PlainMessage
<1>2. Len(msg[m].content) \in Nat
  BY <1>1, LenProperties
<1>3. ASSUME NEW i \in Nat, InRange(msg[m].content, i)
      PROVE  i + 1 \in 1 .. Len(msg[m].content)
  BY <1>2, <1>3 DEF InRange
<1> QED  BY <1>1, <1>2, <1>3, ElementOfSeq

LEMMA StartPlain ==
    ASSUME SenderPlain, NEW m \in MessageId, NEW outcome,
           Start(m, EmptyMeta, outcome) \/ Restart(m, EmptyMeta)
    PROVE  HandPlain' /\ EmitsPlain
<1> DEFINE new == NewMessage(m, EmptyMeta)
<1>1. new \in PlainMessage /\ new.id = m
  <2>1. <<>> \in Seq(PlainPart)
    OBVIOUS
  <2> QED  BY <2>1, EmptyTypes DEF NewMessage, PlainMessage
<1>2. Started(new) \in PlainEvent
  BY <1>1, PlainEvents
<1>3. log' = log \/ log' = Append(log, Started(new))
  BY DEF Start, Restart, Emit
<1>4. msg' = msg \/ msg' = [msg EXCEPT ![m] = new]
  BY DEF Start, Restart
<1> HIDE DEF new
<1>5. EmitsPlain
  BY <1>2, <1>3 DEF EmitsPlain
<1>6. DOMAIN msg = MessageId
  BY DEF SenderPlain, BuilderTypeOK
<1>7. HandPlain'
  BY <1>1, <1>4, <1>6 DEF SenderPlain, HandPlain, Open
<1> QED  BY <1>5, <1>7

LEMMA PushPlain ==
    ASSUME SenderPlain, NEW m \in MessageId, Open(m), NEW part \in PlainPart, NEW outcome,
           Push(m, part, outcome)
    PROVE  HandPlain' /\ EmitsPlain
<1>1. msg[m].content \in Seq(PlainPart) /\ Len(msg[m].content) \in Nat
  BY HandContent
<1>2. Append(msg[m].content, part) \in Seq(PlainPart)
  BY <1>1, AppendProperties
<1>3. Appended(m, Len(msg[m].content), part) \in PlainEvent
  BY <1>1, PlainEvents
<1> QED  BY <1>2, <1>3, EditPlain DEF Push

LEMMA TrackedIsPlain ==
    ASSUME NEW kind \in Tracked, NEW id \in PartId, NEW meta \in PartMeta \cup {None}
    PROVE  TrackedPart(kind, id, meta) \in PlainPart
<1>1. TrackedPart(kind, id, meta) \in Part
  BY TrackedPartTyped, BuilderAssumption
<1>2. TrackedPart(kind, id, meta).text = Absent
  BY DEF TrackedPart, Validated, Pick, DefaultText, Tracked, Textual
<1> QED  BY <1>1, <1>2 DEF PlainPart

LEMMA AppendTokenPlain ==
    ASSUME SenderPlain, NEW m \in MessageId, NEW i \in Nat, NEW text \in Seq(Token),
           NEW outcome, AppendToken(m, i, text, outcome)
    PROVE  HandPlain' /\ EmitsPlain
<1> DEFINE old == msg[m].content[i + 1]
           new == Extended(old, text)
<1>1. Open(m) /\ InRange(msg[m].content, i) /\ HasText(old)
  BY DEF AppendToken, Editable
<1>2. /\ msg[m].content \in Seq(PlainPart)
      /\ i + 1 \in 1 .. Len(msg[m].content) /\ old \in PlainPart
  BY <1>1, HandContent
<1>3. Edit(m, [msg[m].content EXCEPT ![i + 1] = new], Delta(m, i, text), outcome)
  BY DEF AppendToken
<1>4. new \in PlainPart
  <2>1. Raw(old, old) /\ old.type \in Textual
    BY <1>1, <1>2, PlainPartFacts DEF Raw
  <2> HIDE DEF old
  <2> QED  BY <1>2, <2>1, RawGrows
<1> HIDE DEF old, new
<1>5. [msg[m].content EXCEPT ![i + 1] = new] \in Seq(PlainPart)
  BY <1>2, <1>4, ExceptSeq
<1>6. Delta(m, i, text) \in PlainEvent
  BY PlainEvents
<1> QED  BY <1>1, <1>3, <1>5, <1>6, EditPlain

LEMMA PatchPartPlain ==
    ASSUME SenderPlain, NEW m \in MessageId, NEW i \in Nat, NEW patch \in PlainPatch,
           NEW outcome, PatchPart(m, i, patch, outcome)
    PROVE  HandPlain' /\ EmitsPlain
<1> DEFINE old == msg[m].content[i + 1]
           new == Validated(Merge(old, patch))
<1>1. Open(m) /\ InRange(msg[m].content, i)
  BY DEF PatchPart, Editable
<1>2. /\ msg[m].content \in Seq(PlainPart)
      /\ i + 1 \in 1 .. Len(msg[m].content) /\ old \in PlainPart
  BY <1>1, HandContent
<1>3. Edit(m, [msg[m].content EXCEPT ![i + 1] = new], Updated(m, i, patch), outcome)
  BY DEF PatchPart
<1>4. new \in PlainPart
  BY <1>2, PlainTakes
<1> HIDE DEF old, new
<1>5. [msg[m].content EXCEPT ![i + 1] = new] \in Seq(PlainPart)
  BY <1>2, <1>4, ExceptSeq
<1>6. Updated(m, i, patch) \in PlainEvent
  BY PlainEvents
<1> QED  BY <1>1, <1>3, <1>5, <1>6, EditPlain

LEMMA UpdateStatusPlain ==
    ASSUME PlainTexts, SenderPlain, NEW m \in MessageId, NEW kind \in Tracked,
           NEW id \in PartId, NEW status \in StatusInputs,
           NEW metaPatch \in PartMeta \cup {Absent},
           NEW outcome, UpdateStatus(m, kind, id, status, metaPatch, outcome)
    PROVE  HandPlain' /\ EmitsPlain
<1> DEFINE i == index[m][kind][id]
           patch == StatusPatch(msg[m].content[i + 1], status, metaPatch)
<1>1. i \in Nat /\ patch \in Dict /\ PatchPart(m, i, patch, outcome)
  BY StatusIsPatch DEF SenderPlain
<1>2. /\ patch.type = Absent /\ patch.text = Absent /\ patch.id = Absent
      /\ patch.status = status
  BY DEF StatusPatch, NoPatch
<1>3. patch \in PlainPatch
  BY <1>1, <1>2, MarkerAssumption DEF PlainPatch, PlainTexts
<1> HIDE DEF i, patch
<1> QED  BY <1>1, <1>3, PatchPartPlain

LEMMA SetMetaPlain ==
    ASSUME SenderPlain, NEW m \in MessageId, NEW namespace \in Namespace,
           NEW values \in MetaInputs, SetMeta(m, namespace, values)
    PROVE  HandPlain' /\ EmitsPlain
<1>1. /\ msg'[m] \in Message /\ msg'[m].content = msg[m].content
      /\ \A n \in MessageId \ {m} : msg'[n] = msg[n]
  BY SetMetaTakesPlace DEF SenderPlain
<1>2. msg[m] \in PlainMessage /\ msg[m].id = m
  BY DEF SetMeta, Editable, SenderPlain, HandPlain
<1>3. msg'[m].id = m
  <2> DEFINE meta == Overlay(msg[m].meta, [n \in {namespace} |->
                       Overlay(IF namespace \in DOMAIN msg[m].meta
                               THEN msg[m].meta[namespace] ELSE EmptyBucket, values)])
  <2>1. msg' = [msg EXCEPT ![m].meta = meta] /\ DOMAIN msg = MessageId
    BY DEF SetMeta, SenderPlain, BuilderTypeOK
  <2> HIDE DEF meta
  <2> QED  BY <1>2, <2>1 DEF PlainMessage
<1>4. msg'[m] \in PlainMessage
  BY <1>1, <1>2 DEF PlainMessage, Message
<1>5. HandPlain'
  BY <1>1, <1>3, <1>4 DEF SenderPlain, HandPlain, Open
<1> QED  BY <1>5 DEF SetMeta, EmitsPlain

LEMMA FinalizePlain ==
    ASSUME SenderPlain, NEW m \in MessageId, NEW outcome, Finalize(m, outcome)
    PROVE  HandPlain' /\ EmitsPlain
<1>1. Finalized(m, msg[m]) \in PlainEvent
  BY PlainEvents DEF SenderPlain, HandPlain, Finalize
<1>2. log' = log \/ log' = Append(log, Finalized(m, msg[m]))
  BY DEF Finalize, Emit
<1>3. HandPlain'
  BY DEF SenderPlain, HandPlain, Open, Finalize
<1> QED  BY <1>1, <1>2, <1>3 DEF EmitsPlain

LEMMA BuilderPlain ==
    ASSUME PlainTexts, SenderPlain, BuilderNext
    PROVE  HandPlain' /\ EmitsPlain
<1> DEFINE Goal == HandPlain' /\ EmitsPlain
<1>1. ASSUME NEW m \in MessageId, Restart(m, EmptyMeta)  PROVE Goal
  BY <1>1, StartPlain
<1>2. ASSUME NEW m \in MessageId, FinalizeAgain(m)  PROVE Goal
  BY <1>2 DEF FinalizeAgain, SenderPlain, HandPlain, Open, EmitsPlain
<1>3. ASSUME NEW m \in MessageId, NEW namespace \in Namespace, NEW values \in MetaInputs,
             SetMeta(m, namespace, values)
      PROVE  Goal
  BY <1>3, SetMetaPlain
<1>4. ASSUME NEW m \in MessageId, NEW outcome \in Outcome, Start(m, EmptyMeta, outcome)
      PROVE  Goal
  BY <1>4, StartPlain
<1>5. ASSUME NEW m \in MessageId, NEW outcome \in Outcome, Finalize(m, outcome)
      PROVE  Goal
  BY <1>5, FinalizePlain
<1>6. ASSUME NEW m \in MessageId, NEW outcome \in Outcome, NEW part \in PartInputs,
             AppendPart(m, part, outcome)
      PROVE  Goal
  <2>1. part \in PlainPart /\ Open(m) /\ Push(m, part, outcome)
    BY <1>6 DEF PlainTexts, AppendPart, Editable
  <2> QED  BY <2>1, PushPlain
<1>7. ASSUME NEW m \in MessageId, NEW outcome \in Outcome, NEW kind \in Tracked,
             NEW id \in PartId, NEW meta \in PartMeta \cup {None},
             AddTracked(m, kind, id, meta, outcome)
      PROVE  Goal
  <2>1. Open(m) /\ Push(m, TrackedPart(kind, id, meta), outcome)
    BY <1>7 DEF AddTracked, Editable
  <2>2. TrackedPart(kind, id, meta) \in PlainPart
    BY TrackedIsPlain
  <2> QED  BY <2>1, <2>2, PushPlain
<1>8. ASSUME NEW m \in MessageId, NEW outcome \in Outcome, NEW i \in Indices(m),
             NEW t \in Token, AppendToken(m, i, <<t>>, outcome)
      PROVE  Goal
  <2>1. <<t>> \in Seq(Token) /\ i \in Nat
    BY IndicesTyped DEF SenderPlain
  <2> QED  BY <1>8, <2>1, AppendTokenPlain
<1>9. ASSUME NEW m \in MessageId, NEW outcome \in Outcome, NEW i \in Indices(m),
             NEW patch \in Patches, PatchPart(m, i, patch, outcome)
      PROVE  Goal
  <2>1. i \in Nat /\ patch \in PlainPatch
    BY IndicesTyped DEF SenderPlain, PlainTexts
  <2> QED  BY <1>9, <2>1, PatchPartPlain
<1>10. ASSUME NEW m \in MessageId, NEW outcome \in Outcome, NEW kind \in Tracked,
             NEW id \in PartId, NEW status \in StatusInputs,
             NEW metaPatch \in PartMeta \cup {Absent},
             UpdateStatus(m, kind, id, status, metaPatch, outcome)
      PROVE  Goal
  BY <1>10, UpdateStatusPlain
<1> QED
  BY <1>1, <1>2, <1>3, <1>4, <1>5, <1>6, <1>7, <1>8, <1>9, <1>10 DEF BuilderNext

----------------------------------------------------------------------------
\* The sender, the transport and the receivers.

LEMMA PortsInvInit == PortsInit => PortsInv
<1> SUFFICES ASSUME PortsInit  PROVE PortsInv
  OBVIOUS
<1>1. BuilderTypeOK
  BY BuilderTypeInit DEF PortsInit
<1>2. HandPlain
  BY DEF PortsInit, BuilderInit, HandPlain, Open
<1>3. log = <<>> /\ <<>> \in Seq(PlainEvent) /\ Len(<<>>) = 0
  BY DEF PortsInit, BuilderInit
<1>4. at \in 0 .. Len(log)
  BY <1>3 DEF PortsInit
<1>5. RawMap(NoMessages, NoMessages)
  BY DEF RawMap, NoMessages
<1>6. \A l \in Language : port[l] = NoMessages
  BY DEF PortsInit
<1>7. "python" \in Language
  BY DEF Language
<1> QED  BY <1>1, <1>2, <1>3, <1>4, <1>5, <1>6, <1>7 DEF PortsInv, SenderPlain

LEMMA SenderStep ==
    ASSUME PlainTexts, PortsInv, Sender
    PROVE  PortsInv'
<1>1. SenderPlain /\ BuilderNext /\ port' = port /\ at' = at /\ at \in 0 .. Len(log)
  BY DEF PortsInv, Sender
<1>2. HandPlain' /\ EmitsPlain
  BY <1>1, BuilderPlain
<1>3. BuilderTypeOK'
  BY <1>1, BuilderTypeStep DEF SenderPlain
<1>4. log' \in Seq(PlainEvent) /\ at \in 0 .. Len(log')
  <2>1. log \in Seq(PlainEvent) /\ Len(log) \in Nat
    BY <1>1, LenProperties DEF SenderPlain
  <2>2. CASE log' = log
    BY <1>1, <2>1, <2>2
  <2>3. ASSUME NEW e \in PlainEvent, log' = Append(log, e)
        PROVE  log' \in Seq(PlainEvent) /\ at \in 0 .. Len(log')
    BY <1>1, <2>1, <2>3, AppendProperties
  <2> QED  BY <1>2, <2>2, <2>3 DEF EmitsPlain
<1> QED  BY <1>1, <1>2, <1>3, <1>4 DEF PortsInv, SenderPlain

\* An event fed to all three receivers.
LEMMA FeedFollows ==
    ASSUME PortsInv, NEW e \in PlainEvent, Feed(e)
    PROVE  \A l \in Language : RawMap(port'[l], port'["python"])
<1> DEFINE state == port["python"]
<1>1. "python" \in Language
  BY DEF Language
<1>2. \A l \in Language : port'[l] = Reduce(l, port[l], e)
  BY DEF Feed
<1>3. RawMap(state, state) /\ \A l \in Language : RawMap(port[l], state)
  BY <1>1 DEF PortsInv
<1>4. port'["python"] = Reduce("python", state, e)
  BY <1>1, <1>2
<1> HIDE DEF state
<1>5. ASSUME NEW l \in Language
      PROVE  RawMap(Reduce(l, port[l], e), Reduce("python", state, e))
  <2>1. RawMap(port[l], state) /\ (l = "python" => port[l] = state)
    BY <1>3 DEF state
  <2> QED  BY <1>3, <2>1, ReducersFollow
<1> QED  BY <1>2, <1>4, <1>5

LEMMA DeliverStep == PortsInv /\ Deliver => PortsInv'
<1> SUFFICES ASSUME PortsInv, Deliver  PROVE PortsInv'
  OBVIOUS
<1>1. SenderPlain' /\ log' = log
  BY DEF PortsInv, Deliver, builderVars, SenderPlain, HandPlain, Open, BuilderTypeOK
<1>2. log \in Seq(PlainEvent) /\ Len(log) \in Nat
  BY LenProperties DEF PortsInv, SenderPlain
<1>3. /\ at + 1 \in 1 .. Len(log) /\ at' = at + 1 /\ Feed(log[at + 1])
      /\ at' \in 0 .. Len(log)
  BY <1>2 DEF PortsInv, Deliver
<1>4. log[at + 1] \in PlainEvent
  BY <1>2, <1>3, ElementOfSeq
<1>5. \A l \in Language : RawMap(port'[l], port'["python"])
  BY <1>3, <1>4, FeedFollows
<1> QED  BY <1>1, <1>3, <1>5 DEF PortsInv

LEMMA FaultPlain ==
    ASSUME SenderPlain, NEW f, TransportFault(f)
    PROVE  SenderPlain' /\ log' = log
  BY DEF TransportFault, SenderPlain, HandPlain, Open, BuilderTypeOK

LEMMA TransportStep ==
    ASSUME PortsInv, Lose \/ Redeliver \/ Rejoin
    PROVE  PortsInv'
<1>1. SenderPlain' /\ log' = log
  BY FaultPlain DEF PortsInv, Lose, Redeliver, Rejoin
<1>2. log \in Seq(PlainEvent) /\ Len(log) \in Nat /\ at \in 0 .. Len(log)
  BY LenProperties DEF PortsInv, SenderPlain
<1>3. CASE Lose
  <2>1. at' \in 0 .. Len(log) /\ port' = port
    BY <1>2, <1>3 DEF Lose
  <2> QED  BY <1>1, <2>1 DEF PortsInv
<1>4. CASE Redeliver
  <2>1. at \in 1 .. Len(log) /\ at' = at /\ Feed(log[at])
    BY <1>2, <1>4 DEF Redeliver
  <2>2. log[at] \in PlainEvent
    BY <1>2, <2>1, ElementOfSeq
  <2>3. \A l \in Language : RawMap(port'[l], port'["python"])
    BY <2>1, <2>2, FeedFollows
  <2> QED  BY <1>1, <1>2, <2>1, <2>3 DEF PortsInv
<1>5. CASE Rejoin
  <2>1. at' \in 0 .. Len(log) /\ \A l \in Language : port'[l] = NoMessages
    BY <1>2, <1>5 DEF Rejoin
  <2>2. RawMap(NoMessages, NoMessages) /\ "python" \in Language
    BY DEF RawMap, NoMessages, Language
  <2> QED  BY <1>1, <2>1, <2>2 DEF PortsInv
<1> QED  BY <1>3, <1>4, <1>5

LEMMA PortsInvStep ==
    ASSUME PlainTexts, PortsInv, [PortsNext]_portsVars
    PROVE  PortsInv'
<1>1. CASE UNCHANGED portsVars
  BY <1>1 DEF portsVars, builderVars, PortsInv, SenderPlain, HandPlain, Open, BuilderTypeOK
<1>2. CASE PortsNext
  BY <1>2, SenderStep, DeliverStep, TransportStep DEF PortsNext
<1> QED  BY <1>1, <1>2

LEMMA PortsInvAgrees == PortsInv => PortsAgree
<1> SUFFICES ASSUME PortsInv, NEW l \in Language
             PROVE  /\ DOMAIN port[l] = DOMAIN port["python"]
                    /\ \A m \in DOMAIN port[l] : SameMessage(port[l][m], port["python"][m])
  BY DEF PortsAgree
<1>1. RawMap(port[l], port["python"])
  BY DEF PortsInv
<1>2. ASSUME NEW r, NEW s, RawMessage(r, s)  PROVE SameMessage(r, s)
  <2>1. /\ r.content \in Seq(Dict) /\ s.content \in Seq(PlainPart)
        /\ Len(r.content) = Len(s.content)
        /\ \A i \in 1 .. Len(s.content) : Raw(r.content[i], s.content[i])
    BY <1>2 DEF RawMessage, RawContent
  <2>2. DOMAIN r.content = 1 .. Len(s.content)
    BY <2>1, LenProperties
  <2>3. \A i \in 1 .. Len(s.content) : s.content[i] \in PlainPart
    BY <2>1, ElementOfSeq
  <2>4. \A i \in DOMAIN r.content : SamePart(r.content[i], s.content[i])
    BY <2>1, <2>2, <2>3, RawFacts
  <2> QED  BY <1>2, <2>1, <2>4 DEF RawMessage, SameMessage
<1> QED  BY <1>1, <1>2 DEF RawMap

\* The reducers of python, go and typescript have the same messages after every
\* event, for any number of messages, edits and events, and whatever the transport
\* loses, repeats or skips (events.py:16-17, applyevent.go:5-7,
\* test/applyEvent.test.ts:2-3), as long as inputs keep a text to text and reasoning
\* and patches are ones any part takes.
THEOREM PortsStayAgreed ==
    ASSUME PlainTexts
    PROVE  PortsSpec => []PortsAgree
<1>1. PortsInit => PortsInv
  BY PortsInvInit
<1>2. PortsInv /\ [PortsNext]_portsVars => PortsInv'
  BY PortsInvStep
<1> QED  BY <1>1, <1>2, PortsInvAgrees, PTL DEF PortsSpec
=============================================================================
