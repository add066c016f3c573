--------------------------- MODULE StreamSyncProofs ---------------------------
(***************************************************************************)
(* Senders and receivers together: what a builder step does to the         *)
(* contents in hand and to the log, and type correctness of the whole.     *)
(* Then: a receiver that missed nothing of a message since its last        *)
(* snapshot holds what the sender held, and never raises.  The argument:   *)
(* every event tells the step the sender took (EventsTell), the reducer    *)
(* touches only the message an event is about, and does to a copy what the *)
(* event tells.  And one that has also seen every event ends with what was *)
(* finalized.  Last, EventStream implements MessageMirror: under the       *)
(* inductive invariant every step maps to one of the mirror, or to none.   *)
(***************************************************************************)
EXTENDS StreamRefinement, MessageBuilderProofs

----------------------------------------------------------------------------
(* What a step does, and type correctness.                                   *)

LEMMA TargetTyped ==
    ASSUME NEW e \in Event
    PROVE  Target(e) \in MessageId
  BY DEF Event, Target, Message

LEMMA SnapshotTyped ==
    ASSUME NEW e \in Event, IsSnapshot(e)
    PROVE  e.message \in Message
  BY DEF Event, IsSnapshot

LEMMA IncrementTyped ==
    ASSUME NEW e \in Event, ~IsSnapshot(e)
    PROVE  /\ Target(e) = e.message_id
           /\ e.index \in Nat
           /\ \/ e.event = "part_appended" /\ e.part \in Part
              \/ e.event = "token_delta" /\ e.text \in Seq(Token)
              \/ e.event = "part_updated" /\ e.patch \in Dict
  BY DEF Event, IsSnapshot, Target

LEMMA ContentAfterTyped ==
    ASSUME NEW content \in Seq(Part), NEW e \in Event, ~IsSnapshot(e),
           e.event = "part_updated" /\ InRange(content, e.index) =>
               Valid(Merge(content[e.index + 1], e.patch))
    PROVE  ContentAfter(content, e) \in Seq(Part)
<1>1. CASE e.event = "part_appended"
  BY <1>1, IncrementTyped, AppendedTyped DEF ContentAfter
<1>2. CASE e.event = "token_delta"
  BY <1>2, IncrementTyped, DeltaTyped DEF ContentAfter
<1>3. CASE e.event = "part_updated"
  BY <1>3, IncrementTyped, UpdatedTyped DEF ContentAfter
<1> QED  BY <1>1, <1>2, <1>3, IncrementTyped

\* The reducer maps valid states to valid states.
LEMMA ApplyEventTyped ==
    ASSUME NEW f, IsMessageMap(f), NEW e \in Event, ~Raises(f, e)
    PROVE  IsMessageMap(ApplyEvent(f, e))
<1>1. CASE IsSnapshot(e)
  BY <1>1, TargetTyped, SnapshotTyped DEF ApplyEvent, Put, IsMessageMap, IsPartial
<1>2. CASE ~IsSnapshot(e) /\ Target(e) \notin DOMAIN f
  BY <1>2 DEF ApplyEvent
<1>3. CASE ~IsSnapshot(e) /\ Target(e) \in DOMAIN f
  <2> DEFINE old == f[Target(e)]
             new == [old EXCEPT !.content = ContentAfter(@, e)]
  <2>1. old \in Message
    BY <1>3 DEF IsMessageMap, IsPartial
  <2>2. ContentAfter(old.content, e) \in Seq(Part)
    BY <1>3, <2>1, ContentAfterTyped, IncrementTyped DEF Raises, Message
  <2>3. new \in Message
    BY <2>1, <2>2 DEF Message
  <2>4. ApplyEvent(f, e) = Put(f, old.id, new) /\ old.id \in MessageId
    BY <1>3, <2>1 DEF ApplyEvent, Message
  <2> HIDE DEF new, old
  <2> QED  BY <2>3, <2>4 DEF Put, IsMessageMap, IsPartial
<1> QED  BY <1>1, <1>2, <1>3

----------------------------------------------------------------------------
\* Type correctness.

ContentMap == UNION {[N -> Seq(Part)] : N \in SUBSET MessageId}

LEMMA ContentMapPartial ==
    ASSUME NEW c
    PROVE  c \in ContentMap <=> IsPartial(c, MessageId, Seq(Part))
  BY DEF ContentMap, IsPartial

LEMMA HeldIsSequence ==
    ASSUME StreamTypeOK
    PROVE  /\ held \in Seq(ContentMap)
           /\ Len(held) = Len(log) + 1
           /\ Len(log) \in Nat
           /\ log \in Seq(Event)
<1>1. Len(log) \in Nat /\ log \in Seq(Event)
  BY LenProperties DEF StreamTypeOK, BuilderTypeOK
<1>2. held \in [1 .. Len(log) + 1 -> ContentMap]
  BY <1>1, ContentMapPartial DEF StreamTypeOK
<1> QED  BY <1>1, <1>2, SeqDef, LenProperties

LEMMA StreamTypeInit == StreamInit => StreamTypeOK
<1> SUFFICES ASSUME StreamInit  PROVE StreamTypeOK
  OBVIOUS
<1>1. BuilderTypeOK /\ Len(log) = 0
  BY BuilderTypeInit DEF StreamInit, BuilderInit
<1>2. held = [j \in 1 .. Len(log) + 1 |-> held[j]]
  <2>1. held = [j \in 1 .. 1 |-> held[j]] /\ 0 + 1 = 1
    BY DEF StreamInit
  <2> QED  BY <1>1, <2>1
<1>3. held[1] = NoMessages /\ IsPartial(NoMessages, MessageId, Seq(Part))
  BY DEF StreamInit, IsPartial, NoMessages
<1> QED  BY <1>1, <1>2, <1>3, EmptyTypes DEF StreamInit, StreamTypeOK

----------------------------------------------------------------------------
\* What a builder step does to the contents in hand: nothing without an event,
\* and what the event tells with one.

Effect ==
    \/ /\ log' = log
       /\ \A n \in DOMAIN Held' : n \in DOMAIN Held /\ Held'[n] = Held[n]
    \/ \E e : log' = Append(log, e) /\ Tells(Held, e, Held')

LEMMA HeldFacts ==
    ASSUME BuilderTypeOK
    PROVE  /\ \A n : n \in DOMAIN Held <=> n \in MessageId /\ msg[n] # None /\ n \notin skewed
           /\ \A n \in DOMAIN Held : Held[n] = msg[n].content
  BY DEF Held, Open

LEMMA HeldNextFacts ==
    /\ \A n : n \in DOMAIN Held' <=> n \in MessageId /\ msg'[n] # None /\ n \notin skewed'
    /\ \A n \in DOMAIN Held' : Held'[n] = msg'[n].content
  BY DEF Held, Open

\* An edit told by an incremental event.
LEMMA EditEffect ==
    ASSUME BuilderTypeOK, NEW m \in MessageId, Open(m), NEW content \in Seq(Part), NEW e,
           ~IsSnapshot(e), Target(e) = m, NEW outcome,
           content = ContentAfter(msg[m].content, e),
           e.event = "part_updated" =>
               /\ InRange(msg[m].content, e.index)
               /\ Valid(Merge(msg[m].content[e.index + 1], e.patch)),
           Edit(m, content, e, outcome)
    PROVE  Effect
<1>1. msg[m] \in Message
  BY DEF BuilderTypeOK, Open
<1>2. msg'[m].content = content /\ \A n \in MessageId \ {m} : msg'[n] = msg[n]
  BY <1>1 DEF Edit, BuilderTypeOK, Message
<1>3. skewed \subseteq skewed' /\ (outcome = "dropped" => m \in skewed')
  BY DEF Edit
<1>4. CASE outcome = "dropped"
  <2>1. log' = log
    BY <1>4 DEF Edit, Emit
  <2>2. \A n \in DOMAIN Held' : n \in DOMAIN Held /\ Held'[n] = Held[n]
    BY <1>2, <1>3, <1>4, HeldFacts, HeldNextFacts
  <2> QED  BY <2>1, <2>2 DEF Effect
<1>5. CASE outcome # "dropped"
  <2>1. log' = Append(log, e)
    BY <1>5 DEF Edit, Emit
  <2>2. ASSUME NEW n \in DOMAIN Held', n # m  PROVE n \in DOMAIN Held /\ Held'[n] = Held[n]
    BY <1>2, <1>3, <2>2, HeldFacts, HeldNextFacts
  <2>3. ASSUME m \in DOMAIN Held'
        PROVE  m \in DOMAIN Held /\ Held[m] = msg[m].content /\ Held'[m] = content
    BY <1>2, <1>3, <2>3, HeldFacts, HeldNextFacts DEF Open
  <2>4. Tells(Held, e, Held')
    BY <2>2, <2>3 DEF Tells
  <2> QED  BY <2>1, <2>4 DEF Effect
<1> QED  BY <1>4, <1>5

\* A snapshot of m is emitted, and the other messages are left alone.
LEMMA SnapshotEffect ==
    ASSUME BuilderTypeOK, NEW m \in MessageId, NEW e, IsSnapshot(e), Target(e) = m,
           log' = Append(log, e),
           \A n \in MessageId \ {m} : msg'[n] = msg[n],
           skewed \subseteq skewed' \cup {m},
           m \notin skewed' => msg'[m].content = e.message.content
    PROVE  Effect
<1>1. ASSUME NEW n \in DOMAIN Held', n # m  PROVE n \in DOMAIN Held /\ Held'[n] = Held[n]
  BY <1>1, HeldFacts, HeldNextFacts
<1>2. ASSUME m \in DOMAIN Held'  PROVE e.message.content = Held'[m]
  BY <1>2, HeldNextFacts
<1>3. Tells(Held, e, Held')
  BY <1>1, <1>2 DEF Tells
<1> QED  BY <1>3 DEF Effect

\* What the receiver reads off each event.
LEMMA StartedShape ==
    ASSUME NEW message
    PROVE  /\ IsSnapshot(Started(message)) /\ Target(Started(message)) = message.id
           /\ Started(message).message = message
  BY DEF IsSnapshot, Target, Started

LEMMA FinalizedShape ==
    ASSUME NEW m, NEW message
    PROVE  /\ IsSnapshot(Finalized(m, message)) /\ Target(Finalized(m, message)) = m
           /\ Finalized(m, message).message = message
  BY DEF IsSnapshot, Target, Finalized

LEMMA AppendedShape ==
    ASSUME NEW m, NEW i, NEW part
    PROVE  /\ ~IsSnapshot(Appended(m, i, part)) /\ Target(Appended(m, i, part)) = m
           /\ Appended(m, i, part).event = "part_appended"
           /\ Appended(m, i, part).index = i /\ Appended(m, i, part).part = part
  BY DEF IsSnapshot, Target, Appended

LEMMA DeltaShape ==
    ASSUME NEW m, NEW i, NEW text
    PROVE  /\ ~IsSnapshot(Delta(m, i, text)) /\ Target(Delta(m, i, text)) = m
           /\ Delta(m, i, text).event = "token_delta"
           /\ Delta(m, i, text).index = i /\ Delta(m, i, text).text = text
  BY DEF IsSnapshot, Target, Delta

LEMMA UpdatedShape ==
    ASSUME NEW m, NEW i, NEW patch
    PROVE  /\ ~IsSnapshot(Updated(m, i, patch)) /\ Target(Updated(m, i, patch)) = m
           /\ Updated(m, i, patch).event = "part_updated"
           /\ Updated(m, i, patch).index = i /\ Updated(m, i, patch).patch = patch
  BY DEF IsSnapshot, Target, Updated

LEMMA StartEffect ==
    ASSUME BuilderTypeOK, NEW m \in MessageId, NEW meta, NEW outcome, Start(m, meta, outcome)
    PROVE  Effect
<1> DEFINE new == NewMessage(m, meta)
           e == Started(new)
<1>1. IsSnapshot(e) /\ Target(e) = m /\ e.message = new
  BY StartedShape DEF NewMessage
<1>2. Emit(e, outcome)
  BY DEF Start
<1> HIDE DEF e
<1>3. CASE outcome = "dropped"
  <2>1. log' = log /\ msg' = msg /\ skewed \subseteq skewed'
    BY <1>2, <1>3 DEF Start, Emit
  <2> QED  BY <2>1, HeldFacts, HeldNextFacts DEF Effect
<1>4. CASE outcome # "dropped"
  <2>1. log' = Append(log, e)
    BY <1>2, <1>4 DEF Emit
  <2>2. /\ \A n \in MessageId \ {m} : msg'[n] = msg[n]
        /\ skewed \subseteq skewed' \cup {m}
        /\ m \notin skewed' => msg'[m] = new
    BY DEF Start, BuilderTypeOK
  <2> QED  BY <1>1, <2>1, <2>2, SnapshotEffect
<1> QED  BY <1>3, <1>4

LEMMA RestartEffect ==
    ASSUME BuilderTypeOK, NEW m \in MessageId, NEW meta, Restart(m, meta)
    PROVE  Effect
<1> DEFINE new == NewMessage(m, meta)
           e == Started(new)
<1>1. IsSnapshot(e) /\ Target(e) = m /\ e.message = new
  BY StartedShape DEF NewMessage
<1>2. log' = Append(log, e)
  BY DEF Restart
<1>3. /\ \A n \in MessageId \ {m} : msg'[n] = msg[n]
      /\ skewed \subseteq skewed' \cup {m}
      /\ msg'[m] = new
  BY DEF Restart, BuilderTypeOK
<1> HIDE DEF e
<1> QED  BY <1>1, <1>2, <1>3, SnapshotEffect

LEMMA FinalizeEffect ==
    ASSUME BuilderTypeOK, NEW m \in MessageId, NEW outcome, Finalize(m, outcome)
    PROVE  Effect
<1> DEFINE e == Finalized(m, msg[m])
<1>1. IsSnapshot(e) /\ Target(e) = m /\ e.message = msg[m]
  BY FinalizedShape
<1>2. log' = Append(log, e)
  BY DEF Finalize, Emit
<1>3. msg' = msg /\ skewed \subseteq skewed' \cup {m}
  BY DEF Finalize
<1> HIDE DEF e
<1> QED  BY <1>1, <1>2, <1>3, SnapshotEffect

LEMMA PushEffect ==
    ASSUME BuilderTypeOK, NEW m \in MessageId, Open(m), NEW part \in Part, NEW outcome,
           Push(m, part, outcome)
    PROVE  Effect
<1> DEFINE content == msg[m].content
           e == Appended(m, Len(content), part)
           next == Append(content, part)
<1>1. content \in Seq(Part)
  BY DEF BuilderTypeOK, Open, Message
<1>2. /\ ~IsSnapshot(e) /\ Target(e) = m /\ e.event = "part_appended"
      /\ e.index = Len(content) /\ e.part = part
  BY AppendedShape
<1>3. next \in Seq(Part)
  BY <1>1, AppendProperties
<1>4. Edit(m, next, e, outcome)
  BY DEF Push
<1> HIDE DEF e
<1>5. next = ContentAfter(content, e)
  BY <1>1, <1>2, AppendedAtEnd DEF ContentAfter
<1> HIDE DEF next
<1> QED  BY <1>2, <1>3, <1>4, <1>5, EditEffect

LEMMA AppendTokenEffect ==
    ASSUME BuilderTypeOK, NEW m \in MessageId, NEW i \in Nat, NEW text \in Seq(Token),
           NEW outcome, AppendToken(m, i, text, outcome)
    PROVE  Effect
<1> DEFINE content == msg[m].content
           e == Delta(m, i, text)
           next == [content EXCEPT ![i + 1] = Extended(@, text)]
<1>1. content \in Seq(Part) /\ Open(m)
  BY DEF BuilderTypeOK, AppendToken, Editable, Open, Message
<1>2. /\ ~IsSnapshot(e) /\ Target(e) = m /\ e.event = "token_delta"
      /\ e.index = i /\ e.text = text
  BY DeltaShape
<1>3. InRange(content, i) /\ HasText(content[i + 1])
  BY DEF AppendToken
<1>4. Edit(m, next, e, outcome)
  BY DEF AppendToken
<1> HIDE DEF e
<1>5. next = AfterDelta(content, e)
  BY <1>2, <1>3 DEF AfterDelta
<1>6. next = ContentAfter(content, e)
  BY <1>2, <1>5 DEF ContentAfter
<1>7. AfterDelta(content, e) \in Seq(Part)
  BY <1>1, <1>2, DeltaTyped
<1> HIDE DEF next
<1> QED  BY <1>1, <1>2, <1>4, <1>5, <1>6, <1>7, EditEffect

LEMMA PatchPartEffect ==
    ASSUME BuilderTypeOK, NEW m \in MessageId, NEW i \in Nat, NEW patch \in Dict,
           NEW outcome, PatchPart(m, i, patch, outcome)
    PROVE  Effect
<1> DEFINE content == msg[m].content
           e == Updated(m, i, patch)
           next == [content EXCEPT ![i + 1] = Validated(Merge(content[i + 1], patch))]
<1>1. content \in Seq(Part) /\ Open(m)
  BY DEF BuilderTypeOK, PatchPart, Editable, Open, Message
<1>2. /\ ~IsSnapshot(e) /\ Target(e) = m /\ e.event = "part_updated"
      /\ e.index = i /\ e.patch = patch
  BY UpdatedShape
<1>3. InRange(content, i) /\ Valid(Merge(content[i + 1], patch))
  BY DEF PatchPart
<1>4. Edit(m, next, e, outcome)
  BY DEF PatchPart
<1> HIDE DEF e
<1>5. next = AfterUpdated(content, e)
  BY <1>2, <1>3 DEF AfterUpdated
<1>6. next = ContentAfter(content, e)
  BY <1>2, <1>5 DEF ContentAfter
<1>7. AfterUpdated(content, e) \in Seq(Part)
  BY <1>1, <1>2, <1>3, UpdatedTyped
<1> HIDE DEF next
<1> QED  BY <1>1, <1>2, <1>3, <1>4, <1>5, <1>6, <1>7, EditEffect

LEMMA UpdateStatusEffect ==
    ASSUME BuilderTypeOK, NEW m \in MessageId, NEW kind \in Tracked, NEW id \in PartId,
           NEW status \in StatusInputs, NEW metaPatch \in PartMeta \cup {Absent},
           NEW outcome, UpdateStatus(m, kind, id, status, metaPatch, outcome)
    PROVE  Effect
<1> DEFINE i == index[m][kind][id]
           patch == StatusPatch(msg[m].content[i + 1], status, metaPatch)
<1>1. i \in Nat
  BY DEF BuilderTypeOK, UpdateStatus, IsPartial
<1>2. PatchPart(m, i, patch, outcome)
  BY DEF UpdateStatus
<1>3. msg[m].content \in Seq(Part)
  BY DEF BuilderTypeOK, UpdateStatus, Open, Message
<1>4. msg[m].content[i + 1] \in Part
  <2>1. InRange(msg[m].content, i)
    BY <1>2 DEF PatchPart
  <2>2. i + 1 \in 1 .. Len(msg[m].content)
    BY <1>1, <1>3, <2>1, LenProperties DEF InRange
  <2> QED  BY <1>3, <2>2, ElementOfSeq
<1>5. patch \in Dict
  BY <1>4, StatusPatchTyped
<1> HIDE DEF i, patch
<1> QED  BY <1>1, <1>2, <1>5, PatchPartEffect

\* set_meta() leaves every content alone.
LEMMA SetMetaEffect ==
    ASSUME BuilderTypeOK, NEW m \in MessageId, NEW namespace, NEW values,
           SetMeta(m, namespace, values)
    PROVE  Effect
<1>1. msg[m] \in Message
  BY DEF BuilderTypeOK, SetMeta, Editable, Open
<1>2. \A n \in MessageId : msg'[n] # None => msg[n] # None /\ msg'[n].content = msg[n].content
  BY <1>1 DEF SetMeta, Editable, Open, BuilderTypeOK, Message
<1>3. log' = log /\ skewed' = skewed
  BY DEF SetMeta
<1> QED  BY <1>2, <1>3, HeldFacts, HeldNextFacts DEF Effect

LEMMA QuietEffect ==
    ASSUME BuilderTypeOK, msg' = msg, log' = log, skewed' = skewed
    PROVE  Effect
  BY HeldFacts, HeldNextFacts DEF Effect

LEMMA BuilderEffect ==
    ASSUME BuilderTypeOK, BuilderNext
    PROVE  Effect
<1>1. ASSUME NEW m \in MessageId, Restart(m, EmptyMeta)  PROVE Effect
  BY <1>1, RestartEffect
<1>2. ASSUME NEW m \in MessageId, FinalizeAgain(m)  PROVE Effect
  BY <1>2, QuietEffect DEF FinalizeAgain
<1>3. ASSUME NEW m \in MessageId, NEW namespace \in Namespace, NEW values \in MetaInputs,
             SetMeta(m, namespace, values)
      PROVE  Effect
  BY <1>3, SetMetaEffect
<1>4. ASSUME NEW m \in MessageId, NEW outcome \in Outcome, Start(m, EmptyMeta, outcome)
      PROVE  Effect
  BY <1>4, StartEffect
<1>5. ASSUME NEW m \in MessageId, NEW outcome \in Outcome, Finalize(m, outcome)
      PROVE  Effect
  BY <1>5, FinalizeEffect
<1>6. ASSUME NEW m \in MessageId, NEW outcome \in Outcome, NEW part \in PartInputs,
             AppendPart(m, part, outcome)
      PROVE  Effect
  BY <1>6, PushEffect, BuilderAssumption DEF AppendPart, Editable
<1>7. ASSUME NEW m \in MessageId, NEW outcome \in Outcome, NEW kind \in Tracked,
             NEW id \in PartId, NEW meta \in PartMeta \cup {None},
             AddTracked(m, kind, id, meta, outcome)
      PROVE  Effect
  <2>1. TrackedPart(kind, id, meta) \in Part
    BY TrackedPartTyped, BuilderAssumption
  <2> QED  BY <1>7, <2>1, PushEffect DEF AddTracked, Editable
<1>8. ASSUME NEW m \in MessageId, NEW outcome \in Outcome, NEW i \in Indices(m),
             NEW t \in Token, AppendToken(m, i, <<t>>, outcome)
      PROVE  Effect
  <2>1. <<t>> \in Seq(Token)
    OBVIOUS
  <2> QED  BY <1>8, <2>1, IndicesTyped, AppendTokenEffect
<1>9. ASSUME NEW m \in MessageId, NEW outcome \in Outcome, NEW i \in Indices(m),
             NEW patch \in Patches, PatchPart(m, i, patch, outcome)
      PROVE  Effect
  BY <1>9, IndicesTyped, PatchPartEffect, BuilderAssumption
<1>10. ASSUME NEW m \in MessageId, NEW outcome \in Outcome, NEW kind \in Tracked,
             NEW id \in PartId, NEW status \in StatusInputs,
             NEW metaPatch \in PartMeta \cup {Absent},
             UpdateStatus(m, kind, id, status, metaPatch, outcome)
      PROVE  Effect
  BY <1>10, UpdateStatusEffect
<1> QED
  BY <1>1, <1>2, <1>3, <1>4, <1>5, <1>6, <1>7, <1>8, <1>9, <1>10 DEF BuilderNext

\* A step of a builder, with what it does to its caller's with-block.
SenderStep == BuilderNext /\ Told /\ left' \subseteq MessageId

\* Nothing happens to a message, to the stream or to a receiver.
Idle ==
    /\ UNCHANGED <<msg, index, finalized, returned, skewed, log, held, receiverVars>>
    /\ faults' \in Nat /\ left' \subseteq MessageId

LEMMA SenderSteps ==
    ASSUME StreamTypeOK, Sender
    PROVE  SenderStep
  BY DEF StreamTypeOK, Sender, SenderStep

LEMMA LeaveSteps ==
    ASSUME StreamTypeOK, NEW m \in MessageId, Leave(m)
    PROVE  SenderStep \/ Idle
<1>1. left' \subseteq MessageId /\ faults \in Nat
  BY DEF StreamTypeOK, BuilderTypeOK, Leave
<1>2. CASE finalized[m] /\ UNCHANGED <<builderVars, receiverVars, held>>
  BY <1>1, <1>2 DEF Idle, builderVars
<1>3. CASE \E outcome \in Outcome : Finalize(m, outcome) /\ Told
  BY <1>1, <1>3 DEF SenderStep, BuilderNext
<1>4. CASE /\ faults' = faults + 1
           /\ UNCHANGED <<msg, index, finalized, returned, skewed, log, receiverVars, held>>
  BY <1>1, <1>4 DEF Idle
<1> QED  BY <1>2, <1>3, <1>4 DEF Leave

LEMMA StutterIdle ==
    ASSUME StreamTypeOK, UNCHANGED streamVars
    PROVE  Idle
  BY DEF StreamTypeOK, BuilderTypeOK, Idle, streamVars, builderVars

\* The steps of a stream, as the proofs below tell them apart.
LEMMA StreamSteps ==
    ASSUME StreamTypeOK, [StreamNext]_streamVars
    PROVE  \/ SenderStep
           \/ Idle
           \/ \E r \in Receiver : Deliver(r) \/ Lose(r) \/ Redeliver(r) \/ Rejoin(r)
<1>1. CASE UNCHANGED streamVars
  BY <1>1, StutterIdle
<1>2. CASE Sender
  BY <1>2, SenderSteps
<1>3. ASSUME NEW m \in MessageId, Leave(m)  PROVE SenderStep \/ Idle
  BY <1>3, LeaveSteps
<1> QED  BY <1>1, <1>2, <1>3 DEF StreamNext

LEMMA HeldTypedNext ==
    ASSUME BuilderTypeOK'
    PROVE  Held' \in ContentMap
<1>1. DOMAIN Held' \subseteq MessageId
  BY HeldNextFacts
<1>2. \A n \in DOMAIN Held' : Held'[n] \in Seq(Part)
  BY HeldNextFacts DEF BuilderTypeOK, Message
<1>3. Held' = [n \in DOMAIN Held' |-> Held'[n]]
  BY DEF Held
<1> QED  BY <1>1, <1>2, <1>3, ContentMapPartial DEF IsPartial

LEMMA SenderTyped ==
    ASSUME StreamTypeOK, SenderStep
    PROVE  StreamTypeOK'
<1>1. BuilderTypeOK /\ BuilderTypeOK'
  BY BuilderTypeStep DEF StreamTypeOK, SenderStep, Told
<1>2. Held' \in ContentMap
  BY <1>1, HeldTypedNext
<1>3. Len(log') \in Nat /\ log' \in Seq(Event)
  BY <1>1, LenProperties DEF BuilderTypeOK
<1>4. /\ held' \in Seq(ContentMap)
      /\ Len(held') = Len(log') + 1
      /\ Len(log) <= Len(log')
  <2>1. CASE log' = log
    BY <2>1, HeldIsSequence DEF SenderStep, Told
  <2>2. CASE log' # log
    <3>1. PICK e : log' = Append(log, e)
      BY <1>1, <2>2, BuilderEffect DEF SenderStep, Told, Effect
    <3>2. held' = Append(held, Held')
      BY <2>2 DEF SenderStep, Told
    <3>3. Len(held') = Len(held) + 1 /\ held' \in Seq(ContentMap)
      BY <1>2, <3>2, HeldIsSequence, AppendProperties
    <3>4. Len(log') = Len(log) + 1
      BY <3>1, HeldIsSequence, AppendProperties
    <3> QED  BY <3>3, <3>4, HeldIsSequence
  <2> QED  BY <2>1, <2>2
<1>5. held' = [j \in 1 .. Len(log') + 1 |-> held'[j]]
  BY <1>3, <1>4, LenProperties
<1>6. \A j \in 1 .. Len(log') + 1 : IsPartial(held'[j], MessageId, Seq(Part))
  BY <1>3, <1>4, ElementOfSeq, ContentMapPartial
<1>7. \A r \in Receiver : cursor'[r] <= Len(log')
  BY <1>3, <1>4, HeldIsSequence DEF StreamTypeOK, SenderStep, Told, receiverVars
<1> QED  BY <1>1, <1>5, <1>6, <1>7 DEF StreamTypeOK, SenderStep, Told, receiverVars

\* What r receives keeps its map a map of messages.
LEMMA ReceiveTyped ==
    ASSUME StreamTypeOK, NEW r \in Receiver, NEW e \in Event, Receive(r, e)
    PROVE  /\ recv' = [q \in Receiver |-> recv'[q]]
           /\ \A q \in Receiver : IsMessageMap(recv'[q])
           /\ failed' \subseteq Receiver
<1>1. IsMessageMap(IF Raises(recv[r], e) THEN recv[r] ELSE ApplyEvent(recv[r], e))
  BY ApplyEventTyped DEF StreamTypeOK
<1> QED  BY <1>1 DEF Receive, StreamTypeOK

LEMMA LogElement ==
    ASSUME StreamTypeOK, NEW j \in 1 .. Len(log)
    PROVE  log[j] \in Event /\ Target(log[j]) \in MessageId
  BY ElementOfSeq, HeldIsSequence, TargetTyped

LEMMA DeliverTyped ==
    ASSUME StreamTypeOK, NEW r \in Receiver, Deliver(r)
    PROVE  StreamTypeOK'
<1> DEFINE e == log[cursor[r] + 1]
<1>1. cursor[r] + 1 \in 1 .. Len(log)
  BY HeldIsSequence DEF StreamTypeOK, Deliver
<1>2. e \in Event
  BY <1>1, LogElement
<1>3. Receive(r, e) /\ gap' = [gap EXCEPT ![r] = Healed(@, e)]
  BY DEF Deliver
<1>4. BuilderTypeOK'
  BY DEF StreamTypeOK, BuilderTypeOK, Deliver, builderVars
<1> QED  BY <1>1, <1>2, <1>3, <1>4, ReceiveTyped DEF StreamTypeOK, Deliver, Healed, builderVars

LEMMA FaultTyped ==
    ASSUME StreamTypeOK, NEW f, Fault(f)
    PROVE  BuilderTypeOK'
  BY DEF StreamTypeOK, BuilderTypeOK, Fault

LEMMA LoseTyped ==
    ASSUME StreamTypeOK, NEW r \in Receiver, Lose(r)
    PROVE  StreamTypeOK'
<1>1. cursor[r] + 1 \in 1 .. Len(log)
  BY HeldIsSequence DEF StreamTypeOK, Lose
<1>2. Target(log[cursor[r] + 1]) \in MessageId
  BY <1>1, LogElement
<1>3. BuilderTypeOK'
  BY FaultTyped DEF Lose
<1> QED  BY <1>1, <1>2, <1>3 DEF StreamTypeOK, Lose, Fault

LEMMA RedeliverTyped ==
    ASSUME StreamTypeOK, NEW r \in Receiver, Redeliver(r)
    PROVE  StreamTypeOK'
<1> DEFINE e == log[cursor[r]]
           g == IF e.event \in {"part_appended", "token_delta"}
                THEN gap[r] \cup {Target(e)} ELSE Healed(gap[r], e)
<1>1. cursor[r] \in 1 .. Len(log)
  BY HeldIsSequence DEF StreamTypeOK, Redeliver
<1>2. e \in Event /\ Target(e) \in MessageId
  BY <1>1, LogElement
<1>3. g \in SUBSET MessageId
  BY <1>2 DEF StreamTypeOK, Healed
<1>4. Receive(r, e) /\ gap' = [gap EXCEPT ![r] = g]
  BY DEF Redeliver
<1>5. BuilderTypeOK'
  BY FaultTyped DEF Redeliver
<1> HIDE DEF g
<1> QED  BY <1>2, <1>3, <1>4, <1>5, ReceiveTyped DEF StreamTypeOK, Redeliver, Fault

LEMMA RejoinTyped ==
    ASSUME StreamTypeOK, NEW r \in Receiver, Rejoin(r)
    PROVE  StreamTypeOK'
<1>1. BuilderTypeOK'
  BY FaultTyped DEF Rejoin
<1> QED  BY <1>1, EmptyTypes, HeldIsSequence DEF StreamTypeOK, Rejoin, Fault

LEMMA StreamTypeStep ==
    ASSUME StreamTypeOK, [StreamNext]_streamVars
    PROVE  StreamTypeOK'
<1>1. CASE Idle
  BY <1>1 DEF StreamTypeOK, BuilderTypeOK, Idle, receiverVars
<1>2. CASE SenderStep
  BY <1>2, SenderTyped
<1>3. ASSUME NEW r \in Receiver, Deliver(r)  PROVE StreamTypeOK'
  BY <1>3, DeliverTyped
<1>4. ASSUME NEW r \in Receiver, Lose(r)  PROVE StreamTypeOK'
  BY <1>4, LoseTyped
<1>5. ASSUME NEW r \in Receiver, Redeliver(r)  PROVE StreamTypeOK'
  BY <1>5, RedeliverTyped
<1>6. ASSUME NEW r \in Receiver, Rejoin(r)  PROVE StreamTypeOK'
  BY <1>6, RejoinTyped
<1> QED  BY <1>1, <1>2, <1>3, <1>4, <1>5, <1>6, StreamSteps

\* Senders and receivers only ever hold valid messages, whatever is lost,
\* repeated, refused or restarted.
THEOREM StreamTypeCorrect == StreamSpec => []StreamTypeOK
<1>1. StreamInit => StreamTypeOK
  BY StreamTypeInit
<1>2. StreamTypeOK /\ [StreamNext]_streamVars => StreamTypeOK'
  BY StreamTypeStep
<1> QED  BY <1>1, <1>2, PTL DEF StreamSpec

----------------------------------------------------------------------------
(* Copies in step with the sender.                                           *)

\* A message is held under its own id: in the builder, in the snapshots and in
\* the receivers' maps.  The reducer looks up an incremental event by its
\* message_id and stores the result under message.id (events.py:118-135).
SenderIds ==
    /\ \A m \in MessageId : Open(m) => msg[m].id = m
    /\ \A j \in 1 .. Len(log) : IsSnapshot(log[j]) => log[j].message.id = Target(log[j])

ReceiverIds == \A r \in Receiver : \A m \in DOMAIN recv[r] : recv[r][m].id = m

LEMMA LogNext ==
    ASSUME BuilderTypeOK, NEW e, log' = Append(log, e)
    PROVE  /\ Len(log) \in Nat /\ Len(log') = Len(log) + 1
           /\ log'[Len(log) + 1] = e
           /\ \A j \in 1 .. Len(log) : log'[j] = log[j]
  BY LenProperties, AppendProperties DEF BuilderTypeOK

LEMMA EmitIds ==
    ASSUME BuilderTypeOK, SenderIds, NEW e, NEW outcome, Emit(e, outcome),
           IsSnapshot(e) => e.message.id = Target(e)
    PROVE  \A j \in 1 .. Len(log') : IsSnapshot(log'[j]) => log'[j].message.id = Target(log'[j])
<1>1. CASE outcome = "dropped"
  BY <1>1 DEF Emit, SenderIds
<1>2. CASE outcome # "dropped"
  <2>1. log' = Append(log, e)
    BY <1>2 DEF Emit
  <2> QED  BY <2>1, LogNext DEF SenderIds
<1> QED  BY <1>1, <1>2

LEMMA EditIds ==
    ASSUME BuilderTypeOK, SenderIds, NEW m \in MessageId, Open(m), NEW content, NEW e,
           NEW outcome, ~IsSnapshot(e), Edit(m, content, e, outcome)
    PROVE  SenderIds'
<1>1. \A n \in MessageId : msg'[n] # None => msg[n] # None /\ msg'[n].id = msg[n].id
  <2>1. msg[m] \in Message
    BY DEF BuilderTypeOK, Open
  <2> QED  BY <2>1 DEF Edit, BuilderTypeOK, Message, Open
<1>2. \A n \in MessageId : Open(n)' => msg'[n].id = n
  BY <1>1 DEF SenderIds, Open
<1>3. \A j \in 1 .. Len(log') : IsSnapshot(log'[j]) => log'[j].message.id = Target(log'[j])
  BY EmitIds DEF Edit
<1> QED  BY <1>2, <1>3 DEF SenderIds, IsSnapshot, Target

LEMMA StartIds ==
    ASSUME BuilderTypeOK, SenderIds, NEW m \in MessageId, NEW meta, NEW outcome,
           Start(m, meta, outcome)
    PROVE  SenderIds'
<1> DEFINE new == NewMessage(m, meta)
<1>1. new.id = m /\ Started(new).message = new /\ Target(Started(new)) = m
  BY StartedShape DEF NewMessage
<1>2. \A j \in 1 .. Len(log') : IsSnapshot(log'[j]) => log'[j].message.id = Target(log'[j])
  BY <1>1, EmitIds DEF Start
<1>3. \A n \in MessageId : Open(n)' => msg'[n].id = n
  BY <1>1 DEF Start, SenderIds, BuilderTypeOK, Open
<1> QED  BY <1>2, <1>3 DEF SenderIds, IsSnapshot, Target

LEMMA RestartIds ==
    ASSUME BuilderTypeOK, SenderIds, NEW m \in MessageId, NEW meta, Restart(m, meta)
    PROVE  SenderIds'
<1> DEFINE new == NewMessage(m, meta)
           e == Started(new)
<1>1. new.id = m /\ e.message = new /\ Target(e) = m
  BY StartedShape DEF NewMessage
<1>2. log' = Append(log, e)
  BY DEF Restart
<1> HIDE DEF e
<1>3. \A j \in 1 .. Len(log') : IsSnapshot(log'[j]) => log'[j].message.id = Target(log'[j])
  BY <1>1, <1>2, LogNext DEF SenderIds
<1>4. \A n \in MessageId : Open(n)' => msg'[n].id = n
  BY <1>1 DEF Restart, SenderIds, BuilderTypeOK, Open
<1> QED  BY <1>3, <1>4 DEF SenderIds, IsSnapshot, Target

LEMMA FinalizeIds ==
    ASSUME BuilderTypeOK, SenderIds, NEW m \in MessageId, NEW outcome, Finalize(m, outcome)
    PROVE  SenderIds'
<1>1. msg[m].id = m
  BY DEF SenderIds, Finalize
<1>2. \A j \in 1 .. Len(log') : IsSnapshot(log'[j]) => log'[j].message.id = Target(log'[j])
  BY <1>1, FinalizedShape, EmitIds DEF Finalize
<1>3. msg' = msg
  BY DEF Finalize
<1> QED  BY <1>2, <1>3 DEF SenderIds, IsSnapshot, Target, Open

LEMMA SetMetaIds ==
    ASSUME BuilderTypeOK, SenderIds, NEW m \in MessageId, NEW namespace, NEW values,
           SetMeta(m, namespace, values)
    PROVE  SenderIds'
<1>1. msg[m] \in Message
  BY DEF BuilderTypeOK, SetMeta, Editable, Open
<1>2. \A n \in MessageId : msg'[n] # None => msg[n] # None /\ msg'[n].id = msg[n].id
  BY <1>1 DEF SetMeta, Editable, Open, BuilderTypeOK, Message
<1>3. log' = log
  BY DEF SetMeta
<1> QED  BY <1>2, <1>3 DEF SenderIds, Open, IsSnapshot, Target

LEMMA PatchPartIds ==
    ASSUME BuilderTypeOK, SenderIds, NEW m \in MessageId, NEW i, NEW patch, NEW outcome,
           PatchPart(m, i, patch, outcome)
    PROVE  SenderIds'
  BY EditIds, UpdatedShape DEF PatchPart, Editable

LEMMA PushIds ==
    ASSUME BuilderTypeOK, SenderIds, NEW m \in MessageId, Open(m), NEW part, NEW outcome,
           Push(m, part, outcome)
    PROVE  SenderIds'
  BY EditIds, AppendedShape DEF Push

LEMMA BuilderIds ==
    ASSUME BuilderTypeOK, SenderIds, BuilderNext
    PROVE  SenderIds'
<1>1. ASSUME NEW m \in MessageId, Restart(m, EmptyMeta)  PROVE SenderIds'
  BY <1>1, RestartIds
<1>2. ASSUME NEW m \in MessageId, FinalizeAgain(m)  PROVE SenderIds'
  BY <1>2 DEF FinalizeAgain, SenderIds, Open, IsSnapshot, Target
<1>3. ASSUME NEW m \in MessageId, NEW namespace \in Namespace, NEW values \in MetaInputs,
             SetMeta(m, namespace, values)
      PROVE  SenderIds'
  BY <1>3, SetMetaIds
<1>4. ASSUME NEW m \in MessageId, NEW outcome \in Outcome, Start(m, EmptyMeta, outcome)
      PROVE  SenderIds'
  BY <1>4, StartIds
<1>5. ASSUME NEW m \in MessageId, NEW outcome \in Outcome, Finalize(m, outcome)
      PROVE  SenderIds'
  BY <1>5, FinalizeIds
<1>6. ASSUME NEW m \in MessageId, NEW outcome \in Outcome, NEW part \in PartInputs,
             AppendPart(m, part, outcome)
      PROVE  SenderIds'
  BY <1>6, PushIds DEF AppendPart, Editable
<1>7. ASSUME NEW m \in MessageId, NEW outcome \in Outcome, NEW kind \in Tracked,
             NEW id \in PartId, NEW meta \in PartMeta \cup {None},
             AddTracked(m, kind, id, meta, outcome)
      PROVE  SenderIds'
  BY <1>7, PushIds DEF AddTracked, Editable
<1>8. ASSUME NEW m \in MessageId, NEW outcome \in Outcome, NEW i \in Indices(m),
             NEW t \in Token, AppendToken(m, i, <<t>>, outcome)
      PROVE  SenderIds'
  BY <1>8, EditIds, DeltaShape DEF AppendToken, Editable
<1>9. ASSUME NEW m \in MessageId, NEW outcome \in Outcome, NEW i \in Indices(m),
             NEW patch \in Patches, PatchPart(m, i, patch, outcome)
      PROVE  SenderIds'
  BY <1>9, PatchPartIds
<1>10. ASSUME NEW m \in MessageId, NEW outcome \in Outcome, NEW kind \in Tracked,
             NEW id \in PartId, NEW status \in StatusInputs,
             NEW metaPatch \in PartMeta \cup {Absent},
             UpdateStatus(m, kind, id, status, metaPatch, outcome)
      PROVE  SenderIds'
  BY <1>10, PatchPartIds DEF UpdateStatus
<1> QED
  BY <1>1, <1>2, <1>3, <1>4, <1>5, <1>6, <1>7, <1>8, <1>9, <1>10 DEF BuilderNext

----------------------------------------------------------------------------
\* Every event tells the step it was emitted in.

\* Knowing more before the event does no harm.
LEMMA TellsFromMore ==
    ASSUME NEW c, NEW d, NEW e, NEW after, Tells(c, e, after),
           \A n \in DOMAIN c : n \in DOMAIN d /\ d[n] = c[n]
    PROVE  Tells(d, e, after)
  BY DEF Tells

LEMMA SenderTells ==
    ASSUME StreamTypeOK, EventsTell, SenderStep
    PROVE  EventsTell'
<1> DEFINE top == held[Len(held)]
<1>1. BuilderTypeOK /\ Effect
  BY BuilderEffect DEF StreamTypeOK, SenderStep, Told
<1>2. \A n \in DOMAIN Held : n \in DOMAIN top /\ top[n] = Held[n]
  BY <1>1, HeldFacts DEF EventsTell
<1>3. Len(held) = Len(log) + 1 /\ Len(log) \in Nat /\ DOMAIN log = 1 .. Len(log)
  BY HeldIsSequence, LenProperties
<1>4. CASE log' = log
  <2>1. \A n \in DOMAIN Held' : n \in DOMAIN Held /\ Held'[n] = Held[n]
    <3>1. ASSUME NEW e, log' = Append(log, e)  PROVE FALSE
      <4>1. Len(log') = Len(log) + 1
        BY <1>1, <3>1, LogNext
      <4> QED  BY <1>3, <1>4, <4>1
    <3> QED  BY <1>1, <3>1 DEF Effect
  <2>2. held' = held
    BY <1>4 DEF SenderStep, Told
  <2>3. \A n \in DOMAIN Held' : n \in DOMAIN held'[Len(held')] /\ held'[Len(held')][n] = msg'[n].content
    BY <1>2, <2>1, <2>2, HeldNextFacts
  <2>4. \A j \in DOMAIN log' : Tells(held'[j], log'[j], held'[j + 1])
    BY <1>4, <2>2 DEF EventsTell
  <2> QED  BY <2>3, <2>4 DEF EventsTell, Tells, Target, IsSnapshot, ContentAfter
<1>5. CASE log' # log
  <2>1. PICK e : log' = Append(log, e) /\ Tells(Held, e, Held')
    BY <1>1, <1>5 DEF Effect
  <2>2. held' = Append(held, Held')
    BY <1>5 DEF SenderStep, Told
  <2>3. /\ Len(held') = Len(held) + 1 /\ held'[Len(held) + 1] = Held'
        /\ \A j \in 1 .. Len(held) : held'[j] = held[j]
    <3>1. Held' \in ContentMap /\ held \in Seq(ContentMap)
      BY <1>1, BuilderTypeStep, HeldTypedNext, HeldIsSequence DEF SenderStep, Told
    <3> HIDE DEF Held
    <3> QED  BY <2>2, <3>1, AppendProperties
  <2>4. /\ DOMAIN log' = 1 .. Len(log) + 1 /\ log'[Len(log) + 1] = e
        /\ \A j \in 1 .. Len(log) : log'[j] = log[j]
    BY <1>1, <2>1, LogNext
  <2>5. Tells(top, e, Held')
    BY <1>2, <2>1, TellsFromMore
  <2>6. \A j \in DOMAIN log' : Tells(held'[j], log'[j], held'[j + 1])
    <3> SUFFICES ASSUME NEW j \in 1 .. Len(log) + 1
                 PROVE  Tells(held'[j], log'[j], held'[j + 1])
      BY <2>4
    <3>1. CASE j = Len(log) + 1
      BY <1>3, <2>3, <2>4, <2>5, <3>1
    <3>2. CASE j \in 1 .. Len(log)
      <4>1. held'[j] = held[j] /\ held'[j + 1] = held[j + 1] /\ log'[j] = log[j]
        BY <1>3, <2>3, <2>4, <3>2
      <4> QED  BY <1>3, <3>2, <4>1 DEF EventsTell
    <3> QED  BY <1>3, <3>1, <3>2
  <2>7. \A n \in DOMAIN Held' : n \in DOMAIN held'[Len(held')] /\ held'[Len(held')][n] = msg'[n].content
    BY <2>3, HeldNextFacts
  <2> QED  BY <2>6, <2>7 DEF EventsTell, Tells, Target, IsSnapshot, ContentAfter
<1> QED  BY <1>4, <1>5

\* Steps of the transport and of receivers leave the sender's side alone.
LEMMA ReceiverLeavesSender ==
    ASSUME NEW r \in Receiver, Deliver(r) \/ Lose(r) \/ Redeliver(r) \/ Rejoin(r)
    PROVE  UNCHANGED <<msg, index, finalized, returned, skewed, log, held>>
  BY DEF Deliver, Lose, Redeliver, Rejoin, Fault, builderVars

LEMMA TellsUnchanged ==
    ASSUME EventsTell, SenderIds, UNCHANGED <<msg, skewed, log, held>>
    PROVE  EventsTell' /\ SenderIds'
<1>1. Held' = Held
  BY DEF Held, Open
<1>2. SenderIds'
  BY DEF SenderIds, Open, Target, IsSnapshot
<1>3. \A j \in DOMAIN log' : Tells(held'[j], log'[j], held'[j + 1])
  BY DEF EventsTell
<1>4. \A n \in DOMAIN Held' : n \in DOMAIN held'[Len(held')] /\ held'[Len(held')][n] = msg'[n].content
  BY <1>1 DEF EventsTell
<1>5. EventsTell'
  BY <1>3, <1>4 DEF EventsTell, Tells, Target, IsSnapshot, ContentAfter
<1> QED  BY <1>2, <1>5

----------------------------------------------------------------------------
\* What one event does to a receiver's map.

After(f, e) == IF Raises(f, e) THEN f ELSE ApplyEvent(f, e)

LEMMA AfterFacts ==
    ASSUME NEW f, NEW e, \A n \in DOMAIN f : f[n].id = n,
           IsSnapshot(e) => e.message.id = Target(e)
    PROVE  /\ \A n : n # Target(e) =>
                 /\ n \in DOMAIN After(f, e) <=> n \in DOMAIN f
                 /\ n \in DOMAIN f => After(f, e)[n] = f[n]
           /\ \A n \in DOMAIN After(f, e) : After(f, e)[n].id = n
           /\ IsSnapshot(e) => Target(e) \in DOMAIN After(f, e)
                               /\ After(f, e)[Target(e)] = e.message
<1> DEFINE t == Target(e)
<1>1. CASE IsSnapshot(e)
  <2>1. After(f, e) = Put(f, t, e.message)
    BY <1>1 DEF After, Raises, ApplyEvent, IsSnapshot
  <2> HIDE DEF t
  <2> QED  BY <1>1, <2>1 DEF Put, t
<1>2. CASE ~IsSnapshot(e) /\ (Raises(f, e) \/ t \notin DOMAIN f)
  BY <1>2 DEF After, ApplyEvent
<1>3. CASE ~IsSnapshot(e) /\ ~Raises(f, e) /\ t \in DOMAIN f
  <2> DEFINE new == [f[t] EXCEPT !.content = ContentAfter(@, e)]
  <2>1. After(f, e) = Put(f, t, new)
    BY <1>3 DEF After, ApplyEvent
  <2>2. new.id = t
    BY <1>3
  <2> HIDE DEF new, t
  <2> QED  BY <1>3, <2>1, <2>2 DEF Put, t
<1> QED  BY <1>1, <1>2, <1>3

LEMMA AfterIncrement ==
    ASSUME NEW f, IsMessageMap(f), NEW e, \A n \in DOMAIN f : f[n].id = n,
           ~IsSnapshot(e), Target(e) \in DOMAIN f, ~Raises(f, e)
    PROVE  /\ Target(e) \in DOMAIN After(f, e)
           /\ After(f, e)[Target(e)].content = ContentAfter(f[Target(e)].content, e)
<1> DEFINE t == Target(e)
           new == [f[t] EXCEPT !.content = ContentAfter(@, e)]
<1>1. After(f, e) = Put(f, t, new)
  BY DEF After, ApplyEvent
<1>2. f[t] \in Message
  BY DEF IsMessageMap, IsPartial
<1>3. new.content = ContentAfter(f[t].content, e)
  BY <1>2 DEF Message
<1> HIDE DEF new, t
<1>4. t \in DOMAIN Put(f, t, new) /\ Put(f, t, new)[t] = new
  BY DEF Put
<1> QED  BY <1>1, <1>3, <1>4 DEF t

\* A copy that agrees with what the sender held does not raise on the event
\* the sender emitted there.
LEMMA AgreesNeverRaises ==
    ASSUME NEW f, NEW before, NEW e, NEW after, Tells(before, e, after),
           Target(e) \in DOMAIN after,
           Target(e) \in DOMAIN before => f[Target(e)].content = before[Target(e)]
    PROVE  ~Raises(f, e)
<1>1. ASSUME e.event = "part_updated"  PROVE Target(e) = e.message_id /\ ~IsSnapshot(e)
  BY <1>1 DEF Target, IsSnapshot
<1> QED  BY <1>1 DEF Raises, Tells

\* The patch a copy has already taken changes nothing, and does not raise.
LEMMA UpdatedTwice ==
    ASSUME NEW content \in Seq(Part), NEW e, e.index \in Nat, e.patch \in Dict,
           InRange(content, e.index), Valid(Merge(content[e.index + 1], e.patch)),
           NEW once, once = AfterUpdated(content, e)
    PROVE  /\ AfterUpdated(once, e) = once
           /\ InRange(once, e.index) => Valid(Merge(once[e.index + 1], e.patch))
<1> DEFINE i == e.index + 1
           p == content[i]
           q == Validated(Merge(p, e.patch))
<1>1. i \in 1 .. Len(content) /\ p \in Part
  BY ElementOfSeq, LenProperties DEF InRange
<1>2. Validated(Merge(q, e.patch)) = q /\ Valid(Merge(q, e.patch))
  BY <1>1, PatchIdempotent
<1>3. q \in Part
  BY <1>1, MergeIsDict, ValidatedIsPart DEF Part
<1> HIDE DEF q
<1>4. once = [content EXCEPT ![i] = q]
  BY DEF AfterUpdated, q
<1>5. once \in Seq(Part) /\ Len(once) = Len(content) /\ once[i] = q
  BY <1>1, <1>3, <1>4, ExceptSeq
<1>6. InRange(once, e.index)
  BY <1>5 DEF InRange
<1>7. AfterUpdated(once, e) = [once EXCEPT ![i] = q]
  BY <1>2, <1>5, <1>6 DEF AfterUpdated
<1>8. [once EXCEPT ![i] = q] = once
  BY <1>1, <1>5, LenProperties
<1> QED  BY <1>2, <1>5, <1>7, <1>8

----------------------------------------------------------------------------
\* Outside the gap, the copy f holds the contents the senders held.
Synced(f, truth, missed) ==
    \A m \in DOMAIN truth \ missed : m \in DOMAIN f /\ f[m].content = truth[m]

LEMMA SyncDelivered ==
    ASSUME NEW f, IsMessageMap(f), \A n \in DOMAIN f : f[n].id = n,
           NEW e, IsSnapshot(e) => e.message.id = Target(e),
           NEW before, NEW after, Tells(before, e, after),
           NEW missed, Synced(f, before, missed)
    PROVE  Synced(After(f, e), after, Healed(missed, e))
<1> SUFFICES ASSUME NEW m \in DOMAIN after, m \notin Healed(missed, e)
             PROVE  m \in DOMAIN After(f, e) /\ After(f, e)[m].content = after[m]
  BY DEF Synced
<1>1. CASE m # Target(e)
  <2>1. m \notin missed /\ m \in DOMAIN before /\ after[m] = before[m]
    BY <1>1 DEF Healed, Tells
  <2>2. m \in DOMAIN f /\ f[m].content = before[m]
    BY <2>1 DEF Synced
  <2> QED  BY <1>1, <2>1, <2>2, AfterFacts
<1>2. CASE m = Target(e) /\ IsSnapshot(e)
  <2>1. e.message.content = after[m]
    BY <1>2 DEF Tells
  <2> QED  BY <1>2, <2>1, AfterFacts
<1>3. CASE m = Target(e) /\ ~IsSnapshot(e)
  <2>1. m \notin missed /\ m \in DOMAIN before /\ after[m] = ContentAfter(before[m], e)
    BY <1>3 DEF Healed, Tells
  <2>2. m \in DOMAIN f /\ f[m].content = before[m]
    BY <2>1 DEF Synced
  <2>3. ~Raises(f, e)
    BY <1>3, <2>2, AgreesNeverRaises
  <2> QED  BY <1>3, <2>1, <2>2, <2>3, AfterIncrement
<1> QED  BY <1>1, <1>2, <1>3

LEMMA SyncLost ==
    ASSUME NEW f, NEW e, NEW before, NEW after, Tells(before, e, after),
           NEW missed, Synced(f, before, missed)
    PROVE  Synced(f, after, missed \cup {Target(e)})
  BY DEF Synced, Tells

LEMMA SyncRedelivered ==
    ASSUME NEW f, IsMessageMap(f), \A n \in DOMAIN f : f[n].id = n,
           NEW e \in Event, IsSnapshot(e) => e.message.id = Target(e),
           NEW before \in ContentMap, NEW after, Tells(before, e, after),
           NEW missed, Synced(f, after, missed)
    PROVE  Synced(After(f, e), after,
                  IF e.event \in {"part_appended", "token_delta"}
                  THEN missed \cup {Target(e)} ELSE Healed(missed, e))
<1> DEFINE now == IF e.event \in {"part_appended", "token_delta"}
                  THEN missed \cup {Target(e)} ELSE Healed(missed, e)
<1> SUFFICES ASSUME NEW m \in DOMAIN after, m \notin now
             PROVE  m \in DOMAIN After(f, e) /\ After(f, e)[m].content = after[m]
  BY DEF Synced
<1>1. CASE m # Target(e)
  <2>1. m \notin missed
    BY <1>1 DEF Healed
  <2>2. m \in DOMAIN f /\ f[m].content = after[m]
    BY <2>1 DEF Synced
  <2> QED  BY <1>1, <2>2, AfterFacts
<1>2. CASE m = Target(e) /\ IsSnapshot(e)
  <2>1. e.message.content = after[m]
    BY <1>2 DEF Tells
  <2> QED  BY <1>2, <2>1, AfterFacts
<1>3. CASE m = Target(e) /\ ~IsSnapshot(e)
  <2>1. e.event = "part_updated" /\ e.index \in Nat /\ e.patch \in Dict
    BY <1>3, IncrementTyped
  <2>2. m \notin missed
    BY <1>3, <2>1 DEF Healed
  <2>3. m \in DOMAIN f /\ f[m].content = after[m]
    BY <2>2 DEF Synced
  <2>4. /\ m \in DOMAIN before /\ InRange(before[m], e.index)
        /\ Valid(Merge(before[m][e.index + 1], e.patch))
        /\ after[m] = AfterUpdated(before[m], e)
    BY <1>3, <2>1 DEF Tells, ContentAfter
  <2>5. before[m] \in Seq(Part)
    BY <2>4, ContentMapPartial DEF IsPartial
  <2>6. /\ AfterUpdated(after[m], e) = after[m]
        /\ InRange(after[m], e.index) => Valid(Merge(after[m][e.index + 1], e.patch))
    BY <2>1, <2>4, <2>5, UpdatedTwice
  <2>7. e.message_id = m
    BY <1>3 DEF Target, IsSnapshot
  <2>8. ~Raises(f, e)
    BY <2>3, <2>6, <2>7 DEF Raises
  <2>9. ContentAfter(after[m], e) = after[m]
    BY <2>1, <2>6 DEF ContentAfter
  <2> QED  BY <1>3, <2>3, <2>8, <2>9, AfterIncrement
<1> QED  BY <1>1, <1>2, <1>3

----------------------------------------------------------------------------
\* The inductive invariant.
SyncInv == StreamTypeOK /\ SenderIds /\ ReceiverIds /\ EventsTell /\ InSync

LEMMA SyncInit == StreamInit => SyncInv
<1> SUFFICES ASSUME StreamInit  PROVE SyncInv
  OBVIOUS
<1>1. StreamTypeOK
  BY StreamTypeInit
<1>2. /\ log = <<>> /\ held = <<NoMessages>> /\ Held = NoMessages
      /\ msg = [m \in MessageId |-> None]
  BY DEF StreamInit, BuilderInit, Held, Open, NoMessages
<1>3. SenderIds
  BY <1>2 DEF SenderIds, Open
<1>4. EventsTell
  BY <1>2 DEF EventsTell, NoMessages
<1>5. ReceiverIds
  BY DEF StreamInit, ReceiverIds, NoMessages
<1>6. InSync
  BY <1>2 DEF StreamInit, InSync, NoMessages
<1> QED  BY <1>1, <1>3, <1>4, <1>5, <1>6 DEF SyncInv

\* The event a receiver is about to get, or got last, tells what happened
\* between the two moments of the senders it lies between.
LEMMA CursorFacts ==
    ASSUME SyncInv, NEW j \in 1 .. Len(log)
    PROVE  /\ log[j] \in Event /\ Target(log[j]) \in MessageId
           /\ IsSnapshot(log[j]) => log[j].message.id = Target(log[j])
           /\ held[j] \in ContentMap
           /\ Tells(held[j], log[j], held[j + 1])
<1>1. Len(log) \in Nat /\ DOMAIN log = 1 .. Len(log) /\ StreamTypeOK
  BY HeldIsSequence, LenProperties DEF SyncInv
<1>2. held[j] \in ContentMap
  BY <1>1, HeldIsSequence, ElementOfSeq
<1> QED  BY <1>1, <1>2, LogElement DEF SyncInv, EventsTell, SenderIds

\* A receiver step of r needs only be looked at for r.
LEMMA OneReceiver ==
    ASSUME SyncInv, NEW r \in Receiver, StreamTypeOK',
           UNCHANGED <<msg, skewed, log, held>>,
           \A q \in Receiver \ {r} :
               recv'[q] = recv[q] /\ cursor'[q] = cursor[q] /\ gap'[q] = gap[q],
           \A n \in DOMAIN recv'[r] : recv'[r][n].id = n,
           Synced(recv'[r], held[cursor'[r] + 1], gap'[r])
    PROVE  SyncInv'
<1>1. EventsTell' /\ SenderIds'
  BY TellsUnchanged DEF SyncInv
<1>2. ReceiverIds'
  BY DEF SyncInv, ReceiverIds
<1>3. InSync'
  BY DEF SyncInv, InSync, Synced
<1> QED  BY <1>1, <1>2, <1>3 DEF SyncInv

\* What r receives happens to its map only.
LEMMA ReceiveFacts ==
    ASSUME SyncInv, NEW r \in Receiver, NEW e, Receive(r, e)
    PROVE  /\ recv'[r] = After(recv[r], e)
           /\ \A q \in Receiver \ {r} : recv'[q] = recv[q]
  BY DEF SyncInv, StreamTypeOK, Receive, After

LEMMA DeliverSync ==
    ASSUME SyncInv, NEW r \in Receiver, Deliver(r)
    PROVE  SyncInv'
<1> DEFINE j == cursor[r] + 1
           e == log[j]
<1>1. j \in 1 .. Len(log) /\ cursor[r] \in Nat
  BY HeldIsSequence DEF SyncInv, StreamTypeOK, Deliver
<1>2. /\ IsMessageMap(recv[r]) /\ \A n \in DOMAIN recv[r] : recv[r][n].id = n
      /\ IsSnapshot(e) => e.message.id = Target(e)
      /\ Tells(held[j], e, held[j + 1])
      /\ Synced(recv[r], held[j], gap[r])
  BY <1>1, CursorFacts DEF SyncInv, StreamTypeOK, ReceiverIds, InSync, Synced
<1>3. Receive(r, e) /\ gap' = [gap EXCEPT ![r] = Healed(@, e)] /\ cursor' = [cursor EXCEPT ![r] = @ + 1]
  BY DEF Deliver
<1>4. recv'[r] = After(recv[r], e) /\ gap'[r] = Healed(gap[r], e) /\ cursor'[r] + 1 = j + 1
  BY <1>1, <1>3, ReceiveFacts DEF SyncInv, StreamTypeOK
<1>5. \A q \in Receiver \ {r} :
         recv'[q] = recv[q] /\ cursor'[q] = cursor[q] /\ gap'[q] = gap[q]
  BY <1>3, ReceiveFacts DEF SyncInv, StreamTypeOK
<1>6. StreamTypeOK' /\ UNCHANGED <<msg, skewed, log, held>>
  BY DeliverTyped, ReceiverLeavesSender DEF SyncInv
<1> HIDE DEF e, j
<1>7. Synced(recv'[r], held[cursor'[r] + 1], gap'[r])
  BY <1>2, <1>4, SyncDelivered
<1>8. \A n \in DOMAIN recv'[r] : recv'[r][n].id = n
  BY <1>2, <1>4, AfterFacts
<1> QED  BY <1>5, <1>6, <1>7, <1>8, OneReceiver

LEMMA LoseSync ==
    ASSUME SyncInv, NEW r \in Receiver, Lose(r)
    PROVE  SyncInv'
<1> DEFINE j == cursor[r] + 1
           e == log[j]
<1>1. j \in 1 .. Len(log) /\ cursor[r] \in Nat
  BY HeldIsSequence DEF SyncInv, StreamTypeOK, Lose
<1>2. Tells(held[j], e, held[j + 1]) /\ Synced(recv[r], held[j], gap[r])
  BY <1>1, CursorFacts DEF SyncInv, InSync, Synced
<1>3. /\ recv' = recv /\ cursor' = [cursor EXCEPT ![r] = @ + 1]
      /\ gap' = [gap EXCEPT ![r] = @ \cup {Target(e)}]
  BY DEF Lose
<1>4. gap'[r] = gap[r] \cup {Target(e)} /\ cursor'[r] + 1 = j + 1
  BY <1>1, <1>3 DEF SyncInv, StreamTypeOK
<1>5. \A q \in Receiver \ {r} :
         recv'[q] = recv[q] /\ cursor'[q] = cursor[q] /\ gap'[q] = gap[q]
  BY <1>3 DEF SyncInv, StreamTypeOK
<1>6. StreamTypeOK' /\ UNCHANGED <<msg, skewed, log, held>>
  BY LoseTyped, ReceiverLeavesSender DEF SyncInv
<1> HIDE DEF e, j
<1>7. Synced(recv'[r], held[cursor'[r] + 1], gap'[r])
  BY <1>2, <1>3, <1>4, SyncLost
<1>8. \A n \in DOMAIN recv'[r] : recv'[r][n].id = n
  BY <1>3 DEF SyncInv, ReceiverIds
<1> QED  BY <1>5, <1>6, <1>7, <1>8, OneReceiver

LEMMA RedeliverSync ==
    ASSUME SyncInv, NEW r \in Receiver, Redeliver(r)
    PROVE  SyncInv'
<1> DEFINE j == cursor[r]
           e == log[j]
           missed == IF e.event \in {"part_appended", "token_delta"}
                     THEN gap[r] \cup {Target(e)} ELSE Healed(gap[r], e)
<1>1. j \in 1 .. Len(log)
  BY HeldIsSequence DEF SyncInv, StreamTypeOK, Redeliver
<1>2. /\ IsMessageMap(recv[r]) /\ \A n \in DOMAIN recv[r] : recv[r][n].id = n
      /\ e \in Event /\ (IsSnapshot(e) => e.message.id = Target(e))
      /\ held[j] \in ContentMap /\ Tells(held[j], e, held[j + 1])
      /\ Synced(recv[r], held[j + 1], gap[r])
  BY <1>1, CursorFacts DEF SyncInv, StreamTypeOK, ReceiverIds, InSync, Synced
<1>3. Receive(r, e) /\ gap' = [gap EXCEPT ![r] = missed] /\ cursor' = cursor
  BY DEF Redeliver
<1>4. recv'[r] = After(recv[r], e) /\ gap'[r] = missed /\ cursor'[r] + 1 = j + 1
  BY <1>3, ReceiveFacts DEF SyncInv, StreamTypeOK
<1>5. \A q \in Receiver \ {r} :
         recv'[q] = recv[q] /\ cursor'[q] = cursor[q] /\ gap'[q] = gap[q]
  BY <1>3, ReceiveFacts DEF SyncInv, StreamTypeOK
<1>6. StreamTypeOK' /\ UNCHANGED <<msg, skewed, log, held>>
  BY RedeliverTyped, ReceiverLeavesSender DEF SyncInv
<1>7. Synced(recv'[r], held[cursor'[r] + 1], gap'[r])
  <2>1. Synced(After(recv[r], e), held[j + 1], missed)
    BY <1>2, SyncRedelivered
  <2> HIDE DEF e, j, missed
  <2> QED  BY <1>4, <2>1
<1>8. \A n \in DOMAIN recv'[r] : recv'[r][n].id = n
  BY <1>2, <1>4, AfterFacts
<1> QED  BY <1>5, <1>6, <1>7, <1>8, OneReceiver

LEMMA RejoinSync ==
    ASSUME SyncInv, NEW r \in Receiver, Rejoin(r)
    PROVE  SyncInv'
<1>1. recv'[r] = NoMessages /\ cursor'[r] = Len(log) /\ gap'[r] = MessageId
  BY DEF SyncInv, StreamTypeOK, Rejoin
<1>2. \A q \in Receiver \ {r} :
         recv'[q] = recv[q] /\ cursor'[q] = cursor[q] /\ gap'[q] = gap[q]
  BY DEF SyncInv, StreamTypeOK, Rejoin
<1>3. StreamTypeOK' /\ UNCHANGED <<msg, skewed, log, held>>
  BY RejoinTyped, ReceiverLeavesSender DEF SyncInv
<1>4. held[Len(log) + 1] \in ContentMap
  BY HeldIsSequence, ElementOfSeq DEF SyncInv
<1>5. Synced(recv'[r], held[cursor'[r] + 1], gap'[r])
  BY <1>1, <1>4, ContentMapPartial DEF Synced, IsPartial
<1>6. \A n \in DOMAIN recv'[r] : recv'[r][n].id = n
  BY <1>1 DEF NoMessages
<1> QED  BY <1>2, <1>3, <1>5, <1>6, OneReceiver

\* What the senders held is not revised.
LEMMA HeldStays ==
    ASSUME StreamTypeOK, StreamTypeOK', SenderStep
    PROVE  /\ \A j \in 1 .. Len(held) : held'[j] = held[j]
           /\ \A r \in Receiver :
                 cursor[r] + 1 \in 1 .. Len(held) /\ held'[cursor[r] + 1] = held[cursor[r] + 1]
<1>1. \A j \in 1 .. Len(held) : held'[j] = held[j]
  <2>1. held \in Seq(ContentMap) /\ Held' \in ContentMap
    BY HeldIsSequence, HeldTypedNext DEF StreamTypeOK
  <2> HIDE DEF Held
  <2>2. held' = held \/ held' = Append(held, Held')
    BY DEF SenderStep, Told
  <2> QED  BY <2>1, <2>2, AppendProperties
<1>2. Len(held) = Len(log) + 1 /\ Len(log) \in Nat
  BY HeldIsSequence
<1>3. \A r \in Receiver : cursor[r] \in Nat /\ cursor[r] <= Len(log)
  BY DEF StreamTypeOK
<1> QED  BY <1>1, <1>2, <1>3

LEMMA SenderSync ==
    ASSUME SyncInv, SenderStep
    PROVE  SyncInv'
<1>1. StreamTypeOK' /\ SenderIds' /\ EventsTell'
  BY SenderTyped, BuilderIds, SenderTells DEF SyncInv, SenderStep, Told, StreamTypeOK
<1>2. recv' = recv /\ cursor' = cursor /\ gap' = gap
  BY DEF SenderStep, Told, receiverVars
<1>3. \A r \in Receiver : held'[cursor[r] + 1] = held[cursor[r] + 1]
  BY <1>1, HeldStays DEF SyncInv
<1>4. InSync'
  BY <1>2, <1>3 DEF SyncInv, InSync
<1>5. ReceiverIds'
  BY <1>2 DEF SyncInv, ReceiverIds
<1> QED  BY <1>1, <1>4, <1>5 DEF SyncInv

LEMMA SyncStep ==
    ASSUME SyncInv, [StreamNext]_streamVars
    PROVE  SyncInv'
<1>1. CASE Idle
  <2>1. StreamTypeOK'
    BY StreamTypeStep DEF SyncInv
  <2>2. UNCHANGED <<msg, skewed, log, held>> /\ recv' = recv /\ cursor' = cursor /\ gap' = gap
    BY <1>1 DEF Idle, receiverVars
  <2>3. EventsTell' /\ SenderIds'
    BY <2>2, TellsUnchanged DEF SyncInv
  <2>4. InSync' /\ ReceiverIds'
    BY <2>2 DEF SyncInv, InSync, ReceiverIds
  <2> QED  BY <2>1, <2>3, <2>4 DEF SyncInv
<1>2. CASE SenderStep
  BY <1>2, SenderSync
<1>3. ASSUME NEW r \in Receiver, Deliver(r)  PROVE SyncInv'
  BY <1>3, DeliverSync
<1>4. ASSUME NEW r \in Receiver, Lose(r)  PROVE SyncInv'
  BY <1>4, LoseSync
<1>5. ASSUME NEW r \in Receiver, Redeliver(r)  PROVE SyncInv'
  BY <1>5, RedeliverSync
<1>6. ASSUME NEW r \in Receiver, Rejoin(r)  PROVE SyncInv'
  BY <1>6, RejoinSync
<1> QED  BY <1>1, <1>2, <1>3, <1>4, <1>5, <1>6, StreamSteps DEF SyncInv

LEMMA SyncAlways == StreamSpec => []SyncInv
<1>1. SyncInv /\ [StreamNext]_streamVars => SyncInv'
  BY SyncStep
<1> QED  BY SyncInit, <1>1, PTL DEF StreamSpec

\* For any parts, patches, messages, receivers and faults: the event a builder
\* emits tells exactly the change it made, which it computes by another code
\* path (streaming.py:175, 371 against events.py:134-156).
THEOREM SenderTellsTruth == StreamSpec => []EventsTell
<1>1. SyncInv => EventsTell
  BY DEF SyncInv
<1> QED  BY SyncAlways, <1>1, PTL

\* For any number of senders, receivers and faults: outside its gap a receiver
\* holds what the sender held when it emitted the last event delivered.
THEOREM ReceiversInSync == StreamSpec => []InSync
<1>1. SyncInv => InSync
  BY DEF SyncInv
<1> QED  BY SyncAlways, <1>1, PTL

\* The reducer never raises in a receiver that missed nothing.
THEOREM ReducerNeverRaises == StreamSpec => []NeverRaises
<1>1. SyncInv => NeverRaises
  <2> SUFFICES ASSUME SyncInv, NEW r \in Receiver, cursor[r] < Len(log),
                      Target(log[cursor[r] + 1]) \in DOMAIN held[cursor[r] + 2] \ gap[r]
               PROVE  ~Raises(recv[r], log[cursor[r] + 1])
    BY DEF NeverRaises
  <2> DEFINE j == cursor[r] + 1
  <2>1. j \in 1 .. Len(log) /\ cursor[r] + 2 = j + 1
    BY HeldIsSequence DEF SyncInv, StreamTypeOK
  <2>2. Tells(held[j], log[j], held[j + 1])
    BY <2>1, CursorFacts
  <2>3. Target(log[j]) \in DOMAIN held[j] =>
           recv[r][Target(log[j])].content = held[j][Target(log[j])]
    BY DEF SyncInv, InSync
  <2> QED  BY <2>1, <2>2, <2>3, AgreesNeverRaises
<1> QED  BY SyncAlways, <1>1, PTL

----------------------------------------------------------------------------
\* What a receiver ends with.  Once a message is finalized its final event stays
\* the last one about it, as nobody edits it any more, and a receiver keeps the last
\* snapshot it has seen of a message, meta included, until another event about that
\* message comes.

\* Event j of the log is the last one about m, of the events up to k.
LastAbout(m, j, k) == Target(log[j]) = m /\ \A i \in j + 1 .. k : Target(log[i]) # m

\* A finalized message is open, and the last event about it is its final one.
FinalIsLast ==
    \A m \in MessageId : finalized[m] =>
        /\ Open(m)
        /\ \E j \in 1 .. Len(log) :
              log[j].event = "message_finalized" /\ LastAbout(m, j, Len(log))

\* A snapshot is what the receiver holds until the next event of its message.
SnapshotKept ==
    \A r \in Receiver, m \in MessageId : m \notin gap[r] =>
        \A j \in 1 .. cursor[r] :
            IsSnapshot(log[j]) /\ LastAbout(m, j, cursor[r]) =>
                m \in DOMAIN recv[r] /\ recv[r][m] = log[j].message

FinalInv == SyncInv /\ FinalIsLast /\ SnapshotKept

----------------------------------------------------------------------------
\* The sender: a step that may emit an event about m, which is not finalized
\* after it, leaves the last events of the others alone.
LEMMA OthersStayLast ==
    ASSUME BuilderTypeOK, FinalIsLast, NEW m \in MessageId, NEW e, Target(e) = m,
           log' = log \/ log' = Append(log, e),
           \A n \in MessageId \ {m} : finalized'[n] => finalized[n] /\ (Open(n) => msg'[n] # None),
           ~finalized'[m]
    PROVE  FinalIsLast'
<1> SUFFICES ASSUME NEW n \in MessageId, finalized'[n]
             PROVE  /\ Open(n)'
                    /\ \E j \in 1 .. Len(log') :
                          log'[j].event = "message_finalized" /\ LastAbout(n, j, Len(log))'
  BY DEF FinalIsLast
<1>1. n # m /\ finalized[n] /\ Open(n) /\ Open(n)'
  BY DEF FinalIsLast, Open
<1>2. PICK j \in 1 .. Len(log) :
          log[j].event = "message_finalized" /\ LastAbout(n, j, Len(log))
  BY <1>1 DEF FinalIsLast
<1>3. CASE log' = log
  BY <1>1, <1>2, <1>3 DEF LastAbout, Target
<1>4. CASE log' = Append(log, e)
  <2>1. /\ Len(log) \in Nat /\ Len(log') = Len(log) + 1 /\ log'[Len(log) + 1] = e
        /\ \A i \in 1 .. Len(log) : log'[i] = log[i]
    BY <1>4, LogNext
  <2>2. \A i \in j + 1 .. Len(log') : Target(log'[i]) # n
    <3> SUFFICES ASSUME NEW i \in j + 1 .. Len(log')  PROVE Target(log'[i]) # n
      OBVIOUS
    <3>1. CASE i = Len(log) + 1
      BY <1>1, <2>1, <3>1
    <3>2. CASE i \in j + 1 .. Len(log)
      BY <1>2, <2>1, <3>2 DEF LastAbout
    <3> QED  BY <2>1, <3>1, <3>2
  <2>3. j \in 1 .. Len(log') /\ log'[j] = log[j]
    BY <2>1
  <2>4. log'[j].event = "message_finalized" /\ Target(log'[j]) = n
    BY <1>2, <2>3 DEF LastAbout
  <2> QED  BY <1>1, <2>2, <2>3, <2>4 DEF LastAbout, Target
<1> QED  BY <1>3, <1>4

LEMMA EditFinal ==
    ASSUME BuilderTypeOK, FinalIsLast, ~LateEdits, NEW m \in MessageId, Editable(m),
           NEW content, NEW e, Target(e) = m, NEW outcome, Edit(m, content, e, outcome)
    PROVE  FinalIsLast'
<1>1. ~finalized'[m] /\ finalized' = finalized
  BY DEF Editable, Edit
<1>2. log' = log \/ log' = Append(log, e)
  BY DEF Edit, Emit
<1>3. \A n \in MessageId \ {m} : msg'[n] = msg[n]
  BY DEF Edit, BuilderTypeOK
<1> QED  BY <1>1, <1>2, <1>3, OthersStayLast DEF Open

LEMMA StartFinal ==
    ASSUME BuilderTypeOK, FinalIsLast, NEW m \in MessageId, NEW meta, NEW outcome,
           Start(m, meta, outcome)
    PROVE  FinalIsLast'
<1> DEFINE e == Started(NewMessage(m, meta))
<1>1. Target(e) = m
  BY StartedShape DEF NewMessage
<1>2. ~finalized'[m] /\ finalized' = finalized
  BY DEF Start, FinalIsLast
<1>3. log' = log \/ log' = Append(log, e)
  BY DEF Start, Emit
<1>4. \A n \in MessageId \ {m} : msg'[n] = msg[n]
  BY DEF Start, BuilderTypeOK
<1> HIDE DEF e
<1> QED  BY <1>1, <1>2, <1>3, <1>4, OthersStayLast DEF Open

LEMMA RestartFinal ==
    ASSUME BuilderTypeOK, FinalIsLast, NEW m \in MessageId, NEW meta, Restart(m, meta)
    PROVE  FinalIsLast'
<1> DEFINE e == Started(NewMessage(m, meta))
<1>1. Target(e) = m
  BY StartedShape DEF NewMessage
<1>2. ~finalized'[m] /\ \A n \in MessageId \ {m} : finalized'[n] = finalized[n] /\ msg'[n] = msg[n]
  BY DEF Restart, BuilderTypeOK
<1>3. log' = Append(log, e)
  BY DEF Restart
<1> HIDE DEF e
<1> QED  BY <1>1, <1>2, <1>3, OthersStayLast DEF Open

LEMMA FinalizeFinal ==
    ASSUME BuilderTypeOK, FinalIsLast, NEW m \in MessageId, NEW outcome, Finalize(m, outcome)
    PROVE  FinalIsLast'
<1> DEFINE e == Finalized(m, msg[m])
<1>1. Target(e) = m /\ e.event = "message_finalized"
  BY FinalizedShape DEF Finalized
<1>2. log' = Append(log, e) /\ msg' = msg /\ Open(m)
  BY DEF Finalize, Emit
<1>3. \A n \in MessageId \ {m} : finalized'[n] = finalized[n]
  BY DEF Finalize, BuilderTypeOK
<1> HIDE DEF e
<1>4. CASE ~finalized'[m]
  BY <1>1, <1>2, <1>3, <1>4, OthersStayLast DEF Open
<1>5. CASE finalized'[m]
  <2>1. /\ Len(log) \in Nat /\ Len(log') = Len(log) + 1 /\ log'[Len(log) + 1] = e
        /\ \A i \in 1 .. Len(log) : log'[i] = log[i]
    BY <1>2, LogNext
  <2> SUFFICES ASSUME NEW n \in MessageId, finalized'[n]
               PROVE  /\ Open(n)'
                      /\ \E j \in 1 .. Len(log') :
                            log'[j].event = "message_finalized" /\ LastAbout(n, j, Len(log))'
    BY DEF FinalIsLast
  <2>2. CASE n = m
    <3> DEFINE k == Len(log')
    <3>1. k \in 1 .. Len(log') /\ log'[k] = e /\ k + 1 .. Len(log') = {}
      BY <2>1
    <3>2. Open(n)' /\ log'[k].event = "message_finalized" /\ Target(log'[k]) = n
      BY <1>1, <1>2, <2>2, <3>1 DEF Open
    <3> QED  BY <3>1, <3>2 DEF LastAbout, Target
  <2>3. CASE n # m
    <3>1. finalized[n] /\ Open(n) /\ Open(n)'
      BY <1>2, <1>3, <2>3 DEF FinalIsLast, Open
    <3>2. PICK j \in 1 .. Len(log) :
              log[j].event = "message_finalized" /\ LastAbout(n, j, Len(log))
      BY <3>1 DEF FinalIsLast
    <3>3. j \in 1 .. Len(log') /\ log'[j] = log[j]
      BY <2>1
    <3>4. \A i \in j + 1 .. Len(log') : Target(log'[i]) # n
      BY <1>1, <2>1, <2>3, <3>2 DEF LastAbout
    <3>5. log'[j].event = "message_finalized" /\ Target(log'[j]) = n
      BY <3>2, <3>3 DEF LastAbout
    <3> QED  BY <3>1, <3>3, <3>4, <3>5 DEF LastAbout, Target
  <2> QED  BY <2>2, <2>3
<1> QED  BY <1>4, <1>5

LEMMA QuietFinal ==
    ASSUME FinalIsLast, log' = log, finalized' = finalized,
           \A n \in MessageId : Open(n) => msg'[n] # None
    PROVE  FinalIsLast'
<1> SUFFICES ASSUME NEW n \in MessageId, finalized'[n]
             PROVE  /\ Open(n)'
                    /\ \E j \in 1 .. Len(log') :
                          log'[j].event = "message_finalized" /\ LastAbout(n, j, Len(log))'
  BY DEF FinalIsLast
<1>1. Open(n) /\ Open(n)'
  BY DEF FinalIsLast, Open
<1> QED  BY <1>1 DEF FinalIsLast, LastAbout, Target

LEMMA SetMetaFinal ==
    ASSUME BuilderTypeOK, FinalIsLast, ~LateEdits, NEW m \in MessageId, NEW namespace,
           NEW values, SetMeta(m, namespace, values)
    PROVE  FinalIsLast'
<1> DEFINE e == Finalized(m, None)
<1>1. Target(e) = m
  BY FinalizedShape
<1>2. ~finalized'[m] /\ finalized' = finalized /\ log' = log
  BY DEF SetMeta, Editable
<1>3. \A n \in MessageId \ {m} : msg'[n] = msg[n]
  BY DEF SetMeta, BuilderTypeOK
<1> HIDE DEF e
<1> QED  BY <1>1, <1>2, <1>3, OthersStayLast DEF Open

\* With ~LateEdits, a finalized message is not edited.
LEMMA BuilderFinal ==
    ASSUME BuilderTypeOK, FinalIsLast, ~LateEdits, BuilderNext
    PROVE  FinalIsLast'
<1>1. ASSUME NEW m \in MessageId, Restart(m, EmptyMeta)  PROVE FinalIsLast'
  BY <1>1, RestartFinal
<1>2. ASSUME NEW m \in MessageId, FinalizeAgain(m)  PROVE FinalIsLast'
  BY <1>2, QuietFinal DEF FinalizeAgain, Open
<1>3. ASSUME NEW m \in MessageId, NEW namespace \in Namespace, NEW values \in MetaInputs,
             SetMeta(m, namespace, values)
      PROVE  FinalIsLast'
  BY <1>3, SetMetaFinal
<1>4. ASSUME NEW m \in MessageId, NEW outcome \in Outcome, Start(m, EmptyMeta, outcome)
      PROVE  FinalIsLast'
  BY <1>4, StartFinal
<1>5. ASSUME NEW m \in MessageId, NEW outcome \in Outcome, Finalize(m, outcome)
      PROVE  FinalIsLast'
  BY <1>5, FinalizeFinal
<1>6. ASSUME NEW m \in MessageId, NEW outcome \in Outcome, NEW part \in PartInputs,
             AppendPart(m, part, outcome)
      PROVE  FinalIsLast'
  BY <1>6, EditFinal, AppendedShape DEF AppendPart, Push
<1>7. ASSUME NEW m \in MessageId, NEW outcome \in Outcome, NEW kind \in Tracked,
             NEW id \in PartId, NEW meta \in PartMeta \cup {None},
             AddTracked(m, kind, id, meta, outcome)
      PROVE  FinalIsLast'
  BY <1>7, EditFinal, AppendedShape DEF AddTracked, Push
<1>8. ASSUME NEW m \in MessageId, NEW outcome \in Outcome, NEW i \in Indices(m),
             NEW t \in Token, AppendToken(m, i, <<t>>, outcome)
      PROVE  FinalIsLast'
  BY <1>8, EditFinal, DeltaShape DEF AppendToken
<1>9. ASSUME NEW m \in MessageId, NEW outcome \in Outcome, NEW i, NEW patch,
             PatchPart(m, i, patch, outcome)
      PROVE  FinalIsLast'
  BY <1>9, EditFinal, UpdatedShape DEF PatchPart
<1>10. ASSUME NEW m \in MessageId, NEW outcome \in Outcome, NEW kind \in Tracked,
             NEW id \in PartId, NEW status \in StatusInputs,
             NEW metaPatch \in PartMeta \cup {Absent},
             UpdateStatus(m, kind, id, status, metaPatch, outcome)
      PROVE  FinalIsLast'
  BY <1>9, <1>10 DEF UpdateStatus
<1> QED
  BY <1>1, <1>2, <1>3, <1>4, <1>5, <1>6, <1>7, <1>8, <1>9, <1>10 DEF BuilderNext

----------------------------------------------------------------------------
\* The receivers.

\* What r has seen does not change when the log grows.
LEMMA SenderKept ==
    ASSUME SyncInv, SnapshotKept, SenderStep
    PROVE  SnapshotKept'
<1>1. recv' = recv /\ cursor' = cursor /\ gap' = gap
  BY DEF SenderStep, Told, receiverVars
<1>2. \A j \in 1 .. Len(log) : log'[j] = log[j]
  <2>1. log' = log \/ \E e : log' = Append(log, e)
    BY BuilderEffect DEF Effect, SenderStep, Told, SyncInv, StreamTypeOK
  <2> QED  BY <2>1, LogNext DEF SyncInv, StreamTypeOK
<1>3. \A r \in Receiver : cursor[r] \in Nat /\ cursor[r] <= Len(log) /\ Len(log) \in Nat
  BY HeldIsSequence DEF SyncInv, StreamTypeOK
<1> SUFFICES ASSUME NEW r \in Receiver, NEW m \in MessageId, m \notin gap[r],
                    NEW j \in 1 .. cursor[r], IsSnapshot(log[j]),
                    LastAbout(m, j, cursor[r])'
             PROVE  m \in DOMAIN recv[r] /\ recv[r][m] = log[j].message
  <2>1. \A r \in Receiver : \A j \in 1 .. cursor[r] : log'[j] = log[j]
    BY <1>2, <1>3
  <2> QED  BY <1>1, <2>1 DEF SnapshotKept, IsSnapshot
<1>4. \A i \in j .. cursor[r] : log'[i] = log[i]
  BY <1>2, <1>3
<1>5. LastAbout(m, j, cursor[r])
  BY <1>1, <1>3, <1>4 DEF LastAbout, Target
<1> QED  BY <1>5 DEF SnapshotKept

\* One receiver's part of the invariant, for a map f, a place k and a gap.
Keeps(f, k, missed) ==
    \A m \in MessageId \ missed : \A j \in 1 .. k :
        IsSnapshot(log[j]) /\ LastAbout(m, j, k) => m \in DOMAIN f /\ f[m] = log[j].message

\* A receiver step of r needs only be looked at for r.
LEMMA OneKeeper ==
    ASSUME SnapshotKept, NEW r \in Receiver, log' = log,
           \A q \in Receiver \ {r} :
               recv'[q] = recv[q] /\ cursor'[q] = cursor[q] /\ gap'[q] = gap[q],
           Keeps(recv'[r], cursor'[r], gap'[r])
    PROVE  SnapshotKept'
<1> SUFFICES ASSUME NEW q \in Receiver, NEW m \in MessageId, m \notin gap'[q],
                    NEW j \in 1 .. cursor'[q], IsSnapshot(log[j]), LastAbout(m, j, cursor'[q])
             PROVE  m \in DOMAIN recv'[q] /\ recv'[q][m] = log[j].message
  BY DEF SnapshotKept, LastAbout, IsSnapshot, Target
<1>1. CASE q = r
  BY <1>1 DEF Keeps
<1>2. CASE q # r
  BY <1>2 DEF SnapshotKept
<1> QED  BY <1>1, <1>2

LEMMA KeptDelivered ==
    ASSUME NEW f, \A n \in DOMAIN f : f[n].id = n, NEW k \in Nat, NEW missed,
           IsSnapshot(log[k + 1]) => log[k + 1].message.id = Target(log[k + 1]),
           Keeps(f, k, missed)
    PROVE  Keeps(After(f, log[k + 1]), k + 1, Healed(missed, log[k + 1]))
<1> DEFINE e == log[k + 1]
<1> SUFFICES ASSUME NEW m \in MessageId, m \notin Healed(missed, e), NEW j \in 1 .. k + 1,
                    IsSnapshot(log[j]), LastAbout(m, j, k + 1)
             PROVE  m \in DOMAIN After(f, e) /\ After(f, e)[m] = log[j].message
  BY DEF Keeps
<1>1. CASE j = k + 1
  BY <1>1, AfterFacts DEF LastAbout
<1>2. CASE j # k + 1
  <2>1. j \in 1 .. k /\ Target(e) # m /\ LastAbout(m, j, k)
    BY <1>2 DEF LastAbout
  <2>2. m \in DOMAIN f /\ f[m] = log[j].message
    BY <2>1 DEF Keeps, Healed
  <2> HIDE DEF e
  <2> QED  BY <2>1, <2>2, AfterFacts DEF e
<1> QED  BY <1>1, <1>2

LEMMA DeliverKept ==
    ASSUME SyncInv, SnapshotKept, NEW r \in Receiver, Deliver(r)
    PROVE  SnapshotKept'
<1> DEFINE k == cursor[r]
           e == log[k + 1]
<1>1. k \in Nat /\ k + 1 \in 1 .. Len(log)
  BY HeldIsSequence DEF SyncInv, StreamTypeOK, Deliver
<1>2. /\ \A n \in DOMAIN recv[r] : recv[r][n].id = n
      /\ IsSnapshot(e) => e.message.id = Target(e)
      /\ Keeps(recv[r], k, gap[r])
  BY <1>1, CursorFacts DEF SyncInv, ReceiverIds, SnapshotKept, Keeps
<1>3. Receive(r, e) /\ gap' = [gap EXCEPT ![r] = Healed(@, e)] /\ cursor' = [cursor EXCEPT ![r] = @ + 1]
  BY DEF Deliver
<1>4. recv'[r] = After(recv[r], e) /\ gap'[r] = Healed(gap[r], e) /\ cursor'[r] = k + 1
  BY <1>3, ReceiveFacts DEF SyncInv, StreamTypeOK
<1>5. \A q \in Receiver \ {r} :
         recv'[q] = recv[q] /\ cursor'[q] = cursor[q] /\ gap'[q] = gap[q]
  BY <1>3, ReceiveFacts DEF SyncInv, StreamTypeOK
<1>6. log' = log
  BY ReceiverLeavesSender
<1>7. Keeps(After(recv[r], e), k + 1, Healed(gap[r], e))
  BY <1>1, <1>2, KeptDelivered
<1> HIDE DEF e, k
<1> QED  BY <1>4, <1>5, <1>6, <1>7, OneKeeper

LEMMA LoseKept ==
    ASSUME SyncInv, SnapshotKept, NEW r \in Receiver, Lose(r)
    PROVE  SnapshotKept'
<1> DEFINE k == cursor[r]
           e == log[k + 1]
<1>1. k \in Nat /\ Keeps(recv[r], k, gap[r])
  BY DEF SyncInv, StreamTypeOK, SnapshotKept, Keeps
<1>2. /\ recv' = recv /\ cursor' = [cursor EXCEPT ![r] = @ + 1]
      /\ gap' = [gap EXCEPT ![r] = @ \cup {Target(e)}]
  BY DEF Lose
<1>3. gap'[r] = gap[r] \cup {Target(e)} /\ cursor'[r] = k + 1
  BY <1>2 DEF SyncInv, StreamTypeOK
<1>4. \A q \in Receiver \ {r} :
         recv'[q] = recv[q] /\ cursor'[q] = cursor[q] /\ gap'[q] = gap[q]
  BY <1>2 DEF SyncInv, StreamTypeOK
<1>5. log' = log
  BY ReceiverLeavesSender
<1>6. Keeps(recv[r], k + 1, gap[r] \cup {Target(e)})
  <2> SUFFICES ASSUME NEW m \in MessageId, m \notin gap[r], m # Target(e),
                      NEW j \in 1 .. k + 1, IsSnapshot(log[j]), LastAbout(m, j, k + 1)
               PROVE  m \in DOMAIN recv[r] /\ recv[r][m] = log[j].message
    BY DEF Keeps
  <2>1. j \in 1 .. k /\ LastAbout(m, j, k)
    BY <1>1 DEF LastAbout
  <2> QED  BY <1>1, <2>1 DEF Keeps
<1> HIDE DEF e, k
<1> QED  BY <1>2, <1>3, <1>4, <1>5, <1>6, OneKeeper

LEMMA RedeliverKept ==
    ASSUME SyncInv, SnapshotKept, NEW r \in Receiver, Redeliver(r)
    PROVE  SnapshotKept'
<1> DEFINE k == cursor[r]
           e == log[k]
           missed == IF e.event \in {"part_appended", "token_delta"}
                     THEN gap[r] \cup {Target(e)} ELSE Healed(gap[r], e)
<1>1. k \in 1 .. Len(log) /\ Len(log) \in Nat
  BY HeldIsSequence DEF SyncInv, StreamTypeOK, Redeliver
<1>2. /\ \A n \in DOMAIN recv[r] : recv[r][n].id = n
      /\ IsSnapshot(e) => e.message.id = Target(e)
      /\ Keeps(recv[r], k, gap[r])
  BY <1>1, CursorFacts DEF SyncInv, ReceiverIds, SnapshotKept, Keeps
<1>3. Receive(r, e) /\ gap' = [gap EXCEPT ![r] = missed] /\ cursor' = cursor
  BY DEF Redeliver
<1>4. recv'[r] = After(recv[r], e) /\ gap'[r] = missed /\ cursor'[r] = k
  BY <1>3, ReceiveFacts DEF SyncInv, StreamTypeOK
<1>5. \A q \in Receiver \ {r} :
         recv'[q] = recv[q] /\ cursor'[q] = cursor[q] /\ gap'[q] = gap[q]
  BY <1>3, ReceiveFacts DEF SyncInv, StreamTypeOK
<1>6. log' = log
  BY ReceiverLeavesSender
<1>7. Keeps(After(recv[r], e), k, missed)
  <2> SUFFICES ASSUME NEW m \in MessageId, m \notin missed, NEW j \in 1 .. k,
                      IsSnapshot(log[j]), LastAbout(m, j, k)
               PROVE  m \in DOMAIN After(recv[r], e) /\ After(recv[r], e)[m] = log[j].message
    BY DEF Keeps
  <2>1. CASE j = k
    BY <1>2, <2>1, AfterFacts DEF LastAbout
  <2>2. CASE j # k
    <3>1. Target(e) # m
      BY <1>1, <2>2 DEF LastAbout
    <3>2. m \notin gap[r]
      BY <3>1 DEF Healed
    <3>3. m \in DOMAIN recv[r] /\ recv[r][m] = log[j].message
      BY <1>2, <3>2 DEF Keeps
    <3> QED  BY <1>2, <3>1, <3>3, AfterFacts
  <2> QED  BY <2>1, <2>2
<1> HIDE DEF e, k, missed
<1> QED  BY <1>4, <1>5, <1>6, <1>7, OneKeeper

LEMMA RejoinKept ==
    ASSUME SyncInv, SnapshotKept, NEW r \in Receiver, Rejoin(r)
    PROVE  SnapshotKept'
<1>1. gap'[r] = MessageId
  BY DEF SyncInv, StreamTypeOK, Rejoin
<1>2. \A q \in Receiver \ {r} :
         recv'[q] = recv[q] /\ cursor'[q] = cursor[q] /\ gap'[q] = gap[q]
  BY DEF SyncInv, StreamTypeOK, Rejoin
<1>3. log' = log
  BY ReceiverLeavesSender
<1>4. Keeps(recv'[r], cursor'[r], gap'[r])
  BY <1>1 DEF Keeps
<1> QED  BY <1>2, <1>3, <1>4, OneKeeper

----------------------------------------------------------------------------
LEMMA FinalInit == StreamInit => FinalInv
<1> SUFFICES ASSUME StreamInit  PROVE FinalInv
  OBVIOUS
<1>1. FinalIsLast
  BY DEF FinalIsLast, StreamInit, BuilderInit
<1>2. \A r \in Receiver : cursor[r] = 0
  BY DEF StreamInit
<1>3. SnapshotKept
  BY <1>2 DEF SnapshotKept
<1> QED  BY <1>1, <1>3, SyncInit DEF FinalInv

LEMMA FinalStep ==
    ASSUME ~LateEdits, FinalInv, [StreamNext]_streamVars
    PROVE  FinalInv'
<1>1. SyncInv'
  BY SyncStep DEF FinalInv
<1>2. ASSUME log' = log, finalized' = finalized, msg' = msg  PROVE FinalIsLast'
  BY <1>2, QuietFinal DEF FinalInv, Open
<1>3. CASE Idle
  <2>1. UNCHANGED <<msg, finalized, log>> /\ recv' = recv /\ cursor' = cursor /\ gap' = gap
    BY <1>3 DEF Idle, receiverVars
  <2>2. SnapshotKept'
    BY <2>1 DEF FinalInv, SnapshotKept, LastAbout, IsSnapshot, Target
  <2> QED  BY <1>1, <1>2, <2>1, <2>2 DEF FinalInv
<1>4. CASE SenderStep
  <2>1. FinalIsLast'
    BY <1>4, BuilderFinal DEF FinalInv, SyncInv, StreamTypeOK, SenderStep, Told
  <2> QED  BY <1>1, <1>4, <2>1, SenderKept DEF FinalInv
<1>5. ASSUME NEW r \in Receiver, Deliver(r) \/ Lose(r) \/ Redeliver(r) \/ Rejoin(r)
      PROVE  FinalInv'
  <2>1. FinalIsLast'
    BY <1>2, <1>5, ReceiverLeavesSender
  <2>2. SnapshotKept'
    BY <1>5, DeliverKept, LoseKept, RedeliverKept, RejoinKept DEF FinalInv
  <2> QED  BY <1>1, <2>1, <2>2 DEF FinalInv
<1> QED  BY <1>3, <1>4, <1>5, StreamSteps DEF FinalInv, SyncInv

\* The last of the final events about m is the event after which none is about m.
LEMMA PayloadOfLast ==
    ASSUME SyncInv, NEW m \in MessageId, NEW j \in 1 .. Len(log),
           log[j].event = "message_finalized", LastAbout(m, j, Len(log))
    PROVE  FinalPayload(m) = log[j].message
<1> DEFINE finals == {i \in DOMAIN log : log[i].event = "message_finalized" /\ Target(log[i]) = m}
<1>1. DOMAIN log = 1 .. Len(log) /\ Len(log) \in Nat
  BY HeldIsSequence, LenProperties DEF SyncInv
<1>2. j \in finals /\ \A i \in finals : j >= i
  BY <1>1 DEF LastAbout
<1>3. j \in Nat /\ \A i \in finals : i \in Nat
  BY <1>1
<1> HIDE DEF finals
<1>4. Max(finals) \in finals /\ \A i \in finals : Max(finals) >= i
  BY <1>2, Zenon DEF Max
<1>5. Max(finals) = j
  <2>1. \A k \in finals : j >= k /\ k >= j => k = j
    BY <1>3
  <2> QED  BY <1>2, <1>4, <2>1
<1> QED  BY <1>5 DEF FinalPayload, finals

\* When callers do not edit what they have finalized, a receiver that has seen
\* every event and whose last snapshot of a message was not lost ends with
\* exactly the message_finalized payload, meta included, whatever happened to the
\* events before it.
THEOREM FinalMessageArrives ==
    ASSUME ~LateEdits
    PROVE  StreamSpec => []FinalMatches
<1>1. FinalInv /\ [StreamNext]_streamVars => FinalInv'
  BY FinalStep
<1>2. FinalInv => FinalMatches
  <2> SUFFICES ASSUME FinalInv, NEW r \in Receiver, NEW m \in MessageId,
                      finalized[m], cursor[r] = Len(log), m \notin gap[r]
               PROVE  m \in DOMAIN recv[r] /\ recv[r][m] = FinalPayload(m)
    BY DEF FinalMatches
  <2>1. PICK j \in 1 .. Len(log) :
            log[j].event = "message_finalized" /\ LastAbout(m, j, Len(log))
    BY DEF FinalInv, FinalIsLast
  <2>2. FinalPayload(m) = log[j].message
    BY <2>1, PayloadOfLast DEF FinalInv
  <2>3. m \in DOMAIN recv[r] /\ recv[r][m] = log[j].message
    BY <2>1 DEF FinalInv, SnapshotKept, IsSnapshot
  <2> QED  BY <2>2, <2>3
<1> QED  BY FinalInit, <1>1, <1>2, PTL DEF StreamSpec

----------------------------------------------------------------------------
(* The stream is a mirror.                                                 *)

\* What r should see at version p with the keys of `hidden` out of sight.
Visible(version, hidden) == [m \in DOMAIN version \ hidden |-> version[m]]

LEMMA SeenIsVisible ==
    ASSUME SyncInv, NEW r \in Receiver
    PROVE  Seen(r) = Visible(held[cursor[r] + 1], gap[r])
  BY DEF SyncInv, InSync, Seen, Visible

LEMMA SeenIsVisibleNext ==
    ASSUME SyncInv', NEW r \in Receiver
    PROVE  Seen(r)' = Visible(held'[cursor'[r] + 1], gap'[r])
  BY DEF SyncInv, InSync, Seen, Visible

LEMMA MirrorInitially == StreamInit => Mirror!MirrorInit
<1> SUFFICES ASSUME StreamInit  PROVE Mirror!MirrorInit
  OBVIOUS
<1>1. held = <<Mirror!Nothing>>
  BY DEF StreamInit, NoMessages, Mirror!Nothing
<1>2. Places = [r \in Receiver |-> 1] /\ gap = [r \in Receiver |-> {}]
  BY DEF StreamInit, Places
<1>3. \A r \in Receiver : Seen(r) = Mirror!Nothing
  BY DEF StreamInit, Seen, NoMessages, Mirror!Nothing
<1> QED  BY <1>1, <1>2, <1>3 DEF Mirror!MirrorInit, Views

\* A step of receiver r is r looking at the version it is then at.
LEMMA ReceiverSees ==
    ASSUME SyncInv, SyncInv', held' = held, NEW r \in Receiver,
           \A q \in Receiver \ {r} :
               recv'[q] = recv[q] /\ cursor'[q] = cursor[q] /\ gap'[q] = gap[q]
    PROVE  Mirror!See(r, cursor'[r] + 1, gap'[r])
<1> DEFINE p == cursor'[r] + 1
           seen == [k \in DOMAIN held[p] \ gap'[r] |-> held[p][k]]
<1>1. Places' = [Places EXCEPT ![r] = p]
  BY DEF Places
<1>2. gap' = [gap EXCEPT ![r] = gap'[r]]
  <2>1. gap \in [Receiver -> SUBSET MessageId] /\ gap' \in [Receiver -> SUBSET MessageId]
    BY DEF SyncInv, StreamTypeOK
  <2> QED  BY <2>1
<1>3. \A q \in Receiver \ {r} : Seen(q)' = Seen(q)
  BY DEF Seen
<1>4. Seen(r)' = seen
  BY SeenIsVisibleNext DEF Visible
<1>5. Views' = [Views EXCEPT ![r] = seen]
  <2> HIDE DEF seen
  <2> QED  BY <1>3, <1>4 DEF Views
<1> QED  BY <1>1, <1>2, <1>5 DEF Mirror!See

LEMMA DeliverMirrored ==
    ASSUME SyncInv, SyncInv', NEW r \in Receiver, Deliver(r)
    PROVE  \E k \in MessageId : Mirror!Follow(r, k)
<1> DEFINE e == log[cursor[r] + 1]
           k == Target(e)
<1>1. cursor[r] + 1 \in 1 .. Len(log) /\ cursor[r] \in Nat
  BY HeldIsSequence DEF SyncInv, StreamTypeOK, Deliver
<1>2. k \in MessageId
  BY <1>1, CursorFacts
<1>3. cursor'[r] = cursor[r] + 1 /\ gap'[r] = Healed(gap[r], e) /\ held' = held
  BY DEF Deliver, SyncInv, StreamTypeOK
<1>4. \A q \in Receiver \ {r} :
         recv'[q] = recv[q] /\ cursor'[q] = cursor[q] /\ gap'[q] = gap[q]
  BY DEF Deliver, Receive, SyncInv, StreamTypeOK
<1>5. Mirror!See(r, cursor'[r] + 1, gap'[r])
  BY <1>3, <1>4, ReceiverSees
<1>6. cursor'[r] + 1 = Places[r] + 1 /\ Places[r] + 1 \in DOMAIN held
  BY <1>1, <1>3, HeldIsSequence, LenProperties DEF Places, SyncInv
<1>7. gap'[r] = gap[r] \/ gap'[r] = gap[r] \ {k}
  BY <1>3 DEF Healed
<1> HIDE DEF e, k
<1> QED  BY <1>2, <1>5, <1>6, <1>7 DEF Mirror!Follow

\* A step that leaves r at its version or takes it forward, and hides more.
LEMMA SeesLess ==
    ASSUME SyncInv, NEW r \in Receiver, NEW p \in 1 .. Len(held), NEW hidden \in SUBSET MessageId,
           cursor[r] + 1 <= p, gap[r] \subseteq hidden, Mirror!See(r, p, hidden)
    PROVE  Mirror!Miss(r)
<1>1. p \in DOMAIN held
  BY HeldIsSequence, LenProperties DEF SyncInv
<1>2. Places[r] <= p
  BY DEF Places
<1> QED  BY <1>1, <1>2 DEF Mirror!Miss

LEMMA LoseMirrored ==
    ASSUME SyncInv, SyncInv', NEW r \in Receiver, Lose(r)
    PROVE  Mirror!Miss(r)
<1>1. cursor[r] + 1 \in 1 .. Len(log) /\ cursor[r] \in Nat /\ Len(held) = Len(log) + 1
  BY HeldIsSequence DEF SyncInv, StreamTypeOK, Lose
<1>2. /\ cursor'[r] = cursor[r] + 1 /\ held' = held
      /\ gap'[r] = gap[r] \cup {Target(log[cursor[r] + 1])}
  BY DEF Lose, Fault, SyncInv, StreamTypeOK
<1>3. \A q \in Receiver \ {r} :
         recv'[q] = recv[q] /\ cursor'[q] = cursor[q] /\ gap'[q] = gap[q]
  BY DEF Lose, SyncInv, StreamTypeOK
<1>4. Mirror!See(r, cursor'[r] + 1, gap'[r])
  BY <1>2, <1>3, ReceiverSees
<1>5. cursor'[r] + 1 \in 1 .. Len(held) /\ cursor[r] + 1 <= cursor'[r] + 1
  BY <1>1, <1>2, LenProperties
<1>6. gap'[r] \in SUBSET MessageId /\ gap[r] \subseteq gap'[r]
  BY <1>2 DEF SyncInv, StreamTypeOK
<1> QED  BY <1>4, <1>5, <1>6, SeesLess

LEMMA RedeliverMirrored ==
    ASSUME SyncInv, SyncInv', NEW r \in Receiver, Redeliver(r)
    PROVE  (\E k \in MessageId : Mirror!Follow(r, k)) \/ Mirror!Miss(r)
<1> DEFINE e == log[cursor[r]]
           k == Target(e)
<1>1. cursor[r] \in 1 .. Len(log) /\ Len(held) = Len(log) + 1 /\ Len(log) \in Nat
  BY HeldIsSequence DEF SyncInv, StreamTypeOK, Redeliver
<1>2. k \in MessageId
  BY <1>1, CursorFacts
<1>3. /\ cursor'[r] = cursor[r] /\ held' = held
      /\ \/ gap'[r] = gap[r] \cup {k}
         \/ gap'[r] = Healed(gap[r], e)
  BY DEF Redeliver, Fault, SyncInv, StreamTypeOK
<1>4. \A q \in Receiver \ {r} :
         recv'[q] = recv[q] /\ cursor'[q] = cursor[q] /\ gap'[q] = gap[q]
  BY DEF Redeliver, Receive, SyncInv, StreamTypeOK
<1>5. Mirror!See(r, cursor'[r] + 1, gap'[r])
  BY <1>3, <1>4, ReceiverSees
<1>6. cursor'[r] + 1 \in 1 .. Len(held)
  BY <1>1, <1>3
<1>7. CASE gap'[r] = gap[r] \cup {k}
  <2>1. gap'[r] \in SUBSET MessageId /\ gap[r] \subseteq gap'[r]
    BY <1>7 DEF SyncInv, StreamTypeOK
  <2>2. cursor[r] + 1 <= cursor'[r] + 1
    BY <1>1, <1>3
  <2> QED  BY <1>5, <1>6, <2>1, <2>2, SeesLess
<1>8. CASE gap'[r] = Healed(gap[r], e)
  <2>1. gap'[r] = gap[r] \/ gap'[r] = gap[r] \ {k}
    BY <1>8 DEF Healed
  <2>2. cursor'[r] + 1 = Places[r] /\ Places[r] \in DOMAIN held
    BY <1>3, <1>6, HeldIsSequence, LenProperties DEF Places, SyncInv
  <2> HIDE DEF e, k
  <2> QED  BY <1>2, <1>5, <2>1, <2>2 DEF Mirror!Follow
<1> QED  BY <1>3, <1>7, <1>8

LEMMA RejoinMirrored ==
    ASSUME SyncInv, SyncInv', NEW r \in Receiver, Rejoin(r)
    PROVE  Mirror!Miss(r)
<1>1. cursor[r] \in Nat /\ cursor[r] <= Len(log) /\ Len(held) = Len(log) + 1 /\ Len(log) \in Nat
  BY HeldIsSequence DEF SyncInv, StreamTypeOK
<1>2. cursor'[r] = Len(log) /\ gap'[r] = MessageId /\ held' = held
  BY DEF Rejoin, Fault, SyncInv, StreamTypeOK
<1>3. \A q \in Receiver \ {r} :
         recv'[q] = recv[q] /\ cursor'[q] = cursor[q] /\ gap'[q] = gap[q]
  BY DEF Rejoin, SyncInv, StreamTypeOK
<1>4. Mirror!See(r, cursor'[r] + 1, gap'[r])
  BY <1>2, <1>3, ReceiverSees
<1>5. cursor'[r] + 1 \in 1 .. Len(held) /\ cursor[r] + 1 <= cursor'[r] + 1
  BY <1>1, <1>2
<1>6. gap'[r] \in SUBSET MessageId /\ gap[r] \subseteq gap'[r]
  BY <1>2 DEF SyncInv, StreamTypeOK
<1> QED  BY <1>4, <1>5, <1>6, SeesLess

LEMMA SenderMirrored ==
    ASSUME SyncInv, SyncInv', SenderStep
    PROVE  (\E k \in MessageId : Mirror!Publish(k)) \/ UNCHANGED Mirror!mirrorVars
<1>1. recv' = recv /\ cursor' = cursor /\ gap' = gap
  BY DEF SenderStep, Told, receiverVars
<1>2. \A r \in Receiver : Seen(r)' = Seen(r)
  BY <1>1, HeldStays DEF SyncInv, Seen
<1>3. UNCHANGED <<Places, gap, Views>>
  BY <1>1, <1>2 DEF Places, Views
<1>4. CASE log' = log
  BY <1>3, <1>4 DEF SenderStep, Told, Mirror!mirrorVars
<1>5. CASE log' # log
  <2> DEFINE old == held[Len(held)]
             new == Held'
  <2>1. held \in Seq(ContentMap) /\ BuilderTypeOK /\ Effect
    BY HeldIsSequence, BuilderEffect DEF SyncInv, StreamTypeOK, SenderStep, Told
  <2>2. PICK e : log' = Append(log, e) /\ Tells(Held, e, new)
    BY <1>5, <2>1 DEF Effect
  <2> DEFINE k == Target(e)
  <2>3. k \in MessageId
    <3>1. log' \in Seq(Event)
      BY DEF SyncInv, StreamTypeOK, BuilderTypeOK
    <3>2. Len(log) + 1 \in 1 .. Len(log') /\ log'[Len(log) + 1] = e
      BY <2>1, <2>2, LogNext
    <3> QED  BY <3>1, <3>2, ElementOfSeq, TargetTyped
  <2>4. Tells(old, e, new)
    <3>1. \A n \in DOMAIN Held : n \in DOMAIN old /\ old[n] = Held[n]
      BY <2>1, HeldFacts DEF SyncInv, EventsTell
    <3> QED  BY <2>2, <3>1, TellsFromMore
  <2>5. new \in ContentMap
    BY HeldTypedNext DEF SyncInv, StreamTypeOK
  <2>6. held' = Append(held, new)
    BY <1>5 DEF SenderStep, Told
  <2> HIDE DEF new
  <2>7. held'[Len(held')] = new
    BY <2>1, <2>5, <2>6, AppendProperties
  <2>8. \A n \in DOMAIN new \ {k} : n \in DOMAIN old /\ new[n] = old[n]
    BY <2>4 DEF Tells
  <2>9. k \in DOMAIN new => new[k] \in Seq(Part)
    BY <2>5, ContentMapPartial DEF IsPartial
  <2> HIDE DEF k
  <2>10. DOMAIN new \subseteq DOMAIN old \cup {k}
    BY <2>8
  <2>11. Mirror!Publish(k)
    BY <1>3, <2>6, <2>7, <2>8, <2>9, <2>10 DEF Mirror!Publish
  <2> QED  BY <2>3, <2>11
<1> QED  BY <1>4, <1>5

LEMMA MirrorStep ==
    ASSUME SyncInv, SyncInv', [StreamNext]_streamVars
    PROVE  [Mirror!MirrorNext]_(Mirror!mirrorVars)
<1>1. CASE Idle
  <2>1. recv' = recv /\ cursor' = cursor /\ gap' = gap /\ held' = held
    BY <1>1 DEF Idle, receiverVars
  <2> QED  BY <2>1 DEF Mirror!mirrorVars, Places, Views, Seen
<1>2. CASE SenderStep
  BY <1>2, SenderMirrored DEF Mirror!MirrorNext
<1>3. ASSUME NEW r \in Receiver, Deliver(r)
      PROVE  Mirror!MirrorNext
  BY <1>3, DeliverMirrored DEF Mirror!MirrorNext
<1>4. ASSUME NEW r \in Receiver, Lose(r)
      PROVE  Mirror!MirrorNext
  BY <1>4, LoseMirrored DEF Mirror!MirrorNext
<1>5. ASSUME NEW r \in Receiver, Redeliver(r)
      PROVE  Mirror!MirrorNext
  BY <1>5, RedeliverMirrored DEF Mirror!MirrorNext
<1>6. ASSUME NEW r \in Receiver, Rejoin(r)
      PROVE  Mirror!MirrorNext
  BY <1>6, RejoinMirrored DEF Mirror!MirrorNext
<1> QED  BY <1>1, <1>2, <1>3, <1>4, <1>5, <1>6, StreamSteps DEF SyncInv

\* For any messages, parts, receivers and faults, streaming is a mirror of the
\* messages (streaming.py:7-9): what receivers go through is what the abstract
\* specification allows.
THEOREM StreamImplementsMirror == StreamSpec => ImplementsMirror
<1>1. SyncInv /\ SyncInv' /\ [StreamNext]_streamVars
         => [Mirror!MirrorNext]_(Mirror!mirrorVars)
  BY MirrorStep
<1> QED  BY SyncAlways, MirrorInitially, <1>1, PTL
         DEF StreamSpec, ImplementsMirror, Mirror!MirrorSpec
==============================================================================
