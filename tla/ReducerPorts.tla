---------------------------- MODULE ReducerPorts ----------------------------
(***************************************************************************)
(* The three reducers (python events.py, go applyevent.go, typescript      *)
(* applyEvent.ts) fed the same events, in the same order, from the         *)
(* builders of MessageBuilder.                                             *)
(*                                                                         *)
(* Python holds validated part objects.  Go and TypeScript hold the raw    *)
(* JSON of a part, whatever keys it has: content there is a sequence of    *)
(* dictionaries.  Events cross as JSON with their nulls.                   *)
(***************************************************************************)
EXTENDS MessageBuilder

VARIABLES
    port,  \* port[l]: the message map of the receiver written in language l
    at     \* how many events of the log are behind the receivers

portsVars == <<builderVars, port, at>>

Language == {"python", "go", "typescript"}

----------------------------------------------------------------------------
\* A raw text, where a missing or null one counts as empty.
RawText(p) == IF HasText(p) THEN p.text ELSE <<>>

\* Mutation: a part whose text key is missing is left alone.
GoAfterDeltaNeedsText(content, e) ==
    IF /\ InRange(content, e.index)
       /\ content[e.index + 1].type \in Textual
       /\ HasText(content[e.index + 1])
    THEN [content EXCEPT ![e.index + 1] = Extended(@, e.text)]
    ELSE content

\* applyTokenDelta of go: by type, not by the presence of a text.
GoAfterDelta(content, e) ==
    IF InRange(content, e.index) /\ content[e.index + 1].type \in Textual
    THEN [content EXCEPT ![e.index + 1] = [@ EXCEPT !.text = RawText(content[e.index + 1]) \o e.text]]
    ELSE content

\* applyPartUpdated of go: RawPart refuses a part without a type, and only that.
GoAfterUpdated(content, e) ==
    IF InRange(content, e.index) /\ Merge(content[e.index + 1], e.patch).type \in PartType
    THEN [content EXCEPT ![e.index + 1] = Merge(@, e.patch)]
    ELSE content

GoContentAfter(content, e) ==
    CASE e.event = "part_appended" -> AfterAppended(content, e)
      [] e.event = "token_delta"   -> GoAfterDelta(content, e)
      [] e.event = "part_updated"  -> GoAfterUpdated(content, e)

\* ApplyEvent of go: an increment is stored under the event's message_id.
GoApplyEvent(state, e) ==
    IF IsSnapshot(e) THEN Put(state, Target(e), e.message)
    ELSE IF Target(e) \notin DOMAIN state THEN state
    ELSE Put(state, Target(e), [state[Target(e)] EXCEPT !.content = GoContentAfter(@, e)])

----------------------------------------------------------------------------
\* applyTokenDelta of typescript: (text ?? '') + event.text
TsAfterDelta(content, e) ==
    IF InRange(content, e.index) /\ content[e.index + 1].type \in Textual
    THEN [content EXCEPT ![e.index + 1] = [@ EXCEPT !.text = RawText(content[e.index + 1]) \o e.text]]
    ELSE content

\* applyPartUpdated of typescript: {...part, ...patch}, never checked.
TsAfterUpdated(content, e) ==
    IF InRange(content, e.index)
    THEN [content EXCEPT ![e.index + 1] = Merge(@, e.patch)]
    ELSE content

TsContentAfter(content, e) ==
    CASE e.event = "part_appended" -> AfterAppended(content, e)
      [] e.event = "token_delta"   -> TsAfterDelta(content, e)
      [] e.event = "part_updated"  -> TsAfterUpdated(content, e)

\* applyEvent of typescript: an increment is stored under the message's own id.
TsApplyEvent(state, e) ==
    IF IsSnapshot(e) THEN Put(state, Target(e), e.message)
    ELSE IF Target(e) \notin DOMAIN state THEN state
    ELSE LET msg0 == state[Target(e)]
         IN  Put(state, msg0.id, [msg0 EXCEPT !.content = TsContentAfter(@, e)])

----------------------------------------------------------------------------
\* A python receiver whose reducer raises keeps the state it had.
Reduce(l, state, e) ==
    CASE l = "python"     -> IF Raises(state, e) THEN state ELSE ApplyEvent(state, e)
      [] l = "go"         -> GoApplyEvent(state, e)
      [] l = "typescript" -> TsApplyEvent(state, e)

PortsInit ==
    /\ BuilderInit
    /\ port = [l \in Language |-> NoMessages]
    /\ at = 0

Sender == BuilderNext /\ UNCHANGED <<port, at>>

Feed(e) == port' = [l \in Language |-> Reduce(l, port[l], e)]

Deliver ==
    /\ at < Len(log)
    /\ Feed(log[at + 1])
    /\ at' = at + 1
    /\ UNCHANGED builderVars

\* The transport fails all three receivers in the same way.
TransportFault(f) ==
    /\ FaultAllowed(f)
    /\ faults' = faults + 1
    /\ UNCHANGED <<msg, index, finalized, returned, skewed, log>>

Lose ==
    /\ at < Len(log)
    /\ TransportFault("lose")
    /\ at' = at + 1
    /\ UNCHANGED port

Redeliver ==
    /\ at > 0
    /\ TransportFault("redeliver")
    /\ Feed(log[at])
    /\ UNCHANGED at

Rejoin ==
    /\ TransportFault("rejoin")
    /\ port' = [l \in Language |-> NoMessages]
    /\ at' = Len(log)

PortsNext == Sender \/ Deliver \/ Lose \/ Redeliver \/ Rejoin

PortsSpec == PortsInit /\ [][PortsNext]_portsVars

----------------------------------------------------------------------------
\* Parts of which only text and reasoning have a text, and patches that any such
\* part takes and that keep it so: they may make text or reasoning of a part, and
\* nothing else.
PlainPart == {p \in Part : p.text # Absent => p.type \in Textual}

PlainPatch ==
    {q \in Dict : /\ q.type \in Textual \cup {Absent}
                  /\ q.text # None /\ (q.text # Absent => q.type \in Textual)
                  /\ q.id # None
                  /\ q.status \in Status \cup {Absent}}

PlainTexts ==
    /\ PartInputs \subseteq PlainPart
    /\ Patches \subseteq PlainPatch
    /\ StatusInputs \subseteq Status

----------------------------------------------------------------------------
\* The raw part stands for the same part as the validated one: it is valid, and
\* differs in defaults only.
SamePart(raw, part) == Valid(raw) /\ Validated(raw) = part

SameMessage(raw, message) ==
    /\ raw.id = message.id /\ raw.meta = message.meta
    /\ Len(raw.content) = Len(message.content)
    /\ \A i \in DOMAIN raw.content : SamePart(raw.content[i], message.content[i])

\* "the two implementations must produce identical state from identical event
\* streams" (test/applyEvent.test.ts:2-3; events.py:16-17, applyevent.go:5-7), at every
\* event, for every message, and whether or not the stream is complete.
PortsAgree ==
    \A l \in Language :
        /\ DOMAIN port[l] = DOMAIN port["python"]
        /\ \A m \in DOMAIN port[l] : SameMessage(port[l][m], port["python"][m])
==============================================================================
