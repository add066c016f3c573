---------------------------- MODULE EventReducer ----------------------------
(***************************************************************************)
(* The receiver's pure reducer: the five stream events and apply_event     *)
(* (python events.py).  Indices are 0-based, as in the code; content is a  *)
(* TLA+ sequence, so index i is content[i + 1].                            *)
(***************************************************************************)
EXTENDS ChatParts, SequencesExt

CONSTANTS MessageId, Namespace

\* message.meta: a namespaced dictionary of dictionaries.
Meta == UNION {[N -> Bucket] : N \in SUBSET Namespace}

\* The ChatMessage fields that change while a message streams; role, addr,
\* created_at and ref are fixed by start() and travel in the same events.
Message == [id : MessageId, meta : Meta, content : Seq(Part)]

\* None also stands for a message that is not there.
ASSUME NoneAssumption == None \notin Message

----------------------------------------------------------------------------
\* The event vocabulary.

Started(message)           == [event |-> "message_started", message |-> message]
Appended(id, index, part)  == [event |-> "part_appended", message_id |-> id,
                               index |-> index, part |-> part]
Delta(id, index, text)     == [event |-> "token_delta", message_id |-> id,
                               index |-> index, text |-> text]
Updated(id, index, patch)  == [event |-> "part_updated", message_id |-> id,
                               index |-> index, patch |-> patch]
Finalized(id, message)     == [event |-> "message_finalized", message_id |-> id,
                               message |-> message]

Event ==
    [event : {"message_started"}, message : Message]
    \cup [event : {"part_appended"}, message_id : MessageId, index : Nat, part : Part]
    \cup [event : {"token_delta"}, message_id : MessageId, index : Nat, text : Seq(Token)]
    \cup [event : {"part_updated"}, message_id : MessageId, index : Nat, patch : Dict]
    \cup [event : {"message_finalized"}, message_id : MessageId, message : Message]

\* Events that carry the whole message, and replace the receiver's copy.
IsSnapshot(e) == e.event \in {"message_started", "message_finalized"}

\* The key under which apply_event looks up, and the message an event is about.
Target(e) == IF e.event = "message_started" THEN e.message.id ELSE e.message_id

----------------------------------------------------------------------------
\* What each incremental event does to a message's content.

\* max(0, min(index, n))
Clamp(index, n) == IF index < 0 THEN 0 ELSE IF index < n THEN index ELSE n

InRange(content, index) == 0 <= index /\ index < Len(content)

AfterAppended(content, e) ==
    InsertAt(content, Clamp(e.index, Len(content)) + 1, e.part)

\* Mutation: the delta replaces the text instead of extending it.
AfterDeltaReplaces(content, e) ==
    IF InRange(content, e.index) /\ HasText(content[e.index + 1])
    THEN [content EXCEPT ![e.index + 1] = [@ EXCEPT !.text = e.text]]
    ELSE content

AfterDelta(content, e) ==
    IF InRange(content, e.index) /\ HasText(content[e.index + 1])
    THEN [content EXCEPT ![e.index + 1] = Extended(@, e.text)]
    ELSE content

AfterUpdated(content, e) ==
    IF InRange(content, e.index)
    THEN [content EXCEPT ![e.index + 1] = Validated(Merge(@, e.patch))]
    ELSE content

ContentAfter(content, e) ==
    CASE e.event = "part_appended" -> AfterAppended(content, e)
      [] e.event = "token_delta"   -> AfterDelta(content, e)
      [] e.event = "part_updated"  -> AfterUpdated(content, e)

\* Mutation: a merged part is stored without validation.
RaisesNever(messages, e) == FALSE

\* apply_event raises ValidationError instead of returning a map: only a
\* part_updated can do it, when the merged part is not a valid one.
Raises(messages, e) ==
    /\ e.event = "part_updated"
    /\ e.message_id \in DOMAIN messages
    /\ LET content == messages[e.message_id].content
       IN  /\ InRange(content, e.index)
           /\ ~Valid(Merge(content[e.index + 1], e.patch))

\* Mutation: the other messages are forgotten.
PutAlone(messages, id, message) == [n \in {id} |-> message]

\* {**messages, id: message}
Put(messages, id, message) ==
    [n \in DOMAIN messages \cup {id} |-> IF n = id THEN message ELSE messages[n]]

\* Mutation: a snapshot of a message already there is ignored.
ApplyEventKeepsKnown(messages, e) ==
    IF Target(e) \notin DOMAIN messages
    THEN IF IsSnapshot(e) THEN Put(messages, Target(e), e.message) ELSE messages
    ELSE IF IsSnapshot(e) THEN messages
    ELSE LET msg == messages[Target(e)]
         IN  Put(messages, msg.id, [msg EXCEPT !.content = ContentAfter(@, e)])

\* Mutation: message_finalized updates known messages only.
ApplyEventIgnoresLateFinal(messages, e) ==
    IF e.event = "message_started" THEN Put(messages, Target(e), e.message)
    ELSE IF Target(e) \notin DOMAIN messages THEN messages
    ELSE IF IsSnapshot(e) THEN Put(messages, Target(e), e.message)
    ELSE LET msg == messages[Target(e)]
         IN  Put(messages, msg.id, [msg EXCEPT !.content = ContentAfter(@, e)])

ApplyEvent(messages, e) ==
    IF IsSnapshot(e) THEN Put(messages, Target(e), e.message)
    ELSE IF Target(e) \notin DOMAIN messages THEN messages
    ELSE LET msg == messages[Target(e)]
         IN  Put(messages, msg.id, [msg EXCEPT !.content = ContentAfter(@, e)])

NoMessages == [n \in {} |-> None]
IsMessageMap(f) == IsPartial(f, MessageId, Message)
=============================================================================
