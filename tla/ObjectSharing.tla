---------------------------- MODULE ObjectSharing ----------------------------
(***************************************************************************)
(* The other modules treat messages, parts and events as values.  In       *)
(* Python they are objects, and callers, builders, queued events and       *)
(* receivers in the same process hold some of them together.  Here every   *)
(* part and every dictionary inside a part or a meta is an object on a     *)
(* heap, and beside each holder stands, by value, what it would hold if    *)
(* every event were serialized where it is emitted.                        *)
(***************************************************************************)
EXTENDS Naturals, Sequences, FiniteSets

CONSTANTS
    MessageId, Namespace, Key,
    CallerDict,  \* dictionaries callers have, to pass as a meta, a payload or in a patch
    CallerPart,  \* parts callers have built themselves
    MaxLog,      \* bound: events emitted
    MaxBirths,   \* bound: steps that create objects
    MaxEdits     \* bound: edits by callers

\* `Unset` below refers to nothing.
ASSUME SharingAssumption == "unset" \notin CallerDict

VARIABLES
    parts,       \* the part objects, by reference
    dicts,       \* the dictionary objects, by reference: the keys of each
    births,      \* how many steps created objects; the first half of a reference
    hand,        \* hand[m]: the message in the builder, by reference
    finalized,   \* messages whose builder has its flag set
    log,         \* the events a sink in the same process took and keeps
    near,        \* what a receiver in the same process holds, by reference
    cursor,      \* how many events it applied
    theirParts,  \* the objects callers hold: their own, those iterating over a
    theirDicts   \* builder gave them, and those of what finalize() returned

VARIABLES        \* history
    lentParts,   \* the objects of theirs that a builder took as they are, or
    lentDicts,   \* gave out while iterating
    wire,        \* the events, by value, as they were when emitted
    told,        \* the messages, by value, as the events emitted so far tell them
    far,         \* what a receiver of `wire` holds
    given,       \* given[m]: the meta given to start() and set_meta() for m
    spoiled,     \* positions in the log of events an edit by a caller reached
    late,        \* messages in `near` such an edit reached, there or on the way
    touched,     \* messages in hand such an edit reached
    edits        \* how many edits callers made

heap == <<parts, dicts, births>>
callers == <<theirParts, theirDicts, lentParts, lentDicts>>
sent == <<log, wire, told>>
receivers == <<near, cursor, far>>
reached == <<spoiled, late, touched>>
sharingVars == <<heap, hand, finalized, sent, callers, receivers, given, reached, edits>>

----------------------------------------------------------------------------
\* A part has a text, of so many tokens, and a dictionary of data.  The field
\* that holds it is declared Any (payload, output, input) or is an extra field,
\* which keep the object they are given, or it is declared a dictionary (meta,
\* args), which validation copies, down to the values in it, which it keeps.
Field == {"any", "dict"}

\* A message is a list of references to parts and a dictionary of references;
\* no two holders share those two containers: validation copies the outermost
\* dictionary or list, and only that.
PartRefs(content) == {content[i] : i \in DOMAIN content}
MetaRefs(message) == {message.meta[n] : n \in DOMAIN message.meta}

\* The dictionaries of data, and all dictionaries, when the parts are ps.
Boxes(ps, content) == {ps[p].box : p \in PartRefs(content)}
DictRefs(ps, message) == Boxes(ps, message.content) \cup MetaRefs(message)

\* A patch that leaves the data alone.
Unset == <<0, "unset">>

\* References of the objects born at step `id`: one or two, or a deep copy's; an
\* object that is met twice is copied once.
One(id) == <<id, 0>>
Two(id) == <<id, 1>>
DeepCopy(message, id) ==
    [content |-> [i \in DOMAIN message.content |-> <<id, message.content[i]>>],
     meta    |-> [n \in DOMAIN message.meta |-> <<id, message.meta[n]>>]]

\* {**f, key: value}
Put(f, key, value) == [x \in DOMAIN f \cup {key} |-> IF x = key THEN value ELSE f[x]]

\* The heap after message.model_copy(deep=True) as step `id`.
PartsWithCopy(ps, message, id) ==
    [r \in DOMAIN ps \cup {<<id, p>> : p \in PartRefs(message.content)} |->
        IF r \in DOMAIN ps THEN ps[r] ELSE [ps[r[2]] EXCEPT !.box = <<id, @>>]]
DictsWithCopy(ps, ds, message, id) ==
    [r \in DOMAIN ds \cup {<<id, d>> : d \in DictRefs(ps, message)} |->
        IF r \in DOMAIN ds THEN ds[r] ELSE ds[r[2]]]

CopyOnHeap(message, id) ==
    /\ parts' = PartsWithCopy(parts, message, id)
    /\ dicts' = DictsWithCopy(parts, dicts, message, id)

\* What references stand for when the parts are ps and the dictionaries ds.
PartValue(ps, ds, p) == [text |-> ps[p].text, keys |-> ds[ps[p].box]]
ContentValue(ps, ds, content) == [i \in DOMAIN content |-> PartValue(ps, ds, content[i])]
MessageValue(ps, ds, message) ==
    [content |-> ContentValue(ps, ds, message.content),
     meta    |-> [n \in DOMAIN message.meta |-> ds[message.meta[n]]]]

IsSnapshot(e) == e.event \in {"message_started", "message_finalized"}

\* Event e as a serializer would write it.
Serialized(ps, ds, e) ==
    CASE IsSnapshot(e)             -> [e EXCEPT !.message = MessageValue(ps, ds, @)]
      [] e.event = "part_appended" -> [e EXCEPT !.part = PartValue(ps, ds, @)]
      [] e.event = "part_updated"  -> [e EXCEPT !.patch = IF @ = Unset THEN {} ELSE {ds[@]}]
      [] OTHER                     -> e

\* The objects an event holds.
EventParts(e) ==
    CASE IsSnapshot(e)             -> PartRefs(e.message.content)
      [] e.event = "part_appended" -> {e.part}
      [] OTHER                     -> {}
EventDicts(ps, e) ==
    CASE IsSnapshot(e)             -> DictRefs(ps, e.message)
      [] e.event = "part_appended" -> {ps[e.part].box}
      [] e.event = "part_updated"  -> {e.patch} \ {Unset}
      [] OTHER                     -> {}

----------------------------------------------------------------------------
\* apply_event() by value.
ContentAfter(content, e) ==
    CASE e.event = "part_appended" -> Append(content, e.part)
      [] e.event = "token_delta"   ->
            [i \in DOMAIN content |-> IF i = e.index THEN [content[i] EXCEPT !.text = @ + 1] ELSE content[i]]
      [] e.event = "part_updated"  ->
            [i \in DOMAIN content |->
                IF i = e.index /\ e.patch # {} THEN [content[i] EXCEPT !.keys = CHOOSE keys \in e.patch : TRUE]
                ELSE content[i]]

After(messages, e) ==
    IF IsSnapshot(e) THEN Put(messages, e.id, e.message)
    ELSE IF e.id \notin DOMAIN messages THEN messages
    ELSE [messages EXCEPT ![e.id].content = ContentAfter(@, e)]

----------------------------------------------------------------------------
NoMeta == [n \in {} |-> Unset]
NoMap == [m \in {} |-> {}]

CallerRefs(names) == {<<0, x>> : x \in names}

\* The caller's parts have some of the caller's dictionaries as data, in a field
\* declared Any.
SharingInit ==
    /\ \E box \in [CallerRefs(CallerPart) -> CallerRefs(CallerDict)] :
          parts = [r \in CallerRefs(CallerPart) |-> [text |-> 0, field |-> "any", box |-> box[r]]]
    /\ dicts = [r \in CallerRefs(CallerDict) |-> {}]
    /\ theirParts = DOMAIN parts /\ theirDicts = DOMAIN dicts
    /\ lentParts = {} /\ lentDicts = {}
    /\ births = 0 /\ edits = 0 /\ cursor = 0
    /\ hand = NoMap /\ near = NoMap /\ far = NoMap /\ given = NoMap /\ told = NoMap
    /\ finalized = {} /\ spoiled = {} /\ late = {} /\ touched = {}
    /\ log = <<>> /\ wire = <<>>

\* The sink keeps the event object.
Emit(e) ==
    LET value == Serialized(parts', dicts', e)
    IN  /\ Len(log) < MaxLog
        /\ log' = Append(log, e)
        /\ wire' = Append(wire, value)
        /\ told' = After(told, value)

Born == births < MaxBirths /\ births' = births + 1

Lend(ps, ds) ==
    /\ lentParts' = lentParts \cup ps
    /\ lentDicts' = lentDicts \cup ds

\* Mutation: the event carries the builder's own message.
StartShallow(m, meta) ==
    LET message == [content |-> <<>>, meta |-> meta]
    IN  /\ m \notin DOMAIN hand
        /\ Born
        /\ UNCHANGED <<parts, dicts>>
        /\ hand' = Put(hand, m, message)
        /\ given' = Put(given, m, MessageValue(parts, dicts, message).meta)
        /\ Lend({}, MetaRefs(message))
        /\ Emit([event |-> "message_started", id |-> m, message |-> message])
        /\ UNCHANGED <<finalized, theirParts, theirDicts, receivers, reached, edits>>

\* start(): the builder keeps the dictionaries inside the caller's meta; the
\* event carries copies.
Start(m, meta) ==
    LET message == [content |-> <<>>, meta |-> meta]
    IN  /\ m \notin DOMAIN hand
        /\ Born
        /\ CopyOnHeap(message, births + 1)
        /\ hand' = Put(hand, m, message)
        /\ given' = Put(given, m, MessageValue(parts, dicts, message).meta)
        /\ Lend({}, MetaRefs(message))
        /\ Emit([event |-> "message_started", id |-> m, message |-> DeepCopy(message, births + 1)])
        /\ UNCHANGED <<finalized, theirParts, theirDicts, receivers, reached, edits>>

\* append_part() as it ends: one part object, in the content and in the event.
Appended(m, p) ==
    /\ hand' = [hand EXCEPT ![m].content = Append(@, p)]
    /\ Emit([event |-> "part_appended", id |-> m, part |-> p])
    /\ UNCHANGED <<finalized, theirParts, theirDicts, given, receivers, reached, edits>>

\* append_part() of a part a caller holds: the caller's object is taken.
AppendPart(m, p) ==
    /\ UNCHANGED heap
    /\ Lend({p}, {parts[p].box})
    /\ Appended(m, p)

\* add_text() and the others: a new part whose data is the caller's dictionary d
\* itself, or a copy of it.  (A part without data is one with an empty copy.)
AddPart(m, field, d) ==
    LET r == One(births + 1)
    IN  /\ Born
        /\ parts' = Put(parts, r, [text |-> 0, field |-> field, box |-> IF field = "any" THEN d ELSE r])
        /\ dicts' = IF field = "any" THEN dicts ELSE Put(dicts, r, dicts[d])
        /\ Lend({}, IF field = "any" THEN {d} ELSE {})
        /\ Appended(m, r)

\* Mutation: the text of the part object itself grows.
AppendTokenInPlace(m, i) ==
    /\ Born
    /\ parts' = [parts EXCEPT ![hand[m].content[i]].text = @ + 1]
    /\ UNCHANGED <<dicts, hand, finalized, callers, given, receivers, reached, edits>>
    /\ Emit([event |-> "token_delta", id |-> m, index |-> i])

\* append_token(): a new part object with the longer text and the same data.
AppendToken(m, i) ==
    LET r == One(births + 1)
    IN  /\ Born
        /\ parts' = Put(parts, r, [parts[hand[m].content[i]] EXCEPT !.text = @ + 1])
        /\ hand' = [hand EXCEPT ![m].content[i] = r]
        /\ Emit([event |-> "token_delta", id |-> m, index |-> i])
        /\ UNCHANGED <<dicts, finalized, callers, given, receivers, reached, edits>>

\* The part that model_dump(), {**dump, **patch} and validation make of a part, as
\* object r, with the dictionaries ds.  Data that is not patched is copied.
PatchedBox(part, patch, r) == IF patch # Unset /\ part.field = "any" THEN patch ELSE r
PatchedPart(part, patch, r) == [part EXCEPT !.box = PatchedBox(part, patch, r)]
PatchedDicts(ds, part, patch, r) ==
    IF PatchedBox(part, patch, r) # r THEN ds
    ELSE Put(ds, r, IF patch = Unset THEN ds[part.box] ELSE ds[patch])

\* patch_part() as it ends, the dictionaries being ds: the event keeps the patch.
Patched(m, i, patch, ds) ==
    LET part == parts[hand[m].content[i]]
        r == One(births + 1)
    IN  /\ Born
        /\ parts' = Put(parts, r, PatchedPart(part, patch, r))
        /\ dicts' = PatchedDicts(ds, part, patch, r)
        /\ hand' = [hand EXCEPT ![m].content[i] = r]
        /\ Emit([event |-> "part_updated", id |-> m, index |-> i, patch |-> patch])
        /\ UNCHANGED <<finalized, theirParts, theirDicts, given, receivers, reached, edits>>

\* patch_part() with a caller's dictionary as the new data, or with other fields.
PatchPart(m, i, patch) ==
    /\ Lend({}, {patch} \ {Unset})
    /\ Patched(m, i, patch, dicts)

\* update_tool_status(), update_subagent_status() with a meta_patch: the patch has a
\* dictionary of its own, the old meta with the caller's keys.
UpdateStatus(m, i, d) ==
    LET part == parts[hand[m].content[i]]
        r == Two(births + 1)
    IN  /\ part.field = "dict"
        /\ Lend({}, {})
        /\ Patched(m, i, r, Put(dicts, r, dicts[part.box] \cup dicts[d]))

----------------------------------------------------------------------------
\* A caller's object changes.  One that a builder shares may be in events, in the
\* messages near and in those in hand; another is nowhere, or in the event
\* finalize() emitted.
HoldsIn(e, ps, ds) == EventParts(e) \cap ps # {} \/ EventDicts(parts, e) \cap ds # {}

Reach(ps, ds, shared) ==
    /\ spoiled' = spoiled \cup {j \in DOMAIN log : /\ shared \/ log[j].event = "message_finalized"
                                                   /\ HoldsIn(log[j], ps, ds)}
    /\ late' = late \cup {m \in DOMAIN near : shared /\ (PartRefs(near[m].content) \cap ps # {}
                                                         \/ DictRefs(parts, near[m]) \cap ds # {})}
    /\ touched' = touched \cup {m \in DOMAIN hand : shared /\ (PartRefs(hand[m].content) \cap ps # {}
                                                               \/ Boxes(parts, hand[m].content) \cap ds # {})}

EditPart(p) ==
    /\ edits < MaxEdits /\ edits' = edits + 1
    /\ parts' = [parts EXCEPT ![p].text = @ + 1]
    /\ Reach({p}, {}, p \in lentParts)
    /\ UNCHANGED <<dicts, births, hand, finalized, sent, callers, receivers, given>>

EditDict(d, key) ==
    /\ key \notin dicts[d]
    /\ edits < MaxEdits /\ edits' = edits + 1
    /\ dicts' = [dicts EXCEPT ![d] = @ \cup {key}]
    /\ Reach({}, {d}, d \in lentDicts)
    /\ UNCHANGED <<parts, births, hand, finalized, sent, callers, receivers, given>>

\* Iterating over the builder hands out the parts in hand themselves.
Iterate(m) ==
    LET ps == PartRefs(hand[m].content)
        ds == Boxes(parts, hand[m].content)
    IN  /\ theirParts' = theirParts \cup ps
        /\ theirDicts' = theirDicts \cup ds
        /\ Lend(ps, ds)
        /\ UNCHANGED <<heap, hand, finalized, sent, receivers, given, reached, edits>>

\* set_meta(): updates the dictionary that is there in place, which may be a
\* caller's (and then changes with it wherever it is), or makes one.
SetMeta(m, namespace, key) ==
    LET known == namespace \in DOMAIN hand[m].meta
        d == hand[m].meta[namespace]
    IN  /\ IF known
           THEN /\ dicts' = [dicts EXCEPT ![d] = @ \cup {key}]
                /\ IF d \in lentDicts THEN Reach({}, {d}, TRUE) ELSE UNCHANGED reached
                /\ UNCHANGED <<births, hand>>
           ELSE /\ Born
                /\ dicts' = Put(dicts, One(births + 1), {key})
                /\ hand' = [hand EXCEPT ![m].meta = Put(@, namespace, One(births + 1))]
                /\ UNCHANGED reached
        /\ given' = [given EXCEPT ![m] =
                        Put(@, namespace, {key} \cup (IF known THEN @[namespace] ELSE {}))]
        /\ UNCHANGED <<parts, finalized, sent, callers, receivers, edits>>

\* The event of finalize() tells the message as it is in hand, edits and all.
EmitFinalized(m, snapshot) ==
    IF m \in finalized THEN UNCHANGED <<sent, touched>>
    ELSE /\ Emit([event |-> "message_finalized", id |-> m, message |-> snapshot])
         /\ touched' = touched \ {m}

\* Mutation: the snapshot shares the builder's dictionaries and parts.
FinalizeShallow(m) ==
    /\ Born
    /\ UNCHANGED <<parts, dicts>>
    /\ theirParts' = theirParts \cup PartRefs(hand[m].content)
    /\ theirDicts' = theirDicts \cup DictRefs(parts, hand[m])
    /\ finalized' = finalized \cup {m}
    /\ EmitFinalized(m, hand[m])
    /\ UNCHANGED <<hand, lentParts, lentDicts, receivers, given, spoiled, late, edits>>

\* finalize(): one deep copy, for the event and for the caller; a later call
\* makes another and emits nothing.
Finalize(m) ==
    LET id == births + 1
    IN  /\ Born
        /\ CopyOnHeap(hand[m], id)
        /\ theirParts' = theirParts \cup {<<id, p>> : p \in PartRefs(hand[m].content)}
        /\ theirDicts' = theirDicts \cup {<<id, d>> : d \in DictRefs(parts, hand[m])}
        /\ finalized' = finalized \cup {m}
        /\ EmitFinalized(m, DeepCopy(hand[m], id))
        /\ UNCHANGED <<hand, lentParts, lentDicts, receivers, given, spoiled, late, edits>>

----------------------------------------------------------------------------
\* apply_event() on the objects: snapshots are copied, an appended part is taken
\* as it is, and a part that changes is replaced by a new one.
ApplySnapshot(e) ==
    /\ Born
    /\ near' = Put(near, e.id, DeepCopy(e.message, births + 1))
    /\ CopyOnHeap(e.message, births + 1)

ApplyAppended(e) ==
    /\ near' = [near EXCEPT ![e.id].content = Append(@, e.part)]
    /\ UNCHANGED heap

ApplyToken(e) ==
    LET r == One(births + 1)
    IN  /\ Born
        /\ near' = [near EXCEPT ![e.id].content[e.index] = r]
        /\ parts' = Put(parts, r, [parts[near[e.id].content[e.index]] EXCEPT !.text = @ + 1])
        /\ UNCHANGED dicts

ApplyPatch(e) ==
    LET part == parts[near[e.id].content[e.index]]
        r == One(births + 1)
    IN  /\ Born
        /\ near' = [near EXCEPT ![e.id].content[e.index] = r]
        /\ parts' = Put(parts, r, PatchedPart(part, e.patch, r))
        /\ dicts' = PatchedDicts(dicts, part, e.patch, r)

Apply(e) ==
    IF IsSnapshot(e) THEN ApplySnapshot(e)
    ELSE IF e.id \notin DOMAIN near THEN UNCHANGED <<near, heap>>
    ELSE IF e.event = "part_appended" THEN ApplyAppended(e)
    ELSE IF e.index \notin DOMAIN near[e.id].content THEN UNCHANGED <<near, heap>>
    ELSE IF e.event = "token_delta" THEN ApplyToken(e)
    ELSE ApplyPatch(e)

\* The next event arrives in the process, and at the end of the wire.
Deliver ==
    /\ cursor < Len(log)
    /\ LET e == log[cursor + 1]
       IN  /\ Apply(e)
           /\ far' = After(far, wire[cursor + 1])
           /\ late' = IF cursor + 1 \in spoiled THEN late \cup {e.id}
                      ELSE IF IsSnapshot(e) THEN late \ {e.id} ELSE late
    /\ cursor' = cursor + 1
    /\ UNCHANGED <<hand, finalized, sent, callers, given, spoiled, touched, edits>>

----------------------------------------------------------------------------
SharingNext ==
    \/ \E m \in MessageId :
        \/ Start(m, NoMeta)
        \/ \E n \in Namespace, d \in theirDicts : Start(m, [k \in {n} |-> d])
    \/ \E m \in DOMAIN hand :
        \/ \E p \in theirParts : AppendPart(m, p)
        \/ \E field \in Field, d \in theirDicts : AddPart(m, field, d)
        \/ \E i \in DOMAIN hand[m].content :
            \/ AppendToken(m, i)
            \/ \E patch \in theirDicts \cup {Unset} : PatchPart(m, i, patch)
            \/ \E d \in theirDicts : UpdateStatus(m, i, d)
        \/ \E n \in Namespace, k \in Key : SetMeta(m, n, k)
        \/ Iterate(m)
        \/ Finalize(m)
    \/ \E p \in theirParts : EditPart(p)
    \/ \E d \in theirDicts, k \in Key : EditDict(d, k)
    \/ Deliver

SharingSpec == SharingInit /\ [][SharingNext]_sharingVars

----------------------------------------------------------------------------
\* What a sink took stays what it was: nothing a builder does to its message
\* later reaches an event that is still queued.  Only a caller's object can, one
\* that a builder was given or gave out while iterating, or one of what
\* finalize() returned; and no such object is in message_started or token_delta
\* (streaming.py:118, 127-131, 168, 240, 358-362, 370-373, 391).
SentStays ==
    \A j \in DOMAIN log :
        /\ j \notin spoiled => Serialized(parts, dicts, log[j]) = wire[j]
        /\ log[j].event \in {"message_started", "token_delta"} => j \notin spoiled

\* A receiver in the same process, which shares part objects and data with the
\* builder and with other holders of the event, has what a receiver of the
\* serialized events has: no change reaches it twice, early, or at all without an
\* event, but a caller's edit of what it lent to a builder; and never one of what
\* finalize() returned, once the event has arrived (events.py:110-117, 134, 145,
\* 162).
NearIsFar ==
    \A m \in DOMAIN near \ late : MessageValue(parts, dicts, near[m]) = far[m]

\* The message in hand is what was put in through its own builder, and what its
\* events tell, whatever callers do with what finalize() returned and other
\* builders do with the same parts and dictionaries.  Only a caller that edits
\* what it lent to a builder, or was handed while iterating, changes a content
\* unseen (streaming.py:358-362, 391); and in a dictionary within the meta passed
\* to start() nothing is lost but others may add (streaming.py:113).
HandIsOwn ==
    \A m \in DOMAIN hand :
        LET mine == MessageValue(parts, dicts, hand[m])
        IN  /\ DOMAIN mine.meta = DOMAIN given[m]
            /\ \A n \in DOMAIN mine.meta :
                  IF hand[m].meta[n] \in lentDicts THEN given[m][n] \subseteq mine.meta[n]
                  ELSE mine.meta[n] = given[m][n]
            /\ m \notin touched => mine.content = told[m].content
=============================================================================
