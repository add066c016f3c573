-------------------------- MODULE MemoryLayerCodec --------------------------
(***************************************************************************)
(* Chat history at rest: memorylayer.py, and its go and typescript ports.  *)
(* A client writes the message it holds as a MemoryLayer row, and reads    *)
(* the row back; clients of three languages may do so in turn, and amend   *)
(* the message in between.                                                 *)
(*                                                                         *)
(* A dictionary is a function from its keys.  The addr and ref of a message*)
(* hold the keys that are set (the others are null in python and absent in *)
(* go); a part keeps its null keys, which the languages treat differently. *)
(* The keys of a part other than type and text that are null by default are*)
(* one, "note"; the text of a reasoning part stands for those that are not *)
(* (a tool call's status, say).  So are all values of "x-bucket" in meta   *)
(* and of "agent_name" in meta.scitrera.                                   *)
(***************************************************************************)
EXTENDS Sequences, Functions

CONSTANTS
    None,       \* JSON null; also "no row" and "no message"
    Absent,     \* a key of a foreign row or block that is not there
    NotADict,   \* a value under meta.scitrera that is no dictionary
    Key, Value, \* keys and plain values of the dictionaries of this library
    Workspace,  \* values of workspace_id and of app_workspace
    Row,        \* what MemoryLayer gives a row: [id, thread_id, created_at]
    Client,     \* the languages in use
    Composed,   \* the messages clients compose
    Foreign,    \* the rows that others than this library wrote
    TagsAtRisk, \* whether typescript clients read rows with producer keys, which they lose
    NullsAtRisk \* whether python and typescript clients write unknown parts with null
                \* keys, which they lose

VARIABLES
    held,    \* the message in the client's hands, or None
    row,     \* the row as MemoryLayer returns it, or None
    was,     \* ghost: what the held message was composed as, and amended to
    rowWas   \* ghost: what the message in the row was

codecVars == <<held, row, was, rowWas>>

----------------------------------------------------------------------------
EmptyDict == [k \in {} |-> None]
Entry(k, v) == [x \in {k} |-> v]
Over(d, e) == [k \in DOMAIN d \cup DOMAIN e |-> IF k \in DOMAIN e THEN e[k] ELSE d[k]]
Without(d, keys) == Restrict(d, DOMAIN d \ keys)
OptionalEntry(k, v, present) == IF present THEN Entry(k, v) ELSE EmptyDict
Lookup(d, k) == IF k \in DOMAIN d THEN d[k] ELSE None

OrElse(v, fallback) == IF v = None THEN fallback ELSE v

Given(v) == v \notin {None, Absent}
GivenOr(v, fallback) == IF Given(v) THEN v ELSE fallback

\* model_dump(exclude_none=True) of python, compact() of typescript.
NonNull(d) == Restrict(d, {k \in DOMAIN d : d[k] # None})

Reserved == {"schema_version", "message_id", "created_at", "addr", "ref"}

\* Ids, roles, times and places are never empty, and roles are the schema's.
Name == Value \ {""}

\* Dictionaries with values in R.
Dicts(R) == UNION {[K -> R] : K \in SUBSET Key}

\* None and NotADict are no dictionaries, be they of plain values or of such ones.
ASSUME CodecAssumption ==
    /\ Client \subseteq {"python", "go", "typescript"}
    /\ TagsAtRisk \in BOOLEAN /\ NullsAtRisk \in BOOLEAN
    /\ {"type", "text", "note", "thread_id", "workspace_id"} \cup Reserved \subseteq Key
    /\ "" \in Value /\ {"1.0", "assistant", "text", "unknown"} \cup Workspace \subseteq Name
    /\ None \notin Value /\ Absent \notin Value \cup {None}
    /\ LET nested == Value \cup {None} \cup Dicts(Value \cup {None})
       IN  \A K \in SUBSET Key : None \notin [K -> nested] /\ NotADict \notin [K -> nested]
    /\ Row.id \in Name /\ {Row.thread_id, Row.created_at} \subseteq Name \cup {None}

\* isinstance(metadata.get("scitrera"), dict)
HasNamespace(meta) == Lookup(meta, "scitrera") \notin {None, NotADict}

\* The dictionary under meta.scitrera, when there is one.
Namespace(meta) == IF HasNamespace(meta) THEN meta["scitrera"] ELSE EmptyDict

----------------------------------------------------------------------------
\* What messages and rows are made of.
IsDict(d, R) == DOMAIN d \subseteq Key /\ d \in [DOMAIN d -> R]
IsSeq(s) == s \in Seq({s[i] : i \in DOMAIN s})

\* The types whose text is a string that is empty by default.
Textual == {"text", "reasoning"}

IsPart(p) ==
    /\ IsDict(p, Value \cup {None})
    /\ Lookup(p, "type") \in Name
    /\ p["type"] \in Textual /\ "text" \in DOMAIN p => p["text"] # None

IsAddr(a) ==
    IsDict(a, Name) /\ ("workspace_id" \in DOMAIN a => a["workspace_id"] \in Workspace)

IsNamespace(d) ==
    /\ DOMAIN d \subseteq Key /\ d = [k \in DOMAIN d |-> d[k]]
    /\ \A k \in DOMAIN d :
          d[k] # None => /\ k = "addr" => IsAddr(d[k])
                         /\ k = "ref" => IsDict(d[k], Value)
                         /\ k \in Reserved \ {"addr", "ref"} => d[k] \in Name
                         /\ k \notin Reserved => d[k] \in Value

IsMeta(meta) ==
    /\ meta = [k \in DOMAIN meta |-> meta[k]]
    /\ "app_workspace" \in DOMAIN meta => meta["app_workspace"] \in Workspace
    /\ HasNamespace(meta) => IsNamespace(meta["scitrera"])

\* The library's own names under meta.scitrera are not for callers.
IsMessage(m) ==
    /\ m = [schema_version |-> m.schema_version, id |-> m.id, role |-> m.role,
            created_at |-> m.created_at, content |-> m.content, addr |-> m.addr,
            meta |-> m.meta, ref |-> m.ref]
    /\ {m.schema_version, m.id, m.role} \subseteq Name
    /\ m.created_at \in Name \cup {None}
    /\ IsSeq(m.content) /\ \A i \in DOMAIN m.content : IsPart(m.content[i])
    /\ IsAddr(m.addr)
    /\ IsMeta(m.meta) /\ DOMAIN Namespace(m.meta) \cap Reserved = {}
    /\ m.ref = None \/ IsDict(m.ref, Value)

IsBlock(b) ==
    /\ b = [type |-> b.type, text |-> b.text, data |-> b.data]
    /\ b.type \in Name \cup {None} /\ b.text \in Value \cup {None, Absent}
    /\ IsDict(b.data, Value \cup {None}) /\ "type" \notin DOMAIN b.data
    /\ b.type \in Textual /\ "text" \in DOMAIN b.data => b.data["text"] # None

IsRow(r) ==
    /\ r = [id |-> r.id, thread_id |-> r.thread_id, created_at |-> r.created_at,
            role |-> r.role, content |-> r.content, metadata |-> r.metadata]
    /\ r.id = Row.id /\ r.thread_id = Row.thread_id /\ r.created_at = Row.created_at
    /\ r.role \in Name \cup {None, Absent}
    /\ r.content.string \in Value \cup {None}
    /\ IsSeq(r.content.blocks)
    /\ \A i \in DOMAIN r.content.blocks : IsBlock(r.content.blocks[i])
    /\ IsMeta(r.metadata)

ASSUME InputAssumption ==
    /\ \A m \in Composed : IsMessage(m)
    /\ \A r \in Foreign : IsRow(r)

----------------------------------------------------------------------------
\* A part as a content block: type and text are MemoryLayer's own, the rest is data.
BlockOf(dump) ==
    IF dump["type"] = "text"
    THEN [type |-> "text", text |-> OrElse(Lookup(dump, "text"), ""), data |-> Without(dump, {"type", "text"})]
    ELSE [type |-> dump["type"], text |-> Absent, data |-> Without(dump, {"type"})]

\* Go writes the raw part, with the nulls it has.
PartToMLContent(l, part) == BlockOf(IF l = "go" THEN part ELSE NonNull(part))

\* Mutation: a block without a type gives a part without one.
BlockToPartMapUntyped(block) ==
    LET start == Over(Entry("type", block.type), OptionalEntry("text", GivenOr(block.text, ""), block.type = "text"))
        inner == Over(start, block.data)
    IN  Over(OptionalEntry("text", block.text, Given(block.text)), inner)

\* The part's own keys: the text of a text part, overridden by data, and a text
\* on the block of another type when data has none.
BlockToPartMap(block) ==
    LET type  == IF block.type = None THEN "unknown" ELSE block.type
        start == Over(Entry("type", type), OptionalEntry("text", GivenOr(block.text, ""), type = "text"))
        inner == Over(start, block.data)
    IN  Over(OptionalEntry("text", block.text, Given(block.text)), inner)

\* The declared fields of a class of parts, but for its type.
Defaults(type) ==
    Over(OptionalEntry("note", None, type # "unknown"),
         Over(OptionalEntry("text", "", type \in Textual),
              OptionalEntry("text", None, type = "feedback")))

\* Python's part objects have every declared field.
PartOf(l, block) ==
    LET part == BlockToPartMap(block)
    IN  IF l = "python" THEN Over(Defaults(part["type"]), part) ELSE part

\* Mutation: typescript does not know legacy messages.
MLContentToPartsNoString(l, content) ==
    IF l = "typescript" THEN [i \in DOMAIN content.blocks |-> PartOf(l, content.blocks[i])]
    ELSE IF content.string = None
    THEN [i \in DOMAIN content.blocks |-> PartOf(l, content.blocks[i])]
    ELSE IF content.string = "" THEN <<>>
    ELSE <<PartOf(l, [type |-> "text", text |-> content.string, data |-> EmptyDict])>>

\* Content is a list of blocks, or the string of a legacy message.
MLContentToParts(l, content) ==
    IF content.string = None
    THEN [i \in DOMAIN content.blocks |-> PartOf(l, content.blocks[i])]
    ELSE IF content.string = "" THEN <<>>
    ELSE <<PartOf(l, [type |-> "text", text |-> content.string, data |-> EmptyDict])>>

----------------------------------------------------------------------------
\* The message's own fields, as they go under metadata.scitrera.
SpecExtras(m) ==
    Over([schema_version |-> m.schema_version, message_id |-> m.id],
         Over(OptionalEntry("created_at", m.created_at, m.created_at # None),
              Over(OptionalEntry("addr", m.addr, m.addr # EmptyDict),
                   OptionalEntry("ref", m.ref, m.ref \notin {None, EmptyDict}))))

\* Mutation: the message's workspace replaces the one the caller put there.
WithAppWorkspaceForced(m) ==
    Over(m.meta, OptionalEntry("app_workspace", Lookup(m.addr, "workspace_id"),
                               "workspace_id" \in DOMAIN m.addr))

\* metadata.setdefault("app_workspace", addr.workspace_id)
WithAppWorkspace(m) ==
    Over(OptionalEntry("app_workspace", Lookup(m.addr, "workspace_id"),
                       "workspace_id" \in DOMAIN m.addr),
         m.meta)

\* The message's fields win over what the caller has under their names.
BuildMLMetadata(m) ==
    Over(WithAppWorkspace(m), Entry("scitrera", Over(Namespace(m.meta), SpecExtras(m))))

\* The payload; of a message's undeclared top-level keys, which are not modelled,
\* none is written.
ToMemoryLayerPayload(l, m) ==
    [role     |-> m.role,
     content  |-> [string |-> None,
                   blocks |-> [i \in DOMAIN m.content |-> PartToMLContent(l, m.content[i])]],
     metadata |-> BuildMLMetadata(m)]

\* MemoryLayer keeps the payload as given, under an id, a thread and a time of its own.
Stored(payload) ==
    [id |-> Row.id, thread_id |-> Row.thread_id, created_at |-> Row.created_at,
     role |-> payload.role, content |-> payload.content, metadata |-> payload.metadata]

----------------------------------------------------------------------------
\* thread_id and workspace_id fall back to what MemoryLayer itself knows.
FilledAddr(r) ==
    LET addr == OrElse(Lookup(Namespace(r.metadata), "addr"), EmptyDict)
        ws   == Lookup(r.metadata, "app_workspace")
    IN  Over(Over(OptionalEntry("thread_id", r.thread_id, r.thread_id # None),
                  OptionalEntry("workspace_id", ws, ws # None)),
             addr)

\* Mutation: the reader drops the index key once addr has the workspace.
OwnMetaUnindexed(r) == Without(r.metadata, {"scitrera", "app_workspace"})

OwnMeta(r) == IF HasNamespace(r.metadata) THEN Without(r.metadata, {"scitrera"}) ELSE r.metadata

\* The producer keys a row has under meta.scitrera.
Residual(r) == Without(Namespace(r.metadata), Reserved)

\* Mutation: the reader leaves the message's own fields under meta.scitrera.
ReadMetaKeepsReserved(l, r) == r.metadata

\* Python and go put back the keys under meta.scitrera that are not the message's
\* own fields; typescript does not.
ReadMeta(l, r) ==
    IF l = "typescript" \/ Residual(r) = EmptyDict THEN OwnMeta(r)
    ELSE Over(OwnMeta(r), Entry("scitrera", Residual(r)))

\* Python validates where the others fall back: it raises at a null role, a null
\* schema_version, and a text block whose text is null and not in its data.
Readable(b) == b.type = "text" /\ b.text = None => "text" \in DOMAIN b.data

CanRead(l, r) ==
    l = "python" =>
        /\ r.role # None
        /\ Lookup(Namespace(r.metadata), "schema_version") = None
              => "schema_version" \notin DOMAIN Namespace(r.metadata)
        /\ r.content.string = None => \A i \in DOMAIN r.content.blocks : Readable(r.content.blocks[i])

\* What l reads from a row that it can read.
FromMemoryLayerMessage(l, r) ==
    LET extras == Namespace(r.metadata)
    IN  [schema_version |-> OrElse(Lookup(extras, "schema_version"), "1.0"),
         id             |-> OrElse(Lookup(extras, "message_id"), r.id),
         role           |-> GivenOr(r.role, "assistant"),
         created_at     |-> OrElse(Lookup(extras, "created_at"), r.created_at),
         content        |-> MLContentToParts(l, r.content),
         addr           |-> FilledAddr(r),
         meta           |-> ReadMeta(l, r),
         ref            |-> IF Lookup(extras, "ref") = EmptyDict THEN None ELSE Lookup(extras, "ref")]

\* Mutation: python pops the namespace off the caller's row.
RowAfterReadPops(l, r) ==
    IF l = "python" THEN [r EXCEPT !.metadata = Without(@, {"scitrera"})] ELSE r

\* Python fills in the fallbacks in the caller's own addr dictionary.
RowAfterRead(l, r) ==
    IF l = "python" /\ Lookup(Namespace(r.metadata), "addr") \notin {None, EmptyDict}
    THEN [r EXCEPT !.metadata =
            Over(@, Entry("scitrera", Over(@["scitrera"], Entry("addr", FilledAddr(r)))))]
    ELSE r

----------------------------------------------------------------------------
CodecInit ==
    \/ /\ held \in Composed /\ was = held
       /\ row = None /\ rowWas = None
    \/ /\ row \in Foreign /\ rowWas = None
       /\ held = None /\ was = None

\* A part of a type this library does not know has no keys that are null.
NoNulls(p) == p["type"] = "unknown" => NonNull(p) = p

MayWrite(l, m) == NullsAtRisk \/ l = "go" \/ \A i \in DOMAIN m.content : NoNulls(m.content[i])

Write(l) ==
    /\ held # None
    /\ MayWrite(l, held)
    /\ row' = Stored(ToMemoryLayerPayload(l, held))
    /\ rowWas' = was
    /\ UNCHANGED <<held, was>>

MayRead(l, r) == TagsAtRisk \/ l # "typescript" \/ Residual(r) = EmptyDict

\* The row is read anew, or once more from where the last reader left it.
Read(l) ==
    /\ row # None
    /\ MayRead(l, row)
    /\ CanRead(l, row)
    /\ held' = FromMemoryLayerMessage(l, row)
    /\ was' = IF rowWas = None THEN held' ELSE rowWas
    /\ rowWas' = was'
    /\ row' \in {row, RowAfterRead(l, row)}

\* The reader raises; it may have filled in the addr of the row by then.
FailToRead(l) ==
    /\ row # None
    /\ ~CanRead(l, row)
    /\ row' \in {row, RowAfterRead(l, row)}
    /\ UNCHANGED <<held, was, rowWas>>

\* The client amends the message it holds.
DropRef ==
    /\ held # None
    /\ held' = [held EXCEPT !.ref = None] /\ was' = [was EXCEPT !.ref = None]
    /\ UNCHANGED <<row, rowWas>>

Moved(m, w) == [m EXCEPT !.addr = Over(@, Entry("workspace_id", w))]

Move(w) ==
    /\ held # None
    /\ held' = Moved(held, w) /\ was' = Moved(was, w)
    /\ UNCHANGED <<row, rowWas>>

CodecNext ==
    \/ \E l \in Client : Write(l) \/ Read(l) \/ FailToRead(l)
    \/ DropRef
    \/ \E w \in Workspace : Move(w)

CodecSpec == CodecInit /\ [][CodecNext]_codecVars

----------------------------------------------------------------------------
\* A client only ever holds messages that validate: parts have their type and text
\* parts their text, whatever the row lacked; and rows are ones MemoryLayer takes
\* (memorylayer.py:126-177).
CodecTypeOK ==
    /\ held # None => IsMessage(held) /\ IsMessage(was)
    /\ row # None => IsRow(row)
    /\ rowWas # None => IsMessage(rowWas)

Within(d, e) == \A k \in DOMAIN d : k \in DOMAIN e /\ e[k] = d[k]

\* What a part says: a key that is null says nothing, one that is missing its default.
\* A part of an unknown type says what it is, null keys included ("preserved verbatim",
\* schema.py:273-274).
Full(p) == IF p["type"] = "unknown" THEN p ELSE NonNull(Over(Defaults(p["type"]), p))

SameContent(c, d) ==
    Len(c) = Len(d) /\ \A i \in DOMAIN c : Full(c[i]) = Full(d[i])

\* The message m has everything that w has.
Keeps(m, w) ==
    /\ m.schema_version = w.schema_version /\ m.id = w.id /\ m.role = w.role
    /\ w.created_at # None => m.created_at = w.created_at
    /\ OrElse(m.ref, EmptyDict) = OrElse(w.ref, EmptyDict)
    /\ SameContent(m.content, w.content)
    /\ Within(w.addr, m.addr)
    /\ Within(Without(w.meta, {"scitrera"}), m.meta)
    /\ Within(Namespace(w.meta), Namespace(m.meta))

\* "Reconstructs the original spec ChatMessage losslessly" (memorylayer.py:64-65):
\* however often a message is written and read, by whichever clients, and amended
\* in between, no declared field, part or meta key of it is lost and nothing that was
\* taken out comes back.
Lossless == held # None => Keeps(held, was)

\* The message m has nothing that w has not, but what MemoryLayer knows.
Fills(m, w) ==
    /\ m.created_at \in {w.created_at, Row.created_at}
    /\ \A k \in DOMAIN m.addr \ DOMAIN w.addr :
          \/ k = "thread_id" /\ m.addr[k] = Row.thread_id
          \/ k = "workspace_id" /\ m.addr[k] = Lookup(m.meta, "app_workspace")
    /\ DOMAIN m.meta \ DOMAIN w.meta \subseteq {"app_workspace"}
    /\ DOMAIN Namespace(m.meta) \cap Reserved = {}

\* Reading adds only what MemoryLayer knows: its time, its thread, and the workspace
\* under either of its two names; none of the message's own fields stays behind
\* under meta.scitrera, where the next write would pick it up.
OnlyFilled == held # None => Fills(held, was)

\* The reference codecs agree (memorylayer.go:13-14, memorylayer.ts:12-13): those that
\* can read a row, whoever wrote it, read the same message from it, and what one of
\* them writes the others can read.  Rows of others may hold nulls where python raises
\* (memorylayer.py:104, 106, 164) and go and typescript fall back.
ReadersAgree ==
    /\ row # None =>
          \A l, k \in {c \in Client : MayRead(c, row) /\ CanRead(c, row)} :
              LET a == FromMemoryLayerMessage(l, row)
                  b == FromMemoryLayerMessage(k, row)
              IN  /\ [a EXCEPT !.content = <<>>] = [b EXCEPT !.content = <<>>]
                  /\ SameContent(a.content, b.content)
    /\ held # None => \A l, k \in Client : CanRead(k, Stored(ToMemoryLayerPayload(l, held)))

\* The row stays indexed under the workspace the message came from
\* (memorylayer.py:40-41), which is not where it is now: a client that reads a
\* row, moves the message and writes it back keeps the index key, and a message
\* that had none is indexed where it first is written with a workspace.
OriginStays ==
    row # None =>
        \A l, k \in Client, w \in Workspace : CanRead(l, row) =>
            LET read   == FromMemoryLayerMessage(l, row)
                stored == ToMemoryLayerPayload(k, Moved(read, w)).metadata
                origin == Lookup(row.metadata, "app_workspace")
            IN  stored["app_workspace"] = OrElse(origin, w)
=============================================================================
