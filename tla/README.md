# Verification of the ecosystem messaging spec

The repository defines one chat-message schema and the code that moves such
messages around, in Python, Go and TypeScript. Its only long-lived, concurrent
and failure-prone behaviour is streaming: a sender builds a message part by
part, emits an event for each change, and receivers rebuild the message from
the events. That is the core of the models. Around it are the conversions: to
the rows of a history store and back, and to the formats of model providers.

Paths below are relative to `src/python/src/scitrera_messaging_spec/` unless
they start with `src/`.

## Inventory

| Component | State | Operations | Hard behaviour |
|---|---|---|---|
| `MessageBuilder` (`streaming.py`) | message in hand, two id-to-index dictionaries, finalized flag | start, add_*, append_part, append_token, patch_part, update_*_status, set_meta, finalize, `__exit__` | the sink is the caller's and may raise in the middle of a mutator; ids must keep leading to their part while parts morph; calls after finalize |
| Reducer (`events.py`) | a map from message id to message | `apply_event`, five events | interleaved messages; indices that drift after a loss; a patch that no longer validates; repeated events |
| Senders, transport, receivers | the events in order, each receiver's place in them | deliver, lose, repeat, join late | agreement of the receivers with the sender, at each event and at the end |
| Shared objects (`streaming.py`, `events.py`) | the parts and dictionaries that callers, builders, queued events and receivers of one process hold together | copy, replace, edit in place | an event that changes while it is queued; a change that reaches a receiver twice or without an event |
| Schema (`schema.py`) | none | pydantic validation of parts and messages | a patched part must validate as the class its new type selects; extras survive |
| Reducer ports (`src/go/applyevent.go`, `src/typescript/src/applyEvent.ts`) | as the reducer | as the reducer | must agree "fixture-for-fixture" (`events.py:16-17`) and differ on validation |
| MemoryLayer codecs (`memorylayer.py`, `src/go/memorylayer.go`, `src/typescript/src/memorylayer.ts`) | none of their own; the row they read and write | split into columns and metadata, join | what survives several round trips through clients of different languages; reserved keys; fallbacks; Python changes the row it reads |
| LangChain adapter (`langchain.py`) | the walk's pending texts, calls and results; the message open on the way back | split one message into several, group them back, and split again when a conversation resumes | order and pairing of tool calls and results; messages the library did not write |
| Wire adapters (`adapters.py`) | none | OpenAI and Anthropic entries, persisted cowork turns, runtime envelopes | results are split off; what is dropped; which of two ids wins |
| Tools (`tools.py` and ports) | none | one tool envelope | |
| Schema ports (`src/go/schema.go`, `src/typescript/src/schema.ts`) | none | declarations and JSON | |
| Documented protocols (approval, cancel, todo, subagent threads) | not in the repository | | rules for users of the library, no code |

`PROJECT.json` lists every hazard at its line with the property that covers it,
or why none does yet.

## Plan

1. Streaming core (done): `ChatParts`, `EventReducer`, `MessageBuilder`,
   `EventStream`, with their proofs.
2. The promise of streaming as an abstract specification (done):
   `MessageMirror`, which `EventStream` implements (`StreamRefinement`), checked
   and proved. `ReducerPorts` (done): the three reducers on the same streams.
3. `MemoryLayerCodec` (done): several writes and reads of one message by
   clients of the three languages, and where a moved message stays indexed.
   Left: a run about undeclared keys.
4. `LangChainSplit`, `ProviderAdapters` and `CoworkTurns` (done): threads of this
   library, other programs' LangChain histories, persisted cowork turns. Left:
   `from_rt_envelope`.
5. `ObjectSharing` (done): object identity of parts, the callers' own included, of
   the dictionaries in them, in metas and in patches, and of snapshots.
6. More proofs. Done: the refinement of step 2, `FinalMatches`, `DeltaIsUpdate`; the
   sender's index and status updates; the agreement of the reducers; object sharing;
   the codecs; the LangChain adapter; the other adapters. Every safety property that
   a passing run checks is now a theorem. Left: nothing that these provers reach.

## Modules

* **ChatParts**. A part, a dumped part (`model_dump`) and a patch are records
  with the same six fields; `Absent` is a missing key and `None` JSON null, which
  merging and validation tell apart. `Merge` is `{**dump, **patch}`, `Valid` and
  `Validated` the adapter's `validate_python`: which class the type selects, its
  required fields, its defaults, undeclared keys kept. Text is a sequence of
  streamed pieces. `"unknown"` is every type the code does not know, and also
  stands for the types whose fields no stream operation looks at; `"bogus"` is a
  status outside the literal.
* **EventReducer**. The events and `apply_event`. Content is a sequence and the
  events' indices stay 0-based. `Raises` is the one case where `apply_event`
  raises. An incremental event is looked up by `message_id` and stored under
  `message.id`, as in the code.
* **MessageBuilder**. One action per mutator of the builder, for any number of
  messages at once. Each action that emits has an `outcome`: the sink took the
  event, raised without taking it, or raised after taking it; in the last two
  the mutator stops there, with the content changed and the index not. A call
  the code rejects changes nothing and is no step. `Restart` is a new builder
  for the same id after the sender died. `skewed` is a ghost: messages whose
  content the emitted events do not account for since the sink refused one.
* **EventStream**. The senders of `MessageBuilder`, and receivers that fold
  `apply_event` over the log of events (`events.py:9-14`). The transport is not
  in the repository: it keeps order, and may lose an event, deliver the last one
  again, or drop a receiver that rejoins with nothing. The loop catches
  nothing: a receiver whose reducer raises is at its end (`failed`) until it
  rejoins. `Leave` is the end of the with-block, once for a message (`left`):
  `__exit__` finalizes unless that is done already, and a sink that refuses the
  final event, or raises after it took it, is the end of the matter. `held`
  is a history (what the senders held after each event) and `gap` a ghost (which
  messages a receiver missed something of since their last snapshot).
* **MessageMirror** says what streaming promises without events, parts or faults:
  versions of the messages are published one after the other, and every reader
  moves forward through them, blind to some messages and seeing all of the
  others. **StreamRefinement** maps `EventStream` to it: the versions are `held`, a
  reader's place is its cursor, it is blind to its `gap`, and it sees the contents
  in its map.
* **ObjectSharing**. The same builder and reducer over a heap of parts and
  dictionaries, since Python shares what the other modules copy. Callers have
  parts and dictionaries of their own (`CallerPart`, `CallerDict`), and more of them
  as they iterate over a builder (`Iterate` hands out the parts in hand) and from
  what `finalize` returns. A part is the number of its tokens and one dictionary of
  data, in a field declared `Any` or undeclared, which keeps the caller's object, or in one
  declared a dictionary, which validation copies (`Field`). `append_part` takes the
  caller's part as it is and puts it into the content and the event (`AppendPart`),
  `add_*` make a part around the caller's data (`AddPart`), `part_updated` carries the
  caller's patch, which the new part may share (`PatchedPart`), `start` keeps the
  dictionaries within the meta it is given, `set_meta` adds to them in place, an
  in-process receiver takes appended parts and patches as the event holds them, and
  snapshots are deep copies, of which `finalize` gives the event and the caller the
  same one. `EditPart` and `EditDict` are a caller that writes into what it holds.
  Beside each holder stands what it would hold if every event were serialized where
  it is emitted (`wire`, `told`, `far`, `given`). Which objects a builder took or gave
  out is in `lentParts` and `lentDicts`, and which events, messages near and messages in
  hand a caller's edit reached in `spoiled`, `late` and `touched`. The sink and
  validation are assumed not to fail here, which is `MessageBuilder`'s subject.
* **ReducerPorts**. One receiver for each language, fed the same events of one
  stream; a fault of the transport hits all three alike. `GoApplyEvent` and
  `TsApplyEvent` are the two ports: their parts are raw JSON, so nothing is
  validated and no default is filled in (Go refuses a part without a type, and
  nothing else). The clamped insertion is the same in the three. A Python receiver
  whose reducer raises keeps the state it had. `PortsAgree` compares the messages
  up to defaults.
* **MemoryLayerCodec**. A client holds a message, MemoryLayer a row. `Write` and
  `Read` are the codecs of each language; dictionaries are functions from their keys,
  so that merging, `setdefault` and dropping keys are what they are in the code. What
  differs is in the operators that take the language: Go writes the raw part where the
  others leave its null keys out (`PartToMLContent`), Python fills in declared fields
  (`Defaults`) and the `addr` of the row it reads (`RowAfterRead`: the row may then be
  read again) and validates, so that a null role, a null `schema_version` and a text
  block whose text is null make it raise where the others fall back (`CanRead`,
  `FailToRead`), TypeScript does not put the producer keys of `meta.scitrera` back
  (`ReadMeta`). Between two calls a client may take out the `ref` or move the message
  (`DropRef`, `Move`). Rows of other producers are initial states, with keys that are
  null or not there (`Absent`). `TagsAtRisk` and `NullsAtRisk` let clients do what
  loses something: a TypeScript client read producer keys, and a Python or TypeScript
  one write a part of an unknown type that has null keys (`MayRead`, `MayWrite`).
  `was` and `rowWas` are ghosts: the message as composed and amended. `IsMessage`,
  `IsRow` and their parts are the schema as far as the codecs depend on it; `Key` and
  `Value` bound the keys and values of the dictionaries, and a `Name` is never empty.
  Parts of types the schema knows are compared with their defaults filled in and their
  nulls left out, parts of unknown types as they are (`Full`): only the latter are
  promised verbatim.
* **LangChainSplit**. `to_lc_messages` and `from_lc_messages` as steps: one action per
  kind of part of an assistant message, with the pending texts, calls and results as
  variables, `Group` the AI message and tool messages a flush emits, `Convert` for the
  other roles; then one action per kind of LangChain message, with `pendingAssistant`
  the message still open on the way back. `prior` is the list the caller already has,
  which may hold what `to_lc_messages` never makes (AI messages with nothing in them,
  tool messages nobody asked for, unknown classes: `Other`, and calls without an id,
  for which the way back makes one up: `Named`, `NewId`). A result has a text or an
  output, which may be a string, null or anything else; a tool message says what
  `ResultText` says, and is empty for null. `Resume`
  converts the thread that came back once more. `AnyMessage` and `AnyLC` say what a
  message of either kind may be (`Kind`, `Id` and `Token` bound the kinds of parts,
  the ids and the text); the runs convert the finite set `Given` of them.
* **ProviderAdapters**. `to_openai_chat_completion` and `to_anthropic_messages` as
  operators on the same threads. Both accumulate by kind, so a rendering is what
  `OfKind` selects. They show a result without a text as its JSON, whatever it
  is (`AsShown`; in `JsonText`, which is `json.dumps`, a string gets a `Quote`). `FitsItsRole` says which parts a message of each role has
  (`RolesFit`: all given messages do), and `ThreadAnswersInTurn` that each result
  comes after its call, in the same message or in tool messages right behind it.
* **CoworkTurns**. `from_cowork_blocks` on persisted turns, which then go through the
  three renderings. A block is a function from field names, its payload under `data`
  or beside it, and merging the two is `Over`. What a block type of the table becomes
  is `MappedPart`, any other becomes an unknown part, which the message may refuse
  (`Refused`). A result is what `CoworkResult` makes of the two fields it may be in.
  `says` is what cowork meant by the blocks, one part for each (`SaidBy`): the
  reference the rendered turn is compared with.
* **MCMessageBuilder**, **MCEventStream**, **MCObjectSharing**, **MCReducerPorts**,
  **MCMemoryLayerCodec**, **MCAdapters**: inputs for TLC. **MCPlainPorts** is
  MCReducerPorts with the condition on its inputs (`PlainTexts`) under which the
  reducers agree.
* **MessageBuilderProofs**, **StreamSyncProofs** (the refinement of `MessageMirror`
  included), **PortsProofs**, **ObjectSharingProofs**, **MemoryLayerCodecProofs**,
  **LangChainProofs**, **AdapterProofs**: lemmas, theorems and proofs. **SequenceFacts**
  has the facts about sequences of any length that the last two rest on.

Definitions whose comment says *Mutation* are plausible bugs of the definition
below them. Each property of a passing run is violated by one of them.

## Runs

| Run | Checks | Bounds |
|---|---|---|
| `builder_edits` | `BuilderTypeOK`, `IndexSound`, `NoDuplicateIds`, `StatusReachesItsPart` | one message, two ids, up to 4 events before the last edit, edits after finalize, a restart |
| `builder_sink_failure` | `NoDuplicateIds`, violated | the sink raises once |
| `stream_faults` | `StreamTypeOK`, `InSync`, `NeverRaises`, `FinalMatches`, `ImplementsMirror`, `Converges` | one message, one receiver, two faults of any kind but the loss of a final event, 3 events before the last edit, `set_meta` |
| `stream_two_messages` | `EventsTell`, `InSync`, `NeverRaises`, `FinalMatches`, `ImplementsMirror` | two messages (symmetric), one receiver, one fault of any kind, the loss of a final event included, 4 events before the last edit |
| `stream_lost_event` | `FinalEventReaches`, violated | one event lost, no other fault; a patch that morphs a part or takes its text |
| `object_sharing` | `SentStays`, `NearIsFar`, `HandIsOwn` | two messages (symmetric), one receiver in the process, a part and a dictionary of a caller's, 4 events, 5 steps that create objects, one edit by a caller |
| `ports_agree` | `PortsAgree` | one message, two faults of any kind; every patch is one any part can take, and only text and reasoning parts have a text |
| `ports_feedback_delta` | `PortsAgree`, violated | no fault; a patch gives a text to any part |
| `codec_clients` | `CodecTypeOK`, `Lossless`, `OnlyFilled`, `ReadersAgree`, `OriginStays` | one message of up to two parts or one foreign row, keys of parts, blocks and rows null or missing, clients of three languages, two workspaces, any number of steps; TypeScript clients do not read rows with producer keys, and only Go clients write unknown parts that have null keys |
| `codec_typescript` | `Lossless`, violated | messages with producer keys, which TypeScript clients read |
| `adapters_threads` | `ChronologyKept`, `ComesBack`, `RoundsStayPaired`, `ComesBackInline`, `ResumesTheSame`, `SameForEveryProvider`, `ProvidersAnswerInTurn`, `FilesMentioned`, `TurnComesThrough` | every assistant message of up to five parts (a text, two calls, their results, a part that is dropped); every thread of up to three messages, of users with up to two parts, assistants, systems and tools; every LangChain history of up to three messages out of nine, before nothing, a late result or a round; every cowork turn of up to two blocks in every way to write them |
| `langchain_late_result` | `ResultsFollowTheirCall`, violated | the assistant messages |

The bounds are enough for the cases that matter. `MaxLog` stops edits once that
many events were sunk. Three hold a start, a part that has a text, and a token that
extends it, a patch that morphs it or an update of a status, and the final event
comes after them; so index drift, a duplicate, a clobbered meta key and a patch
that no longer validates all occur. With four, two messages can both be open and
both be edited. Two faults allow a loss followed by a repetition or a restart. One
receiver is enough because receivers share nothing.
A message can be finalized and delivered whatever `MaxLog` is, so a
behaviour stops only when everything is done, which is why deadlock is not
checked; nor is it in the adapter runs, where a thread that came back is the end,
nor in `object_sharing`, which stops at its bounds.
`LateEdits` is FALSE in the passing stream runs: callers do not edit a message
they have finalized (the findings say what happens when they do).

The codec's state space is finite without a bound: writing and reading settle
after a few rounds. A message has either varied parts and a plain envelope or a
plain part and a varied envelope, since the code never relates the two. Five
parts are the least in which a result can come late (two calls, a result, a text,
the other result), and three messages let a tool message be preceded by something
else than its call. Three LangChain messages hold an AI message with two calls, one
answer and a stray message. Two cowork blocks hold a call and its result, or a block
that makes the turn fail and one that suffers for it; blocks are converted one by one.

In `object_sharing`, five births hold a caller's dictionary that gets into two
parts of two messages, a patch with it, or a start, a part, an edit of it, a final event
and a receiver's copy; four events are as many as need to be queued for an edit
to reach some and pass others by. One edit suffices, as one that shows anywhere it
should not is a violation at once, and so does one receiver, as receivers share
nothing but what they take from events.

### Findings

* A sink that raises inside `add_tool_call` or `add_subagent` leaves the part in
  the message and its id out of the index; the retry is accepted, and the message
  carries the id twice (`streaming.py:198-199`, against
  `src/python/tests/test_streaming.py:86-90`).
* When an append or a morphing patch was lost, a later `part_updated` may not
  validate on a receiver's copy. `apply_event` raises, the documented loop catches
  nothing (`events.py:9-14`), and the receiver is gone before the final snapshot that
  is there for clients which "dropped events" (`events.py:156`, against `events.py:80-82`).
* A part that has a text and is neither text nor reasoning (feedback with a reason)
  grows by `append_token` at the sender and in Python receivers, and does not in Go
  and TypeScript ones (`events.py:142-144`, `src/go/applyevent.go:85`,
  `src/typescript/src/applyEvent.ts:77`).
* A TypeScript client drops the producer keys under `meta.scitrera` (`agent_name`,
  `feedback`) when it reads a row (`src/typescript/src/memorylayer.ts:91`), against
  `memorylayer.py:36-37` and `src/docs/UNIVERSAL_MESSAGE_SPEC.md:528`.
* With two calls in flight and a text after the first result, the second result
  ends up behind an AI message that does not have its call (`langchain.py:156`,
  against `langchain.py:107-108`). The OpenAI and Anthropic renderings of the same
  message do not have this (`ProvidersAnswerInTurn`).

The passing runs stay clear of more differences by their inputs, or say in a
property what the code does:

* `finalize` promises "the same snapshot" on a second call (`streaming.py:124-125`)
  and returns the message as it is then.
* Edits after finalize also reach the receivers, whose message then differs from
  the `message_finalized` payload (`FinalMatches` fails when `LateEdits` is TRUE).
* A patch that does not validate raises in Python and is applied in Go and
  TypeScript. It takes a lost event for one to arrive, since the sender validates:
  `PortsAgree` fails with the inputs of `stream_faults`.
* Python and TypeScript write a part of an unknown type without its null keys
  (`memorylayer.py:137`, `src/typescript/src/memorylayer.ts:139`), against "preserved
  verbatim" (`schema.py:273-274`, `src/docs/UNIVERSAL_MESSAGE_SPEC.md:456-457`). Go
  writes it as it is. `Lossless` fails when `NullsAtRisk` is TRUE.
* A row with a null role, a null `schema_version` or a text block without its text is
  read in Go and TypeScript and raises in Python (`memorylayer.py:104`, `106`, `164`),
  which the ports say they mirror (`src/go/memorylayer.go:13-14`). `ReadersAgree` is
  about the clients that can read the row.
* A result whose output is a string and which has no `output_text`, as the docs want
  it (`src/docs/UNIVERSAL_MESSAGE_SPEC.md:146-147`), is shown to a LangChain model as
  that string, and in quotation marks to the others (`adapters.py:256-258`,
  `338-340`); a null output is an empty text and `null`. `SameForEveryProvider` compares
  LangChain's results with the others' for threads without such outputs.
* Undeclared keys at the top level of a message are not written to MemoryLayer by
  any port; `Lossless` is about the declared fields.
* A message that was read, moved to another workspace and written again stays
  indexed under the old one, because `setdefault` takes the `app_workspace` of the
  first write for the caller's own. The docs call it the index key of the message's
  origin, and `OriginStays` states it.
* A file sent along with an image is missing from the OpenAI rendering, and files are
  always missing from the Anthropic one (`FilesMentioned` leaves both out). Neither is
  among the losses the docs list or exclude.
* One cowork block of a type the schema knows and `from_cowork_blocks` does not map
  (`reasoning`, `image`), or whose payload has such a `type`, becomes an `UnknownPart`
  that the message refuses: the conversion raises and the turn is lost
  (`adapters.py:198`). `TurnComesThrough` is about the other turns.
* The dictionaries within the meta a caller passes to `start` stay the caller's: two
  messages started from one meta dictionary share what `set_meta` adds to it
  (`streaming.py:113`). `HandIsOwn` allows for it.
* Builders, queued events and in-process receivers keep the part a caller hands to
  `append_part`, payloads and outputs declared `Any`, undeclared fields and patches as
  the caller's own objects (`streaming.py:358-362`, `240`, `370-373`), and iterating
  over a builder hands out the parts in hand (`streaming.py:391`). A caller that
  writes into one of these changes the message unseen, and every event with it that is
  still queued; edits of what `finalize` returned reach the event it emitted and
  nothing else (`streaming.py:127-131`). `SentStays`, `NearIsFar` and `HandIsOwn` except
  exactly the holders such an edit reaches, and no others.

A difference that is documented is no finding: an event of an unknown kind raises
in Python and is dropped by the ports.

### Fairness

`Converges`, in `stream_faults`, assumes that the transport keeps delivering to
receivers that have not stopped (weak fairness of `Deliver`) and that the with-block of
a builder that was opened ends (weak fairness of `Leave`): `__exit__` calls
`finalize` even when the block raised, and calls it once (`streaming.py:382-388`).
That the sink takes the event is not assumed, and nobody tries again: `Converges`
leaves out the messages whose sink raised at that call, and the receivers that an
event they could not apply has ended. Nothing is assumed of edits, faults or restarts.

## Proofs

The theorems hold for all values of the constants: any sets of messages, ids,
parts, patches and receivers, any faults in any number.

* `BuilderTypeCorrect` and `StreamTypeCorrect`: the type invariants are inductive.
  What they say beyond shape is that every part in a builder, an event or a
  receiver is one validation would return, for which `MergeIsDict`,
  `ValidatedIsPart`, `AppendedTyped`, `DeltaTyped` and `UpdatedTyped` are the
  reducer's half.
* `IndexStaysSound` and `IdsStayUnique`, when the sink does not raise (with one that
  does they are false, as `builder_sink_failure` shows), and `StatusUpdatesReach`,
  whatever the sink does. All three assume `PlainInputs`: tracked parts come through
  `add_tool_call` and `add_subagent`, and patches neither rename a part nor make a
  tracked one of another, as everywhere in the repository. The invariant has two
  halves. That an id leads to its part (`Leads`) is inductive on its own, because a
  sink that raises leaves an id out and never puts a wrong one in; status updates
  need no more. That every tracked part is listed (`Listed`) is the half that a
  raising sink breaks. Appending lands behind everything indexed (`AppendedSound`),
  and an edit moves and renames nothing (`Morphed`, `MorphedSound`).
* `SenderTellsTruth`, `ReceiversInSync`, `ReducerNeverRaises`, from one inductive
  invariant `SyncInv`: the types, that messages are held under their own ids
  (`SenderIds`, `ReceiverIds`: an increment is looked up by one id and stored under
  the other), `EventsTell` and `InSync`. The argument: a builder step either emits
  nothing and leaves the contents the events account for alone, or emits one event
  that tells its change (`BuilderEffect`, one lemma per mutator: what the builder
  computes by one path is what the reducer computes by another); the history keeps
  the senders' contents at each event, so a delivered event takes a receiver from
  one entry to the next (`SyncDelivered`), a lost one adds to the gap (`SyncLost`),
  and a repeated patch changes nothing (`SyncRedelivered`, by `PatchIdempotent`).
  `NeverRaises` follows: the sender validated the same merge.

* `FinalMessageArrives` (`FinalMatches` when `LateEdits` is FALSE), from `FinalInv`:
  `SyncInv` does not say what becomes of meta, and nothing in it orders events. Two
  facts are added. Of a finalized message the last event in the log is the final one
  (`FinalIsLast`; here the assumption is used: an edit needs a message that is not
  finalized, and a restart clears the flag). And outside its gap a receiver holds the
  last snapshot it is past until another event of that message comes
  (`SnapshotKept`). The two meet when the receiver has seen the whole log.
* `StreamImplementsMirror`: every step of `EventStream` is a step of `MessageMirror`
  or changes nothing there. It rests on `SyncInv`: a builder step publishes at most
  one message (`SenderMirrored`, by `EventsTell`), a delivery moves one version on
  and lets one message come into sight (`DeliverMirrored`, by `InSync` before and
  after), a loss, a repetition or a rejoin only hides messages or shows the version
  again. That a receiver never goes back, and never shows a mixture of two versions,
  follows from the mirror alone.
* `PortsStayAgreed` (`PortsAgree`), when inputs are `PlainTexts`: parts other than text
  and reasoning have no text, and a patch is one that any such part takes and that
  keeps it so. The other inputs are those of `ports_feedback_delta` and of the patch
  that only a lost event lets through: there the reducers do differ. `PortsAgree` is
  not inductive, since it compares up to all defaults and later patches see more of
  a part than that. `PortsInv` says exactly how a raw part may differ from the
  validated one (`Raw`: an empty text that the raw one lacks), that the sender holds
  and emits plain parts and patches only (`SenderPlain`), and that messages are held
  under their own ids. `RawTakes` and `RawGrows` take `Raw` through a patch and a
  token; that any plain part takes any plain patch (`PlainTakes`) is why Python never
  raises, even on a receiver that lost events.
* `SentEventsStay` (`SentStays`), `SharingFollowsTheWire` (`NearIsFar`) and
  `HandStaysOwn` (`HandIsOwn`), for any number of objects, messages, events and edits,
  without a condition, from one inductive invariant `SharingInv`: references lead to
  objects (`HeapOK`, `Holders`); what a caller holds and a builder, an event or a
  receiver does too was lent, but for what `finalize` returned (`LentOnly`); a
  dictionary in a meta in hand was lent, or is in that place only (`Own`, `Private`,
  `OneSlot`); nobody else holds what a `message_started` holds (`Started`, `Apart`);
  events and their writing have one form (`FormKept`); and the properties themselves
  (`MetaIsOwn` and `Told` are the two halves of `HandIsOwn`). Most steps only add to
  the heap, and a value once there stays (`GrownContent`, `GrownMessage`,
  `GrownEvent`), so what is left is who comes to hold what (`GrowingKeeps`,
  `ContentKeeps`, `ReceiverKeeps`, one lemma per action). The three that write into an
  object, `EditPart`, `EditDict` and `SetMeta` on a dictionary that is there, change
  what its holders say and nothing else (`WrittenContent`, `WritesKeep`): the marks
  name all holders (`ReachMarks`), and a dictionary that was not lent has one, the
  meta in hand (`HeldInPrivate`).
* `HeldMessagesValidate` (`CodecTypeOK`) and `IndexKeepsTheOrigin` (`OriginStays`),
  for any rows and clients; `NothingIsLost` (`Lossless`), `OnlyFilledIn`
  (`OnlyFilled`) and `LanguagesAgree` (`ReadersAgree`), when no TypeScript client
  reads a row with producer keys (`NoTagsAtRisk`): with one that does,
  `codec_typescript` shows `Lossless` false. The first two assume as well that no
  Python or TypeScript client writes an unknown part with null keys (`NoNullsAtRisk`),
  since those keys are lost; `LanguagesAgree` needs no such condition,
  and is about the clients that can read a row, with `WrittenIsReadable` for rows that
  a client wrote. `OriginStays` has no condition. `Lossless` is not inductive, since
  it says nothing of the row. `CodecInv` adds that what any client would read from the
  row extends what was written (`Extends`, which is `Keeps` and `Fills` together). The
  argument: what is read from what was written extends it (`RoundTrip`), a message
  that extends another that extends a third extends the third (`ExtendsOn`; neither
  half does on its own, as a workspace that was filled in from the index key must
  still be the one the message has), amending both sides keeps it so (`RefDropped`,
  `ExtendsMoved`), and the row Python leaves behind reads as before (`RowLeft`).
* The five properties of the LangChain adapter, for threads and histories of any
  length, whoever wrote them. All rest on `LCInv` (`ConversionTyped`): the types, and
  that each phase starts where the one before it left off (the walk only while the
  list grows, the way back only when it is complete).
  * `OrderIsKept` (`ChronologyKept`) and `NothingIsLostOnTheWayBack` (`ComesBack`) are
    inductive together with `LCInv`. Texts, calls and results are read off as marks,
    and marks are `FlattenSeq` of one small sequence per element, so that the marks of
    a concatenation are the concatenation of the marks (`MapCat`). Each step then moves
    marks from one list to another and leaves the whole alone. The exception is a text
    that joins the chunks before the pending calls (`TakeText`): it passes the calls, and
    this is why the property is stated of texts with results and of calls with
    results, never of all three.
  * `RoundsArePaired` (`RoundsStayPaired`), from `RoundsInv`: the walk stands somewhere
    in the content of a message of the thread, a call already taken is pending unless
    somebody went on after a result since, and the pending results are of pending calls
    (`WalkKnown`). When a flush starts the next group the round is complete, so each
    call left behind has its answer and no later result can be for it.
  * `ResultsComeBackInline` (`ComesBackInline`), from `InlineInv`: the assistant message
    that is open on the way back has all the calls of the last AI message behind it
    (`TurnPending`), so that a tool message, which in a paired list answers one of
    them, joins the message of its call.
  * `ResumedConversationIsTheSame` (`ResumesTheSame`). On the way back the thread is
    such that it converts to exactly the list read so far (`CameBack`): its assistant
    messages have no part that is dropped and none but results after a result
    (`Settled`), which makes each one AI message and its tool messages (`Images`).
    After the resumption what is converted, what the walk holds, and what is still to
    convert are together that list (`GoesForth`), and no group is flushed early, as
    nothing follows a result.
* The four properties of `ProviderAdapters` and `CoworkTurns`, of a specification that
  starts from a given thread or from a persisted turn. `CoworkNext` is `LCNext`, and
  `LCReady` is all the LangChain lemmas need of the start, so that the invariants above
  hold of converted turns too (`TurnsAreConverted`).
  * `AdaptersAgree` (`SameForEveryProvider`), when `RolesFit`: a call in a user's message
    reaches OpenAI and Anthropic, and LangChain not. OpenAI and Anthropic show the
    same results always, id and text; LangChain does when each has an `output_text`
    or an output that is neither a string nor null. Each rendering of one message has,
    kind by kind, the marks of the message (`MessageSame`), and so have all of them of a
    thread (`ThreadSame`). For LangChain it is `ChronologyKept` at the end of a walk,
    from which the list the caller had is cancelled (`Extends`). That the thread that
    comes back fits its roles again is an invariant of the way back (`OutFits`).
  * `TurnsAreShownWhole` (`TurnComesThrough`), each result as that adapter shows it: a
    block becomes a part with the marks of what it says, wherever its fields were
    written (`BlockSays`, `WrittenFound`), and what is no block leaves nothing
    (`ContentMarks`).
  * `FilesAreMentioned` (`FilesMentioned`), from `FilesInv`: the labels in the human
    messages added so far and the uploads still to convert are together the uploads of
    the thread. A user's string has its file labels at the end and a user's blocks have
    them in place; they are as many because labels are all the same and so commute
    (`LabelsMix`), and because both forms, and OpenAI's chunks, take the parts one by
    one (`UploadsBy`).
  * `ProvidersAnswer` (`ProvidersAnswerInTurn`), by induction over the thread with the
    calls that an answer at its end would still follow (`OpenCalls`), which are open in
    the rendering as well (`OpenIn`). A message that is no tool message adds entries
    without results, which open its calls, and then entries of results only, all of its
    own calls; a tool message adds results of open calls and nothing else
    (`RendersInTurn`, shown of each adapter). That Anthropic's shortcut for messages of
    results only is never taken here is part of the proof: such a message would
    answer a call it does not have.
* `DeltaIsUpdate`: a `part_updated` that carries the grown text is accepted and does
  what the `token_delta` does, for any content (`events.py:52-54`).

Assumptions: `MarkerAssumption` and `NoneAssumption` (`None` and `Absent` are neither
data nor messages), `BuilderAssumption` (inputs are parts, patches, statuses and
dictionaries of the declared sets; the bounds are numbers), `SharingAssumption` (what
stands for a patch that leaves the data alone is no dictionary of a caller's),
`CodecAssumption` (the keys and values the library itself writes are among `Key` and
`Value`; `None` and `NotADict` are no dictionaries, `None` and `Absent` no values) and
`InputAssumption` (what callers compose and MemoryLayer returns has the declared
types, and the library's own names under `meta.scitrera` are not used by callers), and
`GivenAssumption` (threads and LangChain lists are of the types `AnyMessage` and
`AnyLC`, the mark of a file is no id, `None` is no list and no message, a made-up id
is an id), `JsonAssumption` (the marks of JSON are tokens) and `TurnAssumption`
(cowork stores assistant turns, and every block says its part). `RolesFit` is no
assumption of a module but a hypothesis of `AdaptersAgree`; TLC evaluates it for the
threads of the runs.

A theorem about lists of any length needs an induction over them, and the induction
theorems of the library take an operator, which the provers cannot instantiate.
`SequenceFacts` states induction with a set in place of the operator: a set that has 0
and with a number its successor has all numbers (`SetInduction`, from the well-founded
order of the numbers and `WFMin`, which take sets), and likewise a set of sequences
closed under `Append` has them all. The lemmas about `FlattenSeq` follow, and the
models are written with `FlattenSeq` (`Kept`) where `SelectSeq` would do, which tlapm
cannot expand.

Trying to prove `ToLC` total showed that its CASE, whose first arm was the message of
feedback only, also matched the arm of the role `user`, so that the formula left open
which of the two is meant. The code tests for feedback first; the definition now does.

The proofs of the adapters changed three more definitions. `ThreadAnswersInTurn` did
not say that the tool messages between a call and its result have results: OpenAI is
shown one without any as a text, which comes between them. A block that is neither
mapped nor a file was not a part of its own, though the code makes it an unknown
one. And `Merged` was written with `@@`, which tlapm cannot expand and `Over` replaces.

Only model-checked: `Converges`. Liveness is out of the prover's reach, as is
`ENABLED`. Each of the other twenty-eight properties of the passing runs is a theorem,
some under the condition stated with it. No module a theorem rests on declares a
RECURSIVE operator.

## Not modelled

* Parts handed to `append_part` and patches carry no tracked type or id in the
  runs about the index: nothing in the repository does so.
* Fields no operation reads, timestamps, role, addressing and ref, which are fixed
  when a message starts and travel with it.
* The ports' decoding and encoding of events and parts. Errors a codec or an
  adapter raises on malformed input, but for the nulls of `CanRead` and the refused
  blocks of `CoworkTurns`.
* Objects deeper than the data of a part, the address object passed to `start`, and
  the `message` property of a builder, which returns a copy as a second `finalize` does.
* Codecs: nulls inside `addr` and `ref`; empty ids, workspaces and threads; a
  message whose caller put one of the reserved keys under `meta.scitrera`, which are
  the library's.
* Cowork blocks with a status the schema does not have, for which the conversion
  raises. Of LangChain tool calls without an id, what tells the made-up ids apart.
  Arguments of calls, errors of results, addresses, the newline between joined texts,
  images without a URL.
* `from_rt_envelope`: it renames the fields of one envelope, and no other code in the
  repository writes, returns or reads such an envelope, so there is nothing its
  result could be compared with.
* The tool helpers and the schema ports: declarations and encodings, without state
  or control.
* The hazards without a property: tracked parts handed to `append_part` and patches
  that change an id (`streaming.py:358`), which one call shows and nothing in the
  repository does, and undeclared keys of a message (`memorylayer.py:54`), which every
  port loses at the first write.
