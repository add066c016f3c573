---------------------------- MODULE CoworkTurns ----------------------------
(***************************************************************************)
(* adapters.py: a turn that cowork has persisted as a list of blocks       *)
(* becomes a ChatMessage (from_cowork_blocks), which LangChainSplit and    *)
(* ProviderAdapters then render for a model.                               *)
(*                                                                         *)
(* A block is a function from field names.  Its payload is under "data" or *)
(* beside it, and what is beside it may be the block's own (an id).  Only  *)
(* the type and the fields an adapter shows a model are modelled; an output *)
(* is [form, text], as a result of LangChainSplit has it.                  *)
(***************************************************************************)
EXTENDS ProviderAdapters

CONSTANT Turn  \* the turns to convert: [blocks, says, role], says being what cowork meant

VARIABLE turn  \* the turn the thread was made from, or None

coworkVars == <<turn, lcVars>>

----------------------------------------------------------------------------
\* merged.get(name), or the other value.
Get(merged, name, other) == IF name \in DOMAIN merged THEN merged[name] ELSE other

\* The fields of both, those of the first before those of the second, without data.
Over(first, second) ==
    [name \in (DOMAIN first \cup DOMAIN second) \ {"data"} |-> Get(first, name, second[name])]

\* Mutation: the block's own fields win.
MergedRawWins(raw) == Over(raw, Get(raw, "data", <<>>))

\* {**raw, **data}, without data.
Merged(raw) == Over(Get(raw, "data", <<>>), raw)

BlockType(raw) == Get(raw, "type", None)

\* Mutation: the output hides the output_text.
CoworkResultOutputFirst(id, merged) ==
    LET output == Get(merged, "output", Get(merged, "content", [form |-> "null", text |-> <<>>]))
        text   == Get(merged, "output_text", None)
    IN  IF output.form = "null" /\ text # None THEN Result(id, "text", text)
        ELSE Result(id, output.form, output.text)

\* The output is one of two fields, and read when there is no output_text.
CoworkResult(id, merged) ==
    LET output == Get(merged, "output", Get(merged, "content", [form |-> "null", text |-> <<>>]))
        text   == Get(merged, "output_text", None)
    IN  IF text # None THEN Result(id, "text", text) ELSE Result(id, output.form, output.text)

\* What each block that has an entry in the table, or is a file, becomes.
MappedPart(raw) ==
    LET merged == Merged(raw)
    IN  CASE BlockType(raw) = "text"      -> TextPart(Get(merged, "text", <<>>))
          [] BlockType(raw) = "tool_call" -> Part("call", Named(Get(merged, "id", None)), <<>>)
          [] BlockType(raw) = "tool_result" ->
                CoworkResult(Get(merged, "tool_call_id", Get(merged, "call_id", None)), merged)
          [] BlockType(raw) \in {"citation", "dynamic"} -> Part(BlockType(raw), None, <<>>)
          [] BlockType(raw) \in {"attachment", "document", "file"} -> Part("file", None, <<>>)

IsMapped(raw) ==
    BlockType(raw) \in {"text", "tool_call", "tool_result", "citation", "dynamic",
                        "attachment", "document", "file"}

\* The type of the UnknownPart any other block becomes: a payload with a type of its own
\* overrides the block's.
UnknownType(raw) == Get(Merged(raw), "type", "unknown")

\* The message takes an UnknownPart of a type the schema knows for a part of that type,
\* and raises.
Refused(blocks) ==
    \E i \in DOMAIN blocks :
        /\ blocks[i] # None /\ ~IsMapped(blocks[i])
        /\ UnknownType(blocks[i]) \in
              {"text", "image", "file", "tool_call", "tool_result", "citation", "dynamic",
               "reasoning", "subagent", "control", "feedback", "todo", "approval_request"}

\* The message made of a turn, as a thread; none when it is refused.  What is not a
\* dictionary is passed over.
FromCoworkBlocks(t) ==
    LET dicts == Kept(t.blocks, {i \in DOMAIN t.blocks : t.blocks[i] # None})
        content == [i \in DOMAIN dicts |->
                       IF IsMapped(dicts[i]) THEN MappedPart(dicts[i])
                       ELSE Part("unknown", None, <<>>)]
    IN  IF Refused(t.blocks) THEN <<>>
        ELSE <<Message(IF t.role \in {"user", "assistant", "system", "tool"}
                       THEN t.role ELSE "assistant", content)>>

CoworkInit ==
    \/ turn = None /\ LCInit
    \/ turn \in Turn /\ LCStart([prior |-> <<>>, thread |-> FromCoworkBlocks(turn)])

CoworkNext == LCNext /\ UNCHANGED turn

CoworkSpec == CoworkInit /\ [][CoworkNext]_coworkVars
----------------------------------------------------------------------------
\* A field is written in the payload, or beside it when the payload does not have it.
Wrote(raw, name, value) ==
    IF name \in DOMAIN Get(raw, "data", <<>>) THEN raw["data"][name] = value
    ELSE name \in DOMAIN raw /\ raw[name] = value

Unwritten(raw, name) == name \notin DOMAIN raw \cup DOMAIN Get(raw, "data", <<>>)

Missing(raw, name) == Unwritten(raw, name) \/ Wrote(raw, name, None)

\* A part is said by a block of its type with its text or its id, a result with its
\* output as well, and a part of any other kind by a block of any other type, or by what
\* is no block.
SaidBy(part, raw) ==
    IF part.kind \notin {"text", "call", "result"}
    THEN raw = None \/ BlockType(raw) \notin {"text", "tool_call", "tool_result"}
    ELSE /\ raw # None
         /\ part.kind = "text" => BlockType(raw) = "text" /\ Wrote(raw, "text", part.text)
         /\ part.kind = "call" => BlockType(raw) = "tool_call" /\ Wrote(raw, "id", part.id)
         /\ part.kind = "result" =>
               /\ BlockType(raw) = "tool_result"
               /\ \/ Wrote(raw, "tool_call_id", part.id)
                  \/ Unwritten(raw, "tool_call_id") /\ Wrote(raw, "call_id", part.id)
               /\ IF part.form = "text" THEN Wrote(raw, "output_text", part.text)
                  ELSE LET output == [form |-> part.form, text |-> part.text]
                       IN  /\ Missing(raw, "output_text")
                           /\ \/ Wrote(raw, "output", output)
                              \/ Unwritten(raw, "output") /\ Wrote(raw, "content", output)

\* Cowork stores assistant turns (adapters.py:130), under that role or one of its own.
ASSUME TurnAssumption ==
    /\ {"file", "citation", "dynamic", "unknown"} \subseteq Kind
    /\ \A t \in Turn :
          /\ t.role \notin {"user", "system", "tool"} /\ t # None
          /\ t.says \in Seq(AnyPart) /\ t.blocks = [i \in 1..Len(t.says) |-> t.blocks[i]]
          /\ \A i \in 1..Len(t.says) : SaidBy(t.says[i], t.blocks[i])

\* "unwraps ``data`` into the matching ContentPart" (adapters.py:132): however a turn
\* was written (payload under data or beside it, next to an id of the block's own, either
\* name for the call a result answers and for its output), a resumed model is shown the
\* texts, the calls and the results of the turn, each in order, under its id and with its
\* text, which for OpenAI and Anthropic is the JSON of an output without one; unless a
\* block of a type the table does not have makes the whole turn fail.
TurnComesThrough ==
    (turn # None /\ ~Refused(turn.blocks) /\ before = None /\ Converted) =>
        \A kind \in {"text", "call", "result"} :
            LET said(content) == Only(Marks(content, {"text", "call", "result"}), {kind})
            IN  /\ Only(LCMarks(Added), {kind}) = said(turn.says)
                /\ Only(EntryMarks(OpenAIThread), {kind}) = said(AsShown(turn.says))
                /\ Only(EntryMarks(AnthropicThread), {kind}) = said(AsShown(turn.says))
=============================================================================
