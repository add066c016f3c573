--------------------------- MODULE MCAdapters ------------------------------
(* Threads, histories and turns for checking the adapters with TLC. *)
EXTENDS CoworkTurns

CONSTANTS a, val, c1, c2, row, MaxParts

CallOrResult ==
    {Part("call", c, <<>>) : c \in {c1, c2}}
    \cup {Result(c1, "text", <<a>>), Result(c2, "json", <<val>>)}
Dropped == {Part("reasoning", None, <<>>)}

AssistantThreads ==
    {<<Message("assistant", c)>> :
        c \in BoundedSeq({TextPart(<<a>>)} \cup CallOrResult \cup Dropped, MaxParts)}

Messages ==
    {Message("user", c) : c \in BoundedSeq({Part("image", None, <<>>), Part("file", None, <<>>), TextPart(<<a>>)}, 2)}
    \cup {Message("user", <<Part("feedback", None, <<>>)>>), Message("system", <<TextPart(<<a>>)>>)}
    \cup {Message("tool", <<r>>) : r \in {Result(c1, "string", <<a>>), Result(c2, "null", <<>>)}}
    \cup {Message("assistant", c) : c \in
             {<<>>, <<TextPart(<<>>)>>, <<Part("call", c1, <<>>)>>, <<TextPart(<<a>>), Part("call", c2, <<>>)>>,
              <<Part("call", c1, <<>>), Result(c1, "text", <<>>)>>,
              <<Part("feedback", None, <<>>)>>, <<Part("feedback", None, <<>>), TextPart(<<a>>)>>}}

MixedThreads == BoundedSeq(Messages, 3)

NoHistory(threads) == {[prior |-> <<>>, thread |-> t] : t \in threads}

\* Lists that to_lc_messages would not have made, too.
Histories ==
    BoundedSeq({Human(<<TextPart(<<a>>)>>), Human(<<Part("image", None, <<>>)>>), System(<<TextPart(<<>>)>>),
                AI(<<a>>, <<>>), AI(<<>>, <<>>), AI(<<>>, <<c1, None>>), Tool(c1, <<>>), Tool(c2, <<a>>),
                Other(<<TextPart(<<a>>)>>)}, 3)

AfterHistory ==
    {[prior |-> h, thread |-> t] : h \in Histories \ {<<>>},
        t \in {<<>>, <<Message("tool", <<Result(c1, "json", <<val>>)>>)>>,
               <<Message("assistant", <<TextPart(<<a>>), Part("call", c2, <<>>), Result(c2, "string", <<a>>)>>)>>}}

AllGiven == NoHistory(AssistantThreads \cup MixedThreads) \cup AfterHistory
OneAssistant == NoHistory(AssistantThreads)

----------------------------------------------------------------------------
\* The ways to write a field: under data, next to an id of the row, or beside the type.
Ways(type, name, value) ==
    {[type |-> type, id |-> row, data |-> (name :> value)],
     [type |-> type, data |-> (name :> value)],
     (name :> value) @@ [type |-> type]}

\* The output, always beside the type here; with an output_text any output is hidden.
Outputs(part) ==
    LET output == [form |-> part.form, text |-> part.text]
    IN  IF part.form = "text"
        THEN {[output_text |-> part.text], [output_text |-> part.text, output |-> [form |-> "json", text |-> <<val>>]]}
        ELSE {[output |-> output], [output_text |-> None, content |-> output]}

Written(part) ==
    CASE part.kind = "text"      -> Ways("text", "text", part.text)
      [] part.kind = "call"      -> Ways("tool_call", "id", part.id)
      [] part.kind = "result"    -> {w @@ o : w \in Ways("tool_result", "tool_call_id", part.id)
                                                  \cup Ways("tool_result", "call_id", part.id),
                                              o \in Outputs(part)}
      [] part.kind = "file"      -> {[type |-> k] : k \in {"attachment", "document"}}
      [] part.kind = "reasoning" -> {[type |-> "reasoning"], [data |-> [type |-> "reasoning"]]}
      [] part.kind = "unknown"   -> {[type |-> "future"], [id |-> row], None}

Blocks ==
    UNION {{[part |-> p, block |-> b] : b \in Written(p)} :
              p \in {TextPart(<<a>>), Result(c1, "string", <<a>>)} \cup CallOrResult
                    \cup {Part(k, None, <<>>) : k \in {"file", "reasoning", "unknown"}}}

Turns ==
    {[blocks |-> [i \in DOMAIN s |-> s[i].block], says |-> [i \in DOMAIN s |-> s[i].part], role |-> r] :
        s \in BoundedSeq(Blocks, 2), r \in {"assistant", "model"}}

NoTurns == {}

ASSUME RolesFit
===============================================================================
