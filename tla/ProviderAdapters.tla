-------------------------- MODULE ProviderAdapters --------------------------
(***************************************************************************)
(* adapters.py: ChatMessages as entries for the OpenAI and the Anthropic   *)
(* API, next to the LangChain messages of LangChainSplit.  A caller renders*)
(* a thread message by message.                                            *)
(*                                                                         *)
(* An entry is [role, content, calls]; content is a sequence of parts, as  *)
(* in LangChainSplit, and calls are OpenAI's tool_calls.  An image is one  *)
(* with a URL.                                                             *)
(***************************************************************************)
EXTENDS LangChainSplit

CONSTANTS Quote, NullMark  \* the tokens of a quotation mark and of JSON's null

ASSUME JsonAssumption == {Quote, NullMark} \subseteq Token

Rendered(role, content, ids) == [role |-> role, content |-> content, calls |-> ids]

Ids(content) == [i \in DOMAIN content |-> content[i].id]

\* An output without an output_text is shown as its JSON: a string in quotation marks.
JsonText(part) ==
    CASE part.form = "string" -> <<Quote>> \o part.text \o <<Quote>>
      [] part.form = "null"   -> <<NullMark>>
      [] OTHER                -> part.text

\* The content with its results as they are shown.
AsShown(content) ==
    [i \in DOMAIN content |->
        IF content[i].kind = "result" THEN Result(content[i].id, "text", JsonText(content[i]))
        ELSE content[i]]

----------------------------------------------------------------------------
\* Mutation: no file labels.
ChunksTextOnly(content) == OfKind(content, {"text"})

\* Texts and file labels, joined in their order.
Chunks(content) ==
    LET shown == OfKind(content, {"text", "file"})
    IN  [i \in DOMAIN shown |-> IF shown[i].kind = "file" THEN TextPart(<<FileMark>>) ELSE shown[i]]

\* With an image the content is a list of blocks, which has no files.
OpenAIContent(content) ==
    IF HasKind(content, "image") THEN OfKind(content, {"text", "image"})
    ELSE IF Chunks(content) = <<>> THEN <<>>
    ELSE <<TextPart(Joined(Chunks(content)))>>

TailToolResults(content) ==
    LET answers == OfKind(content, {"result"})
    IN  [i \in DOMAIN answers |-> Rendered("tool", <<answers[i]>>, <<>>)]

\* Mutation: the tool entries come before the entry with their calls.
ToOpenAIResultsFirst(msg) ==
    IF msg.role = "tool" THEN TailToolResults(AsShown(msg.content))
    ELSE Append(TailToolResults(AsShown(msg.content)),
                Rendered(msg.role, OpenAIContent(msg.content), Ids(OfKind(msg.content, {"call"}))))

\* One entry for the message, then one for each result; a tool message is its
\* results only, or its text when it has none.
ToOpenAIChatCompletion(msg) ==
    LET content == AsShown(msg.content)
        tail    == TailToolResults(content)
    IN  IF msg.role # "tool"
        THEN <<Rendered(msg.role, OpenAIContent(content), Ids(OfKind(content, {"call"})))>> \o tail
        ELSE IF tail # <<>> THEN tail
        ELSE <<Rendered("tool", <<TextPart(Joined(Chunks(content)))>>, <<>>)>>

----------------------------------------------------------------------------
\* A message with no blocks is no entry.
EntryIfAny(role, blocks) == IF blocks = <<>> THEN <<>> ELSE <<Rendered(role, blocks, <<>>)>>

MapRoleAnthropic(role) == IF role \in {"system", "tool"} THEN "user" ELSE role

\* Mutation: a message with results is taken for one with nothing else.
ToAnthropicResultsOnly(msg) ==
    LET content == AsShown(msg.content)
        pending == OfKind(content, {"result"})
        blocks  == OfKind(content, {"text", "image", "call"})
    IN  IF msg.role = "tool" \/ (msg.role # "user" /\ pending # <<>>)
        THEN <<Rendered("user", pending, <<>>)>>
        ELSE EntryIfAny(MapRoleAnthropic(msg.role), blocks) \o EntryIfAny("user", pending)

\* The blocks of the message, and its results as an entry of the user.
ToAnthropicMessages(msg) ==
    LET content == AsShown(msg.content)
        pending == OfKind(content, {"result"})
        blocks  == OfKind(content, {"text", "image", "call"})
    IN  IF msg.role = "tool" \/ (msg.role # "user" /\ pending # <<>> /\ blocks = <<>>)
        THEN <<Rendered("user", pending, <<>>)>>
        ELSE EntryIfAny(MapRoleAnthropic(msg.role), blocks) \o EntryIfAny("user", pending)

----------------------------------------------------------------------------
OpenAIThread    == FlattenSeq([i \in DOMAIN thread |-> ToOpenAIChatCompletion(thread[i])])
AnthropicThread == FlattenSeq([i \in DOMAIN thread |-> ToAnthropicMessages(thread[i])])

EntryMarks(entries) ==
    FlattenSeq([i \in DOMAIN entries |->
        Marks(entries[i].content, {"text", "call", "result"})
        \o [j \in DOMAIN entries[i].calls |-> CallMark(entries[i].calls[j])]])

\* A message has the parts its role is for: calls are an assistant's, and a tool
\* message has its result (UNIVERSAL_MESSAGE_SPEC.md:67-68).
FitsItsRole(msg) ==
    /\ msg.role \in {"user", "system"} => ~HasKind(msg.content, "call") /\ ~HasKind(msg.content, "result")
    /\ msg.role = "tool" => HasKind(msg.content, "result") \/ ~HasKind(msg.content, "text")

RolesFit == \A g \in Given : \A i \in DOMAIN g.thread : FitsItsRole(g.thread[i])

\* All results of the thread are in one of the forms.
ResultsAre(forms) ==
    \A i \in DOMAIN thread : \A p \in DOMAIN thread[i].content :
        thread[i].content[p].kind = "result" => thread[i].content[p].form \in forms

\* What the formats are documented to lose is no text, call or result
\* (UNIVERSAL_MESSAGE_SPEC.md:649-650): whichever of the three adapters a model is
\* served by, it is shown the same texts and the same calls of a thread, each in the same
\* order.  OpenAI and Anthropic show the same results too, id and text, in the same
\* order; they are those LangChain shows where each result has an output_text or an
\* output that is JSON for all three.
SameForEveryProvider ==
    Converted =>
        \A kind \in {"text", "call", "result"} :
            /\ Only(EntryMarks(OpenAIThread), {kind}) = Only(EntryMarks(AnthropicThread), {kind})
            /\ kind # "result" \/ ResultsAre({"text", "json"}) =>
                  Only(EntryMarks(OpenAIThread), {kind}) = Only(LCMarks(Added), {kind})

\* The labels in the texts of a content, and those its files will be shown as.
Labels(content) ==
    LET text == GatherText(content) IN Kept(text, {i \in DOMAIN text : text[i] = FileMark})
Uploads(content) == Labels(content) \o Files(content)

HasNoImage(msg) == ~HasKind(msg.content, "image")
UserMessages == Kept(thread, {i \in DOMAIN thread : thread[i].role = "user"})

\* "file part becomes text breadcrumb" (test_langchain.py:339): whatever else is in their messages,
\* the files of the user are all mentioned to a LangChain model, in as many labels as
\* files; so they are to OpenAI, except for those sent along with an image.
FilesMentioned ==
    Converted =>
        /\ FlattenSeq([i \in DOMAIN Added |->
               IF Added[i].type = "human" THEN Labels(Added[i].content) ELSE <<>>])
           = FlattenSeq([i \in DOMAIN UserMessages |-> Uploads(UserMessages[i].content)])
        /\ \A i \in DOMAIN thread : HasNoImage(thread[i]) /\ thread[i].role # "tool" =>
               Labels(ToOpenAIChatCompletion(thread[i])[1].content) = Uploads(thread[i].content)

CallsOf(entry) ==
    Range(entry.calls) \cup {entry.content[p].id : p \in {q \in DOMAIN entry.content : entry.content[q].kind = "call"}}

\* Every result follows its call with nothing but results in between.
AnsweredInTurn(entries) ==
    \A i \in DOMAIN entries : \A p \in DOMAIN entries[i].content :
        entries[i].content[p].kind = "result" =>
            \E j \in 1..i-1 :
                /\ entries[i].content[p].id \in CallsOf(entries[j])
                /\ \A k \in j+1..i : entries[k].content # <<>> /\ entries[k].calls = <<>>
                      /\ \A q \in DOMAIN entries[k].content : entries[k].content[q].kind = "result"

\* The thread has each result after its call, in the same message or in a tool message
\* that follows the one with the call, after tool messages with results only.
ThreadAnswersInTurn ==
    \A i \in DOMAIN thread : \A p \in DOMAIN thread[i].content :
        thread[i].content[p].kind = "result" =>
            \E j \in 1..i : \E q \in DOMAIN thread[j].content :
                /\ thread[j].content[q].kind = "call" /\ thread[j].content[q].id = thread[i].content[p].id
                /\ thread[j].role # "tool" /\ (j = i => q < p)
                /\ \A k \in j+1..i : thread[k].role = "tool" /\ HasKind(thread[k].content, "result")

\* "tool results are split into role:tool entries" (adapters.py:14-15), "a separate user
\* entry (Anthropic's convention)" (adapters.py:293-295): splitting them off never puts
\* anything between a call and its result, in whatever order the parts came, which
\* for LangChain is not so (ResultsFollowTheirCall).
ProvidersAnswerInTurn ==
    ThreadAnswersInTurn => AnsweredInTurn(OpenAIThread) /\ AnsweredInTurn(AnthropicThread)
=============================================================================
