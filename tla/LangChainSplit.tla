--------------------------- MODULE LangChainSplit ---------------------------
(***************************************************************************)
(* langchain.py: a thread of ChatMessages becomes a list of LangChain      *)
(* messages (to_lc_messages), after those the caller has, and that list a  *)
(* thread again (from_lc_messages), which may be converted once more when  *)
(* the conversation resumes.  An assistant message is walked part by part, *)
(* since it may become several AI messages, each followed by tool messages.*)
(*                                                                         *)
(* A part is [kind, id, text, form]: id of a tool call or of the call a    *)
(* result answers, text a sequence of tokens.  The form of a result says   *)
(* where its text is from: its output_text, or an output that is a string, *)
(* no value, or any other, whose JSON the text then is.  Joined texts are  *)
(* concatenated; the newline the code puts between them is left out.  The  *)
(* arguments of calls, errors of results and addresses are not modelled.   *)
(***************************************************************************)
EXTENDS SequencesExt

CONSTANTS
    None,      \* no id, or no message
    Kind, Id, Token,  \* kinds of parts, ids of tool calls, and the tokens texts are made of
    NewId,     \* any id that _new_id makes up
    FileMark,  \* the token a file is rendered as
    Given      \* the threads to convert, each with the LangChain messages before it

VARIABLES
    thread,    \* the thread being converted
    prior,     \* the LangChain messages the caller had before
    before,    \* once resumed, the list the thread came back from; else None
    todo,      \* its messages not yet converted
    parts,     \* the parts left of the assistant message being walked, or None
    texts, calls, results,  \* pending_text_chunks, pending_tool_calls, pending_tool_results
    lastWasToolResult,
    sawAnyEmit,
    lc,        \* the LangChain messages so far
    back,      \* how many of them are converted back
    pendingAssistant,
    out        \* the thread that comes back

walkVars == <<parts, texts, calls, results, lastWasToolResult, sawAnyEmit>>
backVars == <<back, pendingAssistant, out>>
given == <<thread, prior, before>>
lcVars == <<given, todo, walkVars, lc, backVars>>

----------------------------------------------------------------------------
Part(kind, id, text) == [kind |-> kind, id |-> id, text |-> text, form |-> "text"]
Result(id, form, text) == [Part("result", id, text) EXCEPT !.form = form]
TextPart(text) == Part("text", None, text)

Human(content)  == [type |-> "human", content |-> content, calls |-> <<>>, call_id |-> None]
Other(content)  == [type |-> "other", content |-> content, calls |-> <<>>, call_id |-> None]
System(content) == [type |-> "system", content |-> content, calls |-> <<>>, call_id |-> None]
AI(text, ids)   == [type |-> "ai", content |-> <<TextPart(text)>>, calls |-> ids, call_id |-> None]
Tool(id, text)  == [type |-> "tool", content |-> <<TextPart(text)>>, calls |-> <<>>, call_id |-> id]

\* The elements of s at the places in I, in order.
Kept(s, I) == FlattenSeq([i \in DOMAIN s |-> IF i \in I THEN <<s[i]>> ELSE <<>>])

OfKind(content, kinds) == Kept(content, {i \in DOMAIN content : content[i].kind \in kinds})
HasKind(content, kind) == \E i \in DOMAIN content : content[i].kind = kind

\* The text of all parts, joined.
Joined(content) == FlattenSeq([i \in DOMAIN content |-> content[i].text])

GatherText(content) == Joined(OfKind(content, {"text"}))
Files(content) == Joined([i \in DOMAIN OfKind(content, {"file"}) |-> TextPart(<<FileMark>>)])

\* With an image, a list of blocks in order; else one string, the files at the end.
UserContentToLC(content) ==
    IF HasKind(content, "image")
    THEN LET shown == Kept(content, {i \in DOMAIN content :
                                       \/ content[i].kind \in {"image", "file"}
                                       \/ content[i].kind = "text" /\ content[i].text # <<>>})
         IN  [i \in DOMAIN shown |-> IF shown[i].kind = "file" THEN TextPart(<<FileMark>>) ELSE shown[i]]
    ELSE <<TextPart(GatherText(content) \o Files(content))>>

\* A result with neither a text nor an output is empty.
ResultText(part) == IF part.form = "null" THEN <<>> ELSE part.text

ToolResultToLC(part) == Tool(part.id, ResultText(part))

IsFeedbackOnly(msg) ==
    msg.content # <<>> /\ \A i \in DOMAIN msg.content : msg.content[i].kind = "feedback"

----------------------------------------------------------------------------
AnyPart == [kind : Kind, id : Id \cup {None}, text : Seq(Token),
            form : {"text", "string", "null", "json"}]

AnyMessage == [role : {"user", "system", "tool", "assistant"}, content : Seq(AnyPart)]

\* A string is one text; only a human sends blocks, and then with an image.
AnyLC ==
    {m \in [type : {"human", "other", "system", "ai", "tool"}, content : Seq(AnyPart),
            calls : Seq(Id \cup {None}), call_id : Id \cup {None}] :
        /\ IF m.type = "human" /\ HasKind(m.content, "image")
           THEN \A i \in DOMAIN m.content :
                   m.content[i].kind = "image" \/ (m.content[i].kind = "text" /\ m.content[i].text # <<>>)
           ELSE m.content = <<TextPart(m.content[1].text)>>
        /\ m.type # "ai" => m.calls = <<>>
        /\ m.type # "tool" => m.call_id = None}

ASSUME GivenAssumption ==
    /\ {"text", "image", "call", "result"} \subseteq Kind
    /\ FileMark \in Token /\ FileMark \notin Id \cup {None}
    /\ NewId \in Id /\ None \notin Id
    /\ None \notin Seq(Token) \cup Seq(AnyPart) \cup AnyMessage \cup Seq(AnyLC)
    /\ \A g \in Given : g.thread \in Seq(AnyMessage) /\ g.prior \in Seq(AnyLC)

LCStart(g) ==
    /\ thread = g.thread /\ todo = g.thread
    /\ prior = g.prior /\ lc = g.prior /\ before = None
    /\ parts = None
    /\ texts = <<>> /\ calls = <<>> /\ results = <<>>
    /\ lastWasToolResult = FALSE /\ sawAnyEmit = FALSE
    /\ back = 0 /\ pendingAssistant = None /\ out = <<>>

LCInit == \E g \in Given : LCStart(g)

\* Messages that are not an assistant's: one message each, none for feedback, and
\* one for each result of a tool message.
ToLC(msg) ==
    IF IsFeedbackOnly(msg) THEN <<>>
    ELSE CASE msg.role = "user"   -> <<Human(UserContentToLC(msg.content))>>
           [] msg.role = "system" -> <<System(<<TextPart(GatherText(msg.content))>>)>>
           [] msg.role = "tool"   ->
                 LET answers == OfKind(msg.content, {"result"})
                 IN  [i \in DOMAIN answers |-> ToolResultToLC(answers[i])]

Walked(msg) == msg.role = "assistant" /\ ~IsFeedbackOnly(msg)

Convert ==
    /\ parts = None /\ todo # <<>> /\ ~Walked(Head(todo))
    /\ lc' = lc \o ToLC(Head(todo))
    /\ todo' = Tail(todo)
    /\ UNCHANGED <<given, walkVars, backVars>>

OpenAssistant ==
    /\ parts = None /\ todo # <<>> /\ Walked(Head(todo))
    /\ parts' = Head(todo).content
    /\ todo' = Tail(todo)
    /\ texts' = <<>> /\ calls' = <<>> /\ results' = <<>>
    /\ lastWasToolResult' = FALSE /\ sawAnyEmit' = FALSE
    /\ UNCHANGED <<given, lc, backVars>>

Pending == texts # <<>> \/ calls # <<>> \/ results # <<>>

\* Mutation: the tool messages come first.
GroupResultsFirst ==
    IF Pending THEN Append(results, AI(FlattenSeq(texts), calls)) ELSE <<>>

\* The current group: an AI message and the tool messages after it.
Group == IF Pending THEN <<AI(FlattenSeq(texts), calls)>> \o results ELSE <<>>

\* A text or a call after a result closes the group first; it starts the next one
\* with the chunks and the calls given.
GoOn(chunks, ids) ==
    IF lastWasToolResult
    THEN /\ lc' = lc \o Group
         /\ texts' = chunks /\ calls' = ids /\ results' = <<>>
         /\ lastWasToolResult' = FALSE
         /\ sawAnyEmit' = TRUE
    ELSE /\ texts' = texts \o chunks /\ calls' = calls \o ids
         /\ UNCHANGED <<lc, results, lastWasToolResult, sawAnyEmit>>

\* Mutation: only a text closes the group.
TakeCallNoFlush ==
    /\ parts # None /\ parts # <<>> /\ Head(parts).kind = "call"
    /\ calls' = Append(calls, Head(parts).id)
    /\ parts' = Tail(parts)
    /\ UNCHANGED <<given, todo, texts, results, lastWasToolResult, sawAnyEmit, lc, backVars>>

TakeText ==
    /\ parts # None /\ parts # <<>> /\ Head(parts).kind = "text"
    /\ GoOn(<<Head(parts).text>>, <<>>)
    /\ parts' = Tail(parts)
    /\ UNCHANGED <<given, todo, backVars>>

TakeCall ==
    /\ parts # None /\ parts # <<>> /\ Head(parts).kind = "call"
    /\ GoOn(<<>>, <<Head(parts).id>>)
    /\ parts' = Tail(parts)
    /\ UNCHANGED <<given, todo, backVars>>

TakeResult ==
    /\ parts # None /\ parts # <<>> /\ Head(parts).kind = "result"
    /\ results' = Append(results, ToolResultToLC(Head(parts)))
    /\ lastWasToolResult' = TRUE
    /\ parts' = Tail(parts)
    /\ UNCHANGED <<given, todo, texts, calls, sawAnyEmit, lc, backVars>>

\* Parts of any other kind are dropped.
DropPart ==
    /\ parts # None /\ parts # <<>> /\ Head(parts).kind \notin {"text", "call", "result"}
    /\ parts' = Tail(parts)
    /\ UNCHANGED <<given, todo, texts, calls, results, lastWasToolResult, sawAnyEmit, lc, backVars>>

\* Mutation: an assistant message with nothing to show leaves no message.
CloseAssistantSilent ==
    /\ parts = <<>>
    /\ lc' = lc \o Group
    /\ parts' = None
    /\ texts' = <<>> /\ calls' = <<>> /\ results' = <<>>
    /\ UNCHANGED <<given, todo, lastWasToolResult, sawAnyEmit, backVars>>

\* The last group; an assistant message with nothing to show is one empty AI message.
CloseAssistant ==
    /\ parts = <<>>
    /\ lc' = lc \o (IF Pending \/ sawAnyEmit THEN Group ELSE <<AI(<<>>, <<>>)>>)
    /\ parts' = None
    /\ texts' = <<>> /\ calls' = <<>> /\ results' = <<>>
    /\ UNCHANGED <<given, todo, lastWasToolResult, sawAnyEmit, backVars>>

----------------------------------------------------------------------------
Converted == todo = <<>> /\ parts = None

Message(role, content) == [role |-> role, content |-> content]
TextIfAny(text) == IF text = <<>> THEN <<>> ELSE <<TextPart(text)>>
Flushed == IF pendingAssistant = None THEN out ELSE Append(out, pendingAssistant)

\* Blocks come back one by one, a string as one text or nothing.
UserContentFromLC(content) ==
    IF HasKind(content, "image") THEN content ELSE TextIfAny(Joined(content))

BackNext ==
    /\ Converted /\ back < Len(lc)
    /\ back' = back + 1
    /\ UNCHANGED <<given, todo, walkVars, lc>>

FromHuman ==
    /\ BackNext
    /\ lc[back + 1].type \in {"human", "system"}
    /\ out' = Append(Flushed, IF lc[back + 1].type = "human"
                              THEN Message("user", UserContentFromLC(lc[back + 1].content))
                              ELSE Message("system", TextIfAny(Joined(lc[back + 1].content))))
    /\ pendingAssistant' = None

\* Mutation: the assistant message before this one is not flushed.
FromAINoFlush ==
    /\ BackNext
    /\ lc[back + 1].type = "ai"
    /\ out' = out
    /\ pendingAssistant' = Message("assistant", TextIfAny(Joined(lc[back + 1].content)))

\* A call without an id is given one.
Named(id) == IF id = None THEN NewId ELSE id

FromAI ==
    /\ BackNext
    /\ lc[back + 1].type = "ai"
    /\ out' = Flushed
    /\ pendingAssistant' =
          LET m == lc[back + 1]
          IN  Message("assistant", TextIfAny(Joined(m.content)) \o
                                   [i \in DOMAIN m.calls |-> Part("call", Named(m.calls[i]), <<>>)])

\* An empty text is none: the result that comes back has no output either.
ToolResultFromLC(m) ==
    LET text == Joined(m.content)
    IN  Result(m.call_id, IF text = <<>> THEN "null" ELSE "text", text)

\* Mutation: a tool message comes back as a message of its own.
FromToolAlone ==
    /\ BackNext
    /\ lc[back + 1].type = "tool"
    /\ out' = Append(Flushed, Message("tool", <<ToolResultFromLC(lc[back + 1])>>))
    /\ pendingAssistant' = None

\* A tool message joins the assistant message before it, when there is one.
FromTool ==
    /\ BackNext
    /\ lc[back + 1].type = "tool"
    /\ LET result == ToolResultFromLC(lc[back + 1])
       IN  IF pendingAssistant = None
           THEN /\ out' = Append(out, Message("tool", <<result>>))
                /\ UNCHANGED pendingAssistant
           ELSE /\ pendingAssistant' = [pendingAssistant EXCEPT !.content = Append(@, result)]
                /\ UNCHANGED out

\* A message of a class the adapter does not know.
FromOther ==
    /\ BackNext
    /\ lc[back + 1].type = "other"
    /\ out' = Append(Flushed, Message("system", <<TextPart(Joined(lc[back + 1].content))>>))
    /\ pendingAssistant' = None

FromEnd ==
    /\ Converted /\ back = Len(lc) /\ pendingAssistant # None
    /\ out' = Flushed /\ pendingAssistant' = None
    /\ UNCHANGED <<given, todo, walkVars, lc, back>>

\* The conversation resumes, once, from the thread that came back.
Resume ==
    /\ Converted /\ back = Len(lc) /\ pendingAssistant = None /\ before = None
    /\ thread' = out /\ todo' = out
    /\ prior' = <<>> /\ before' = lc /\ lc' = <<>>
    /\ back' = 0 /\ out' = <<>>
    /\ UNCHANGED <<walkVars, pendingAssistant>>

LCNext ==
    \/ Convert \/ OpenAssistant
    \/ TakeText \/ TakeCall \/ TakeResult \/ DropPart \/ CloseAssistant
    \/ FromHuman \/ FromAI \/ FromTool \/ FromOther \/ FromEnd
    \/ Resume

LCSpec == LCInit /\ [][LCNext]_lcVars
----------------------------------------------------------------------------
\* The marks of a thread or of a list of LangChain messages: its tokens of text, its
\* calls and its results with their texts, in order, but for the parts that have no
\* counterpart.  A call without an id has the mark of one that was given an id.
Shown == [user |-> {"text"}, system |-> {"text"}, tool |-> {"result"},
          assistant |-> {"text", "call", "result"}]

CallMark(id) == <<"call", Named(id), <<>>>>

MarksOf(part) ==
    IF part.kind = "text"
    THEN [i \in DOMAIN part.text |-> <<"text", part.text[i], <<>>>>]
    ELSE IF part.kind = "result" THEN <<<<"result", part.id, ResultText(part)>>>>
    ELSE IF part.kind = "call" THEN <<CallMark(part.id)>>
    ELSE <<<<part.kind, part.id, <<>>>>>>

Marks(content, kinds) ==
    LET shown == OfKind(content, kinds)
        all   == FlattenSeq([i \in DOMAIN shown |-> MarksOf(shown[i])])
    IN  Kept(all, {i \in DOMAIN all : all[i][2] # FileMark})

ThreadMarks(t) == FlattenSeq([i \in DOMAIN t |-> Marks(t[i].content, Shown[t[i].role])])

LCMarks(l) ==
    FlattenSeq([i \in DOMAIN l |->
        IF l[i].type = "tool" THEN <<<<"result", l[i].call_id, Joined(l[i].content)>>>>
        ELSE Marks(l[i].content, {"text"})
             \o [j \in DOMAIN l[i].calls |-> CallMark(l[i].calls[j])]])

\* What the thread was converted to.
Added == SubSeq(lc, Len(prior) + 1, Len(lc))

Only(marks, kinds) == Kept(marks, {i \in DOMAIN marks : marks[i][1] \in kinds})

\* "preserve chronological order" (langchain.py:103): at every point of the walk the
\* messages so far (the caller's first), the pending group and the parts to come have every text, call and
\* result once, the texts and the calls each in their order, and each on its side of
\* every result.
ChronologyKept ==
    LET remaining == IF parts = None THEN <<>> ELSE Marks(parts, Shown["assistant"])
        marks == LCMarks(lc \o Group) \o remaining \o ThreadMarks(todo)
    IN  \A kinds \in {{"text", "result"}, {"call", "result"}} :
            Only(marks, kinds) = Only(LCMarks(prior) \o ThreadMarks(thread), kinds)

\* What comes back has everything the LangChain messages had, in their order.
ComesBack ==
    ThreadMarks(Flushed) = LCMarks(SubSeq(lc, 1, back))

----------------------------------------------------------------------------
\* Each result comes after the one call it answers, and is its only answer.
Answered(content) ==
    /\ \A i, j \in DOMAIN content :
          i # j /\ content[i].kind \in {"call", "result"} /\ content[i].kind = content[j].kind
              => content[i].id # content[j].id
    /\ \A j \in DOMAIN content : content[j].kind = "result" =>
          \E i \in 1..j-1 : content[i].kind = "call" /\ content[i].id = content[j].id

\* Whoever goes on after a result has waited for the results of all calls.
RoundsComplete(content) ==
    \A i, j, k \in DOMAIN content :
        (/\ i < j /\ content[i].kind = "result"
         /\ k < j /\ content[k].kind = "call" /\ content[j].kind \in {"text", "call"})
            => \E r \in 1..j-1 : content[r].kind = "result" /\ content[r].id = content[k].id

Assistants(t) == {i \in DOMAIN t : t[i].role = "assistant"}
NoToolRole(t) == \A i \in DOMAIN t : t[i].role # "tool"

\* Every tool message follows, with tool messages only in between, the AI message
\* that has its call.
Paired(l) ==
    \A i \in DOMAIN l : l[i].type = "tool" =>
        \E j \in 1..i-1 : /\ l[j].type = "ai" /\ Contains(l[j].calls, l[i].call_id)
                          /\ \A k \in j+1..i-1 : l[k].type = "tool"

\* Every result is in the message that has its call.
Inline(t) ==
    \A i \in DOMAIN t : \A r \in DOMAIN t[i].content : t[i].content[r].kind = "result" =>
        \E c \in 1..r-1 : t[i].content[c].kind = "call" /\ t[i].content[c].id = t[i].content[r].id

\* "Trailing tool_results follow the AIMessage that introduced their calls"
\* (langchain.py:107-108), for any order in which results arrive.
ResultsFollowTheirCall ==
    (Paired(prior) /\ NoToolRole(thread) /\ \A i \in Assistants(thread) : Answered(thread[i].content))
        => Paired(lc)

\* The same, of messages whose rounds are complete.
RoundsStayPaired ==
    (Paired(prior) /\ NoToolRole(thread) /\ \A i \in Assistants(thread) :
        Answered(thread[i].content) /\ RoundsComplete(thread[i].content))
            => Paired(lc)

\* "the spec's inline tool_call/tool_result pairing is preserved" (langchain.py:20-21):
\* when tool messages follow their calls, and have an id, the results come back inline.
ComesBackInline ==
    Paired(lc) /\ (\A i \in DOMAIN lc : lc[i].type = "tool" => lc[i].call_id # None)
        => Inline(Flushed)

Resumed(m) ==
    CASE m.type = "other" -> System(m.content)
      [] m.type = "ai"    -> [m EXCEPT !.calls = [i \in DOMAIN m.calls |-> Named(m.calls[i])]]
      [] OTHER            -> m

\* What a resumed agent is given: the thread made of a list of LangChain messages
\* becomes that list again, message by message, whatever it held (tool messages nobody
\* asked for, assistant turns with nothing to show); a message of an unknown class is
\* from then on a system message, and a call without an id has one.
ResumesTheSame ==
    before # None /\ Converted => lc = [i \in DOMAIN before |-> Resumed(before[i])]
=============================================================================
