--------------------------- MODULE MCMessageBuilder ---------------------------
(* Inputs for checking MessageBuilder and EventStream with TLC. *)
EXTENDS MessageBuilder

ASSUME PlainInputs

Patch(fields) == fields @@ NoPatch

TextOnly == {TextPart(<<>>)}

\* A text to begin with, so that the first token already extends one.
BegunText == {TextPart(<<t>>) : t \in Token}

\* Feedback: its text may be null, so it is not always a target for tokens.
TextAndFeedback ==
    {TextPart(<<>>), Validated(Patch([type |-> "feedback", has |-> {"sentiment"}]))}

MorphToReasoning == {Patch([type |-> "reasoning"])}

\* The two do not commute: a text part takes a null text only once it has
\* become a part whose text is an extra.
MorphOrNullText == {Patch([type |-> "unknown"]), Patch([text |-> None])}

\* The part leaves the tracked types; its id stays behind as an extra.
MorphOut == {Patch([type |-> "unknown"])}

\* A text is added: to a feedback part its reason, to others an extra.
GiveText == {Patch([text |-> <<>>])}

OneStatus == {"completed"}
GoodAndBadStatus == {"completed", "bogus"}

OneKeyBuckets == {[x \in {k} |-> v] : k \in MetaKey, v \in MetaVal}
NoBuckets == {}
==============================================================================
