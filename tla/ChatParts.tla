----------------------------- MODULE ChatParts -----------------------------
(***************************************************************************)
(* Content parts of a ChatMessage, as the stream sees them: the fields     *)
(* that streaming reads or writes, shallow merge of a patch into a dumped  *)
(* part, and the validation that turns a merged dictionary back into a     *)
(* part (schema.py, and the pydantic adapter events.py:102 builds from it).*)
(*                                                                         *)
(* A part, a dumped part and a patch are records with the same fields.     *)
(* Absent is a key the dictionary does not have; None is JSON null.        *)
(*   type    the discriminator                                             *)
(*   id      the caller-chosen id of a tool_call or a subagent             *)
(*   has     which of the other required fields are present; the rest of   *)
(*           a part's fields are optional and no operation reads them      *)
(*   text    a sequence of streamed pieces                                 *)
(*   status  of a tool_call or a subagent                                  *)
(*   meta    of a tool_call or a subagent, a small dictionary              *)
(***************************************************************************)
EXTENDS Integers, Sequences

CONSTANTS Token, PartId, MetaKey, MetaVal, None, Absent

Status == {"pending", "running", "completed", "failed", "cancelled"}

\* "unknown" is any type string outside _KNOWN_PART_TYPES; it also stands for
\* the known types whose fields the stream never looks at (image, file, ...).
PartType == {"text", "reasoning", "feedback", "tool_call", "subagent", "unknown"}

\* None and Absent are markers, not data: no dictionary holds them as a
\* status, an id, a text or a type.
ASSUME MarkerAssumption ==
    /\ None # Absent
    /\ {None, Absent} \cap (PartId \cup PartType \cup Status \cup {"bogus"}) = {}
    /\ None \notin Seq(Token) /\ Absent \notin Seq(Token)

Textual == {"text", "reasoning"}
Tracked == {"tool_call", "subagent"}

\* Fields without a default, other than id.
Required ==
    [t \in PartType |->
        CASE t = "tool_call" -> {"name"}
          [] t = "subagent"  -> {"name", "thread_id"}
          [] t = "feedback"  -> {"sentiment"}
          [] OTHER           -> {}]

FieldName == {"name", "thread_id", "sentiment"}

Bucket == UNION {[K -> MetaVal] : K \in SUBSET MetaKey}
EmptyBucket == [k \in {} |-> None]

\* Dictionaries that may or may not be valid parts, and patches.
Dict == [type   : PartType \cup {None, Absent},
         id     : PartId \cup {None, Absent},
         has    : SUBSET FieldName,
         text   : Seq(Token) \cup {None, Absent},
         status : Status \cup {"bogus", None, Absent},
         meta   : Bucket \cup {None, Absent}]

\* The patch that mentions no key.
NoPatch == [type |-> Absent, id |-> Absent, has |-> {}, text |-> Absent,
            status |-> Absent, meta |-> Absent]

----------------------------------------------------------------------------
\* A dictionary with some of the keys D, and values in R.
IsPartial(f, D, R) == DOMAIN f \subseteq D /\ f \in [DOMAIN f -> R]

\* {**old, **new} on two flat dictionaries.
Overlay(old, new) ==
    [k \in DOMAIN old \cup DOMAIN new |->
        IF k \in DOMAIN new THEN new[k] ELSE old[k]]

\* `meta or {}`
OrEmpty(meta) == IF meta \in Bucket THEN meta ELSE EmptyBucket

Pick(new, old) == IF new = Absent THEN old ELSE new

\* {**part.model_dump(), **patch}: keys of the patch win, null included, and
\* nested dictionaries are replaced whole.
Merge(part, patch) ==
    [type   |-> Pick(patch.type, part.type),
     id     |-> Pick(patch.id, part.id),
     has    |-> part.has \cup patch.has,
     text   |-> Pick(patch.text, part.text),
     status |-> Pick(patch.status, part.status),
     meta   |-> Pick(patch.meta, part.meta)]

\* What validate_python accepts, by the class the discriminator selects.
Valid(d) ==
    /\ d.type \in PartType
    /\ Required[d.type] \subseteq d.has
    /\ d.type \in Textual => d.text # None
    /\ d.type \in Tracked =>
          /\ d.id \in PartId
          /\ d.status \in Status \cup {Absent}

\* The defaults of declared fields that are not required.
DefaultText(type) ==
    IF type \in Textual THEN <<>> ELSE IF type = "feedback" THEN None ELSE Absent
DefaultStatus(type) == IF type \in Tracked THEN "pending" ELSE Absent
DefaultMeta(type) == IF type \in Tracked THEN None ELSE Absent

\* The part validate_python builds from a valid dictionary: declared fields
\* that are missing take their default, undeclared ones are kept as extras.
Validated(d) ==
    [type   |-> d.type,
     id     |-> d.id,
     has    |-> d.has,
     text   |-> Pick(d.text, DefaultText(d.type)),
     status |-> Pick(d.status, DefaultStatus(d.type)),
     meta   |-> Pick(d.meta, DefaultMeta(d.type))]

\* A part object: it went through a constructor or the adapter.
Part == {p \in Dict : Valid(p) /\ Validated(p) = p}

\* isinstance(getattr(part, "text", None), str)
HasText(p) == p.text \notin {None, Absent}

\* part.model_copy(update={"text": cur + text})
Extended(p, text) == [p EXCEPT !.text = @ \o text]

TextPart(text)      == Validated([NoPatch EXCEPT !.type = "text", !.text = text])
ReasoningPart(text) == Validated([NoPatch EXCEPT !.type = "reasoning", !.text = text])

\* A ToolCallPart or a SubagentPart as add_tool_call and add_subagent build it.
TrackedPart(kind, id, meta) ==
    Validated([type |-> kind, id |-> id, has |-> Required[kind], text |-> Absent,
               status |-> Absent, meta |-> meta])
=============================================================================
