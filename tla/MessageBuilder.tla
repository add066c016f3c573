--------------------------- MODULE MessageBuilder ---------------------------
(***************************************************************************)
(* The sender: one MessageBuilder per message id (python streaming.py).    *)
(* Every mutator changes the message in hand and then hands one event to   *)
(* the sink.  The sink is the caller's function and may raise, before or   *)
(* after it took the event; the exception then leaves the mutator where    *)
(* the sink was called, with what it had already changed left changed.     *)
(*                                                                         *)
(* A call the code rejects (IndexError, KeyError, TypeError, ValueError,   *)
(* ValidationError) changes nothing: it is a step that is not taken.       *)
(***************************************************************************)
EXTENDS EventReducer

CONSTANTS
    Faults,       \* the faults that may happen
    MaxFaults,    \* bound: how many of them
    MaxLog,       \* bound: no new edit once this many events were sunk
    LateEdits,    \* TRUE if callers may edit a message they have finalized
    PartInputs,   \* parts handed to append_part (add_text, add_file, ...)
    Patches,      \* patches handed to patch_part
    StatusInputs, \* statuses handed to update_*_status
    MetaInputs,   \* values handed to set_meta
    PartMeta      \* dictionaries handed to add_* as meta, to update_* as meta_patch

FaultName == {"sink", "restart", "lose", "lose_final", "redeliver", "rejoin"}

ASSUME BuilderAssumption ==
    /\ Faults \subseteq FaultName
    /\ MaxFaults \in Nat /\ MaxLog \in Nat
    /\ LateEdits \in BOOLEAN
    /\ PartInputs \subseteq Part
    /\ Patches \subseteq Dict
    /\ StatusInputs \subseteq Status \cup {"bogus"}
    /\ MetaInputs \subseteq Bucket /\ PartMeta \subseteq Bucket

VARIABLES
    msg,       \* msg[m]: the message in hand, None before start() returns
    index,     \* index[m][kind]: the builder's id -> content index dictionaries
    finalized, \* finalized[m]: the builder's flag
    returned,  \* returned[m]: what finalize() last returned, None before
    skewed,    \* messages whose content in hand the emitted events do not tell
    log,       \* the events the sink took, in order
    faults     \* how many faults happened

builderVars == <<msg, index, finalized, returned, skewed, log, faults>>

NoIndex == [k \in Tracked |-> [i \in {} |-> 0]]

BuilderTypeOK ==
    /\ msg \in [MessageId -> Message \cup {None}]
    /\ index = [m \in MessageId |-> [k \in Tracked |-> index[m][k]]]
    /\ \A m \in MessageId, k \in Tracked : IsPartial(index[m][k], PartId, Nat)
    /\ finalized \in [MessageId -> BOOLEAN]
    /\ returned \in [MessageId -> Message \cup {None}]
    /\ skewed \subseteq MessageId
    /\ log \in Seq(Event)
    /\ faults \in Nat

BuilderInit ==
    /\ msg = [m \in MessageId |-> None]
    /\ index = [m \in MessageId |-> NoIndex]
    /\ finalized = [m \in MessageId |-> FALSE]
    /\ returned = [m \in MessageId |-> None]
    /\ skewed = {}
    /\ log = <<>>
    /\ faults = 0

----------------------------------------------------------------------------
\* What became of an event given to the sink: "handed" over; "dropped", the
\* sink raised without taking it; or "raised", it raised after taking it.
Outcome == {"handed", "dropped", "raised"}

FaultAllowed(f) == f \in Faults /\ faults < MaxFaults

Emit(e, outcome) ==
    /\ outcome # "handed" => FaultAllowed("sink")
    /\ log' = IF outcome = "dropped" THEN log ELSE Append(log, e)
    /\ faults' = IF outcome = "handed" THEN faults ELSE faults + 1

Open(m) == msg[m] # None

\* Nothing in the builder asks whether the message was finalized.
Editable(m) == Open(m) /\ (LateEdits \/ ~finalized[m]) /\ Len(log) < MaxLog

\* The content in hand becomes `content` and event e is emitted.
Edit(m, content, e, outcome) ==
    /\ msg' = [msg EXCEPT ![m].content = content]
    /\ Emit(e, outcome)
    /\ skewed' = IF outcome = "dropped" THEN skewed \cup {m} ELSE skewed
    /\ UNCHANGED <<finalized, returned>>

----------------------------------------------------------------------------
NewMessage(m, meta) == [id |-> m, meta |-> meta, content |-> <<>>]

\* start(): if the sink raises, the caller never gets the builder.
Start(m, meta, outcome) ==
    /\ ~Open(m)
    /\ Emit(Started(NewMessage(m, meta)), outcome)
    /\ IF outcome = "handed"
       THEN /\ msg' = [msg EXCEPT ![m] = NewMessage(m, meta)]
            /\ skewed' = skewed \ {m}
       ELSE /\ skewed' = skewed \cup {m}
            /\ UNCHANGED msg
    /\ UNCHANGED <<index, finalized, returned>>

\* Mutation: the new builder inherits the old one's index.
RestartKeepsIndex(m, meta) ==
    /\ Open(m)
    /\ FaultAllowed("restart")
    /\ msg' = [msg EXCEPT ![m] = NewMessage(m, meta)]
    /\ finalized' = [finalized EXCEPT ![m] = FALSE]
    /\ returned' = [returned EXCEPT ![m] = None]
    /\ skewed' = skewed \ {m}
    /\ log' = Append(log, Started(NewMessage(m, meta)))
    /\ faults' = faults + 1
    /\ UNCHANGED index

\* The sending process dies and start() opens the same id again: a new builder.
Restart(m, meta) ==
    /\ Open(m)
    /\ FaultAllowed("restart")
    /\ msg' = [msg EXCEPT ![m] = NewMessage(m, meta)]
    /\ index' = [index EXCEPT ![m] = NoIndex]
    /\ finalized' = [finalized EXCEPT ![m] = FALSE]
    /\ returned' = [returned EXCEPT ![m] = None]
    /\ skewed' = skewed \ {m}
    /\ log' = Append(log, Started(NewMessage(m, meta)))
    /\ faults' = faults + 1

\* append_part() without what its callers do next.
Push(m, part, outcome) ==
    LET content == msg[m].content
    IN  Edit(m, Append(content, part), Appended(m, Len(content), part), outcome)

\* append_part(), and every add_* that only builds a part and appends it.
AppendPart(m, part, outcome) ==
    /\ Editable(m)
    /\ Push(m, part, outcome)
    /\ UNCHANGED index

\* Mutation: the duplicate check is dropped.
AddTrackedUnchecked(m, kind, id, meta, outcome) ==
    /\ Editable(m)
    /\ Push(m, TrackedPart(kind, id, meta), outcome)
    /\ index' = IF outcome = "handed"
                THEN [index EXCEPT ![m][kind] =
                         Overlay(@, [i \in {id} |-> Len(msg[m].content)])]
                ELSE index

\* add_tool_call() and add_subagent(): the index learns of the part only after
\* append_part returned.
AddTracked(m, kind, id, meta, outcome) ==
    /\ Editable(m)
    /\ id \notin DOMAIN index[m][kind]
    /\ Push(m, TrackedPart(kind, id, meta), outcome)
    /\ index' = IF outcome = "handed"
                THEN [index EXCEPT ![m][kind] =
                         Overlay(@, [i \in {id} |-> Len(msg[m].content)])]
                ELSE index

\* Mutation: the delta carries the whole text of the part.
AppendTokenSendsAll(m, i, text, outcome) ==
    /\ Editable(m)
    /\ text # <<>>
    /\ InRange(msg[m].content, i)
    /\ HasText(msg[m].content[i + 1])
    /\ LET new == Extended(msg[m].content[i + 1], text)
       IN  Edit(m, [msg[m].content EXCEPT ![i + 1] = new], Delta(m, i, new.text), outcome)
    /\ UNCHANGED index

\* append_token(); i is a content index.
AppendToken(m, i, text, outcome) ==
    /\ Editable(m)
    /\ text # <<>>
    /\ InRange(msg[m].content, i)
    /\ HasText(msg[m].content[i + 1])
    /\ Edit(m, [msg[m].content EXCEPT ![i + 1] = Extended(@, text)], Delta(m, i, text), outcome)
    /\ UNCHANGED index

\* Mutation: the merged part is stored and announced without validation.
PatchPartUnchecked(m, i, patch, outcome) ==
    /\ Editable(m)
    /\ InRange(msg[m].content, i)
    /\ LET merged == Merge(msg[m].content[i + 1], patch)
       IN  Edit(m, [msg[m].content EXCEPT ![i + 1] = merged], Updated(m, i, patch), outcome)
    /\ UNCHANGED index

\* patch_part(): the merged part is validated before anything changes.
PatchPart(m, i, patch, outcome) ==
    /\ Editable(m)
    /\ InRange(msg[m].content, i)
    /\ LET merged == Merge(msg[m].content[i + 1], patch)
       IN  /\ Valid(merged)
           /\ Edit(m, [msg[m].content EXCEPT ![i + 1] = Validated(merged)],
                   Updated(m, i, patch), outcome)
    /\ UNCHANGED index

\* Mutation: meta_patch is sent as the whole meta.
StatusPatchClobbers(part, status, metaPatch) ==
    [NoPatch EXCEPT !.status = status, !.meta = metaPatch]

\* The patch update_tool_status() and update_subagent_status() build: meta is
\* merged here, since receivers replace it whole.
StatusPatch(part, status, metaPatch) ==
    [NoPatch EXCEPT
        !.status = status,
        !.meta = IF metaPatch = Absent THEN Absent
                 ELSE Overlay(OrEmpty(part.meta), metaPatch)]

UpdateStatus(m, kind, id, status, metaPatch, outcome) ==
    /\ Open(m)
    /\ id \in DOMAIN index[m][kind]
    /\ LET i == index[m][kind][id]
       IN  PatchPart(m, i, StatusPatch(msg[m].content[i + 1], status, metaPatch), outcome)

\* set_meta(): changes the message in hand, emits nothing.
SetMeta(m, namespace, values) ==
    /\ Editable(m)
    /\ LET meta   == msg[m].meta
           bucket == IF namespace \in DOMAIN meta THEN meta[namespace] ELSE EmptyBucket
       IN  msg' = [msg EXCEPT ![m].meta =
                      Overlay(meta, [n \in {namespace} |-> Overlay(bucket, values)])]
    /\ UNCHANGED <<index, finalized, returned, skewed, log, faults>>

\* finalize(): the first call emits the snapshot, a later one only returns it.  A
\* sink that raises before it took the event leaves everything as it was.
Finalize(m, outcome) ==
    /\ Open(m)
    /\ ~finalized[m]
    /\ outcome # "dropped"
    /\ Emit(Finalized(m, msg[m]), outcome)
    /\ skewed' = skewed \ {m}
    /\ IF outcome = "handed"
       THEN /\ finalized' = [finalized EXCEPT ![m] = TRUE]
            /\ returned' = [returned EXCEPT ![m] = msg[m]]
       ELSE UNCHANGED <<finalized, returned>>
    /\ UNCHANGED <<msg, index>>

FinalizeAgain(m) ==
    /\ Open(m)
    /\ finalized[m]
    /\ returned' = [returned EXCEPT ![m] = msg[m]]
    /\ UNCHANGED <<msg, index, finalized, skewed, log, faults>>

----------------------------------------------------------------------------
EmptyMeta == [n \in {} |-> EmptyBucket]

\* The content indices a caller can name; any other is rejected.
Indices(m) == IF Open(m) THEN 0 .. Len(msg[m].content) - 1 ELSE {}

BuilderNext ==
    \E m \in MessageId :
        \/ Restart(m, EmptyMeta)
        \/ FinalizeAgain(m)
        \/ \E namespace \in Namespace, values \in MetaInputs : SetMeta(m, namespace, values)
        \/ \E outcome \in Outcome :
            \/ Start(m, EmptyMeta, outcome)
            \/ Finalize(m, outcome)
            \/ \E part \in PartInputs : AppendPart(m, part, outcome)
            \/ \E kind \in Tracked, id \in PartId, meta \in PartMeta \cup {None} :
                  AddTracked(m, kind, id, meta, outcome)
            \/ \E i \in Indices(m), t \in Token : AppendToken(m, i, <<t>>, outcome)
            \/ \E i \in Indices(m), patch \in Patches : PatchPart(m, i, patch, outcome)
            \/ \E kind \in Tracked, id \in PartId, status \in StatusInputs,
                  metaPatch \in PartMeta \cup {Absent} :
                  UpdateStatus(m, kind, id, status, metaPatch, outcome)

\* Callers hand in tracked parts through add_tool_call and add_subagent only,
\* and patches neither change an id nor make a tracked part of another one.
PlainInputs ==
    /\ \A part \in PartInputs : part.type \notin Tracked
    /\ \A patch \in Patches : patch.id = Absent /\ patch.type \notin Tracked

BuilderSpec == BuilderInit /\ [][BuilderNext]_builderVars

----------------------------------------------------------------------------
\* Properties of the sender alone.

\* An id in a builder's dictionary leads to the part that carries it.
LeadsTo(ids, content) ==
    \A kind \in Tracked : \A id \in DOMAIN ids[kind] :
        InRange(content, ids[kind][id]) /\ content[ids[kind][id] + 1].id = id

\* A part that is a tool_call or a subagent is found under its id.
Lists(ids, content) ==
    \A i \in DOMAIN content :
        LET part == content[i]
        IN  part.type \in Tracked =>
                part.id \in DOMAIN ids[part.type] /\ ids[part.type][part.id] = i - 1

\* The two id dictionaries of a builder are exactly the tracked parts of its
\* content, whatever was appended or morphed since.  (streaming.py:188-199,
\* 319-332: the index is set once, at append, and never revised.)
IndexSound ==
    \A m \in MessageId : Open(m) =>
        LeadsTo(index[m], msg[m].content) /\ Lists(index[m], msg[m].content)

\* No message carries two tool calls, or two subagents, under one id
\* (test_streaming.py:86-90; streaming.py:188-189, 319-320).
NoDuplicateIds ==
    \A m \in MessageId : Open(m) =>
        LET content == msg[m].content
        IN  \A i, j \in DOMAIN content :
                /\ content[i].type \in Tracked
                /\ content[i].type = content[j].type
                /\ content[i].id = content[j].id
                => i = j

\* A step gives the part with that id the status, leaves every other part alone,
\* and drops no meta key that was there.
StatusLands(m, id, status) ==
    \E i \in DOMAIN msg[m].content :
        LET old == msg[m].content[i]
            new == msg'[m].content[i]
        IN  /\ old.id = id
            /\ new.id = id /\ new.status = status
            /\ DOMAIN OrEmpty(old.meta) \subseteq DOMAIN OrEmpty(new.meta)
            /\ \A j \in DOMAIN msg[m].content \ {i} : msg'[m].content[j] = msg[m].content[j]

\* A status update reaches its part, however far down the content and whatever it
\* was patched into ("so callers don't accidentally clobber prior keys",
\* streaming.py:217-221).
StatusReachesItsPart ==
    [][\A m \in MessageId, kind \in Tracked, id \in PartId, status \in StatusInputs,
          metaPatch \in PartMeta \cup {Absent}, outcome \in Outcome :
        UpdateStatus(m, kind, id, status, metaPatch, outcome) => StatusLands(m, id, status)
      ]_builderVars
=============================================================================
