----------------------------- MODULE EventStream -----------------------------
(***************************************************************************)
(* Senders (MessageBuilder) and receivers that fold apply_event over the   *)
(* events the sink took.  The transport is not in the repository: it keeps *)
(* the order of events, and may lose one, deliver the last one again, or   *)
(* drop a receiver that comes back later with nothing.  Those are the      *)
(* cases the code names ("clients that joined late, dropped events",       *)
(* events.py:80-82).                                                       *)
(***************************************************************************)
EXTENDS MessageBuilder

CONSTANT Receiver

VARIABLES
    recv,    \* recv[r]: the receiver's {message_id: ChatMessage} map
    cursor,  \* cursor[r]: how many events of the log are behind r
    gap,     \* gap[r]: messages of which r missed something no snapshot healed
    failed,  \* receivers whose loop an event has ended
    left,    \* messages whose with-block the sender has left
    held     \* history: held[j + 1] is what the senders held after log[j]

receiverVars == <<recv, cursor, gap, failed>>
streamVars == <<builderVars, receiverVars, left, held>>

StreamTypeOK ==
    /\ BuilderTypeOK
    /\ recv = [r \in Receiver |-> recv[r]]
    /\ \A r \in Receiver : IsMessageMap(recv[r])
    /\ cursor \in [Receiver -> Nat]
    /\ \A r \in Receiver : cursor[r] <= Len(log)
    /\ gap \in [Receiver -> SUBSET MessageId]
    /\ failed \subseteq Receiver
    /\ left \subseteq MessageId
    /\ held = [j \in 1 .. Len(log) + 1 |-> held[j]]
    /\ \A j \in 1 .. Len(log) + 1 : IsPartial(held[j], MessageId, Seq(Part))

\* The contents in hand that the emitted events account for.
Held == [m \in {n \in MessageId : Open(n) /\ n \notin skewed} |-> msg[m].content]

StreamInit ==
    /\ BuilderInit
    /\ recv = [r \in Receiver |-> NoMessages]
    /\ cursor = [r \in Receiver |-> 0]
    /\ gap = [r \in Receiver |-> {}]
    /\ failed = {}
    /\ left = {}
    /\ held = <<NoMessages>>

----------------------------------------------------------------------------
\* A builder's step, and what is in hand after the event it emitted, if any.
Told ==
    /\ held' = IF log' = log THEN held ELSE Append(held, Held')
    /\ UNCHANGED receiverVars

\* A message_started that was just emitted: of a builder that is in no with-block.
Begins(m) ==
    /\ log' # log
    /\ log'[Len(log')].event = "message_started"
    /\ Target(log'[Len(log')]) = m

Sender ==
    /\ BuilderNext
    /\ Told
    /\ left' = {m \in left : ~Begins(m)}

\* __exit__(): the caller leaves the with-block, through its end or through an
\* exception.  It finalizes, once; if the sink refuses the event, that is it.
Leave(m) ==
    /\ Open(m) /\ m \notin left
    /\ left' = left \cup {m}
    /\ \/ /\ finalized[m]
          /\ UNCHANGED <<builderVars, receiverVars, held>>
       \/ \E outcome \in Outcome : Finalize(m, outcome) /\ Told
       \/ /\ ~finalized[m]
          /\ FaultAllowed("sink")
          /\ faults' = faults + 1
          /\ UNCHANGED <<msg, index, finalized, returned, skewed, log, receiverVars, held>>

Healed(g, e) == IF IsSnapshot(e) THEN g \ {Target(e)} ELSE g

\* state = apply_event(state, event): an event that raises ends the loop, and
\* the receiver is left with the state it had.
Receive(r, e) ==
    /\ recv' = [recv EXCEPT ![r] = IF Raises(@, e) THEN @ ELSE ApplyEvent(@, e)]
    /\ failed' = IF Raises(recv[r], e) THEN failed \cup {r} ELSE failed

Deliver(r) ==
    /\ r \notin failed
    /\ cursor[r] < Len(log)
    /\ LET e == log[cursor[r] + 1]
       IN  /\ Receive(r, e)
           /\ gap' = [gap EXCEPT ![r] = Healed(@, e)]
    /\ cursor' = [cursor EXCEPT ![r] = @ + 1]
    /\ UNCHANGED <<builderVars, left, held>>

Fault(f) ==
    /\ FaultAllowed(f)
    /\ faults' = faults + 1
    /\ UNCHANGED <<msg, index, finalized, returned, skewed, log, left, held>>

\* Whether the transport may fail to deliver e at all.
MayMiss(e) == e.event = "message_finalized" => "lose_final" \in Faults

Lose(r) ==
    /\ r \notin failed
    /\ cursor[r] < Len(log)
    /\ MayMiss(log[cursor[r] + 1])
    /\ Fault("lose")
    /\ cursor' = [cursor EXCEPT ![r] = @ + 1]
    /\ gap' = [gap EXCEPT ![r] = @ \cup {Target(log[cursor[r] + 1])}]
    /\ UNCHANGED <<recv, failed>>

\* The last event again: harmless for a snapshot or a patch, a second copy of
\* the part or of the text for the other two.
Redeliver(r) ==
    /\ r \notin failed
    /\ cursor[r] > 0
    /\ Fault("redeliver")
    /\ LET e == log[cursor[r]]
       IN  /\ Receive(r, e)
           /\ gap' = [gap EXCEPT ![r] =
                        IF e.event \in {"part_appended", "token_delta"}
                        THEN @ \cup {Target(e)} ELSE Healed(@, e)]
    /\ UNCHANGED cursor

\* The receiver restarts, and sees only what is emitted from now on.
Rejoin(r) ==
    /\ \A j \in DOMAIN log : MayMiss(log[j])
    /\ Fault("rejoin")
    /\ recv' = [recv EXCEPT ![r] = NoMessages]
    /\ cursor' = [cursor EXCEPT ![r] = Len(log)]
    /\ gap' = [gap EXCEPT ![r] = MessageId]
    /\ failed' = failed \ {r}

StreamNext ==
    \/ Sender
    \/ \E m \in MessageId : Leave(m)
    \/ \E r \in Receiver : Deliver(r) \/ Lose(r) \/ Redeliver(r) \/ Rejoin(r)

StreamSpec == StreamInit /\ [][StreamNext]_streamVars

----------------------------------------------------------------------------
\* Safety.

\* Event e accounts for every content in `after`, given those in `before`.
Tells(before, e, after) ==
    \A m \in DOMAIN after :
        IF m # Target(e) THEN m \in DOMAIN before /\ after[m] = before[m]
        ELSE IF IsSnapshot(e) THEN e.message.content = after[m]
        ELSE /\ m \in DOMAIN before
             /\ e.event = "part_updated" =>
                   /\ InRange(before[m], e.index)
                   /\ Valid(Merge(before[m][e.index + 1], e.patch))
             /\ after[m] = ContentAfter(before[m], e)

\* The sender's half of the promise of streaming.py:7-9: what a builder does to
\* the content in hand is what the reducer makes of the event it emits, through
\* a different code path, unless the sink refused an event since the last
\* snapshot; and nothing happens to the content of any other message.
EventsTell ==
    /\ \A j \in DOMAIN log : Tells(held[j], log[j], held[j + 1])
    /\ \A m \in DOMAIN Held :
          m \in DOMAIN held[Len(held)] /\ held[Len(held)][m] = msg[m].content

\* Until it misses something, a receiver holds of every message exactly the
\* content its sender held when it emitted the last event delivered: the
\* promise of streaming.py:7-9, at every event and not only at the end, with
\* other messages interleaved.  After a miss the next snapshot restores it.
InSync ==
    \A r \in Receiver :
        LET truth == held[cursor[r] + 1]
        IN  \A m \in DOMAIN truth \ gap[r] :
                m \in DOMAIN recv[r] /\ recv[r][m].content = truth[m]

\* A receiver that missed nothing never gets a part_updated its copy cannot
\* take: what the sender validated (streaming.py:371) validates on arrival
\* (events.py:156), where a failure would raise out of the reducer.
NeverRaises ==
    \A r \in Receiver : cursor[r] < Len(log) =>
        LET e == log[cursor[r] + 1]
        IN  Target(e) \in DOMAIN held[cursor[r] + 2] \ gap[r] => ~Raises(recv[r], e)

\* The payload of the last message_finalized of m.
FinalPayload(m) ==
    LET finals == {j \in DOMAIN log : log[j].event = "message_finalized" /\ Target(log[j]) = m}
    IN  log[Max(finals)].message

\* "The final reconstructed message on the receiver MUST equal the
\* message_finalized.message payload exactly" (UNIVERSAL_MESSAGE_SPEC.md:534-535),
\* meta included, whatever was lost, repeated or interleaved before it.
FinalMatches ==
    \A r \in Receiver, m \in MessageId :
        finalized[m] /\ cursor[r] = Len(log) /\ m \notin gap[r] =>
            m \in DOMAIN recv[r] /\ recv[r][m] = FinalPayload(m)

\* "Clients that joined late, dropped events, or recovered from a crash can sync
\* to a known-good final state" (events.py:80-82): no receiver has stopped before
\* a message_finalized that is yet to come.
FinalEventReaches ==
    \A r \in failed : \A j \in cursor[r] + 1 .. Len(log) :
        log[j].event # "message_finalized"

----------------------------------------------------------------------------
\* Liveness.

\* The transport keeps delivering to a receiver that runs, and callers leave
\* their with-blocks (streaming.py:382-388).  Nobody calls finalize() again.
Fairness ==
    /\ \A r \in Receiver : WF_streamVars(Deliver(r))
    /\ \A m \in MessageId : WF_streamVars(Leave(m))

FairStreamSpec == StreamSpec /\ Fairness

\* Every message that was opened ends, for every receiver, as the message its
\* sender finalized, although events other than the final one may be lost or
\* repeated, receivers may join late, the sink may raise and senders may restart:
\* unless the receiver has stopped, or the sink raised at the one finalize() of
\* __exit__.
Converges ==
    \A r \in Receiver, m \in MessageId :
        Open(m) ~> \/ r \in failed
                   \/ m \in left /\ ~finalized[m]
                   \/ finalized[m] /\ m \in DOMAIN recv[r] /\ recv[r][m] = msg[m]
=============================================================================
