--------------------------- MODULE StreamRefinement ---------------------------
(***************************************************************************)
(* EventStream implements MessageMirror: builders, events, the reducer and *)
(* a faulty transport together show each receiver the senders' contents.   *)
(***************************************************************************)
EXTENDS EventStream

\* What receiver r has of the messages it missed nothing of, at the contents
\* the senders held when they emitted the last event r is past.
Seen(r) ==
    [m \in DOMAIN held[cursor[r] + 1] \ gap[r] |->
        IF m \in DOMAIN recv[r] THEN recv[r][m].content ELSE None]

Places == [r \in Receiver |-> cursor[r] + 1]
Views == [r \in Receiver |-> Seen(r)]

Mirror == INSTANCE MessageMirror
    WITH Reader <- Receiver,
         Key    <- MessageId,
         Value  <- Seq(Part),
         truth  <- held,
         place  <- Places,
         blind  <- gap,
         view   <- Views

\* The promise of streaming.py:7-9 as a specification: a sink that forwards
\* every event to apply_event mirrors the messages.  Whatever was lost, repeated,
\* refused or restarted, a receiver goes through the senders' versions forward
\* only, and its copy of a message it missed nothing of is that version's.
ImplementsMirror == Mirror!MirrorSpec
===============================================================================
