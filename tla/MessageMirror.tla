---------------------------- MODULE MessageMirror ----------------------------
(***************************************************************************)
(* What streaming promises, without events, parts or faults: every version *)
(* of the messages is published in one order, one message changing at a    *)
(* time, and each reader looks at one version after the other.  A reader   *)
(* may be blind to some messages; of the others it sees all of the version *)
(* it is at, and never an earlier one, a mixture, or an invention.         *)
(***************************************************************************)
EXTENDS Naturals, Sequences

CONSTANTS Reader, Key, Value

VARIABLES
    truth,   \* the versions published so far, each a map from keys to values
    place,   \* place[r]: which version r looks at
    blind,   \* blind[r]: the keys r sees nothing of
    view     \* view[r]: what r sees

mirrorVars == <<truth, place, blind, view>>

Nothing == [k \in {} |-> 0]

MirrorInit ==
    /\ truth = <<Nothing>>
    /\ place = [r \in Reader |-> 1]
    /\ blind = [r \in Reader |-> {}]
    /\ view = [r \in Reader |-> Nothing]

\* A version in which k has a new value, or another message is withdrawn.
Publish(k) ==
    LET old == truth[Len(truth)]
        new == truth'[Len(truth')]
    IN  /\ truth' = Append(truth, new)
        /\ DOMAIN new \subseteq DOMAIN old \cup {k}
        /\ \A n \in DOMAIN new \ {k} : new[n] = old[n]
        /\ k \in DOMAIN new => new[k] \in Value
        /\ UNCHANGED <<place, blind, view>>

\* Reader r looks at version p and sees all of it but the hidden keys.
See(r, p, hidden) ==
    /\ place' = [place EXCEPT ![r] = p]
    /\ blind' = [blind EXCEPT ![r] = hidden]
    /\ view' = [view EXCEPT ![r] = [k \in DOMAIN truth[p] \ hidden |-> truth[p][k]]]
    /\ UNCHANGED truth

\* On to the next version, or no further; one key may come into sight.
Follow(r, k) ==
    \E p \in {place[r], place[r] + 1} :
        /\ p \in DOMAIN truth
        /\ See(r, p, blind[r]) \/ See(r, p, blind[r] \ {k})

\* Forward by any number of versions, out of sight of more keys.
Miss(r) ==
    \E p \in DOMAIN truth, hidden \in SUBSET Key :
        /\ place[r] <= p
        /\ blind[r] \subseteq hidden
        /\ See(r, p, hidden)

MirrorNext ==
    \/ \E k \in Key : Publish(k)
    \/ \E r \in Reader, k \in Key : Follow(r, k)
    \/ \E r \in Reader : Miss(r)

MirrorSpec == MirrorInit /\ [][MirrorNext]_mirrorVars
==============================================================================
