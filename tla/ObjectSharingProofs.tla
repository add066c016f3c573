-------------------------- MODULE ObjectSharingProofs --------------------------
(***************************************************************************)
(* What sharing of objects can do, and what it cannot: for any number of   *)
(* messages, callers' objects and steps.                                   *)
(*                                                                         *)
(* Most steps only add objects to the heap, and what refers to the old     *)
(* ones keeps its value.  Those that write into an object there is are     *)
(* set_meta() and a caller's edit.  The invariant says who may hold such   *)
(* an object: what a caller can write into is lent wherever it is shared   *)
(* (OnlyLent), and what a builder writes into is its own or lent (Own).    *)
(***************************************************************************)
EXTENDS ObjectSharing, SequenceTheorems, TLAPS

\* The heap ps, ds after b births: each object was born in one of them.
HeapOK(ps, ds, b) ==
    /\ b \in Nat
    /\ ps \in [DOMAIN ps -> [text : Nat, field : Field, box : DOMAIN ds]]
    /\ ds = [d \in DOMAIN ds |-> ds[d]]
    /\ \A p \in DOMAIN ps : p[1] \in 0 .. b
    /\ \A d \in DOMAIN ds : d[1] \in 0 .. b /\ d # Unset

\* A message and an event that refer to objects of the heap.
IsMessage(ps, ds, x) ==
    /\ x = [content |-> x.content, meta |-> x.meta]
    /\ x.content \in Seq(DOMAIN ps)
    /\ x.meta = [n \in DOMAIN x.meta |-> x.meta[n]]
    /\ \A n \in DOMAIN x.meta : x.meta[n] \in DOMAIN ds

IsEvent(ps, ds, e) ==
    \/ /\ IsSnapshot(e)
       /\ e = [event |-> e.event, id |-> e.id, message |-> e.message]
       /\ IsMessage(ps, ds, e.message)
    \/ /\ e.event = "part_appended"
       /\ e = [event |-> "part_appended", id |-> e.id, part |-> e.part]
       /\ e.part \in DOMAIN ps
    \/ /\ e.event = "token_delta"
       /\ e = [event |-> "token_delta", id |-> e.id, index |-> e.index]
    \/ /\ e.event = "part_updated"
       /\ e = [event |-> "part_updated", id |-> e.id, index |-> e.index, patch |-> e.patch]
       /\ e.patch \in DOMAIN ds \cup {Unset}

\* The heap qs, es has all that ps, ds has, unchanged.
Grows(ps, ds, qs, es) ==
    /\ DOMAIN ps \subseteq DOMAIN qs /\ \A p \in DOMAIN ps : qs[p] = ps[p]
    /\ DOMAIN ds \subseteq DOMAIN es /\ \A d \in DOMAIN ds : es[d] = ds[d]

IsSeq(s) == s \in Seq({s[i] : i \in DOMAIN s})

----------------------------------------------------------------------------
\* Sequences and functions.

LEMMA AppendAny ==
    ASSUME NEW s, IsSeq(s), NEW x
    PROVE  /\ IsSeq(Append(s, x)) /\ Len(s) \in Nat /\ DOMAIN s = 1 .. Len(s)
           /\ Len(Append(s, x)) = Len(s) + 1 /\ DOMAIN Append(s, x) = 1 .. Len(s) + 1
           /\ Append(s, x)[Len(s) + 1] = x /\ \A j \in DOMAIN s : Append(s, x)[j] = s[j]
<1> DEFINE S == {s[i] : i \in DOMAIN s} \cup {x}
           t == Append(s, x)
<1>1. s \in Seq(S)
  <2>1. {s[i] : i \in DOMAIN s} \subseteq S
    OBVIOUS
  <2> HIDE DEF S
  <2> QED  BY <2>1, SeqMonotonic DEF IsSeq
<1>2. x \in S
  OBVIOUS
<1> HIDE DEF S
<1>3. /\ Len(s) \in Nat /\ DOMAIN s = 1 .. Len(s) /\ t \in Seq(S)
      /\ Len(t) = Len(s) + 1 /\ t[Len(s) + 1] = x /\ \A j \in 1 .. Len(s) : t[j] = s[j]
  BY <1>1, <1>2, AppendProperties, LenProperties
<1>4. DOMAIN t = 1 .. Len(t) /\ t = [i \in 1 .. Len(t) |-> t[i]] /\ Len(t) \in Nat
  BY <1>3, LenProperties, SeqDef
<1> HIDE DEF t
<1>5. t \in Seq({t[i] : i \in DOMAIN t})
  BY <1>4, SeqDef
<1> QED  BY <1>3, <1>4, <1>5 DEF IsSeq, t

LEMMA AppendTyped ==
    ASSUME NEW S, NEW s \in Seq(S), NEW x \in S
    PROVE  /\ Append(s, x) \in Seq(S) /\ Len(s) \in Nat /\ DOMAIN s = 1 .. Len(s)
           /\ DOMAIN Append(s, x) = 1 .. Len(s) + 1
           /\ Append(s, x)[Len(s) + 1] = x /\ \A j \in DOMAIN s : Append(s, x)[j] = s[j]
  BY AppendProperties, LenProperties

LEMMA ElementTyped ==
    ASSUME NEW S, NEW s \in Seq(S)
    PROVE  /\ Len(s) \in Nat /\ DOMAIN s = 1 .. Len(s) /\ s = [i \in 1 .. Len(s) |-> s[i]]
           /\ \A i \in DOMAIN s : s[i] \in S
  BY LenProperties, SeqDef

LEMMA ExceptTyped ==
    ASSUME NEW S, NEW s \in Seq(S), NEW i \in DOMAIN s, NEW x \in S
    PROVE  /\ [s EXCEPT ![i] = x] \in Seq(S) /\ DOMAIN [s EXCEPT ![i] = x] = DOMAIN s
           /\ [s EXCEPT ![i] = x][i] = x
           /\ \A j \in DOMAIN s \ {i} : [s EXCEPT ![i] = x][j] = s[j]
  BY ExceptSeq, ElementTyped

----------------------------------------------------------------------------
\* Growing heaps.

LEMMA GrownContent ==
    ASSUME NEW ps, NEW ds, NEW qs, NEW es, NEW b, HeapOK(ps, ds, b), Grows(ps, ds, qs, es),
           NEW c \in Seq(DOMAIN ps)
    PROVE  /\ c \in Seq(DOMAIN qs)
           /\ \A i \in DOMAIN c : c[i] \in DOMAIN ps /\ ps[c[i]].box \in DOMAIN ds
           /\ ContentValue(qs, es, c) = ContentValue(ps, ds, c)
           /\ Boxes(qs, c) = Boxes(ps, c)
<1>1. \A i \in DOMAIN c : c[i] \in DOMAIN ps
  BY ElementTyped
<1>2. \A p \in DOMAIN ps : ps[p].box \in DOMAIN ds
  BY DEF HeapOK
<1>3. c \in Seq(DOMAIN qs)
  <2> DEFINE S == DOMAIN ps
             T == DOMAIN qs
  <2>1. S \subseteq T /\ c \in Seq(S)
    BY DEF Grows
  <2> HIDE DEF S, T
  <2>2. c \in Seq(T)
    BY <2>1, SeqMonotonic
  <2> QED  BY <2>2 DEF T
<1>4. ContentValue(qs, es, c) = ContentValue(ps, ds, c)
  BY <1>1, <1>2 DEF ContentValue, PartValue, Grows
<1>5. Boxes(qs, c) = Boxes(ps, c)
  BY <1>1 DEF Boxes, PartRefs, Grows
<1> QED  BY <1>1, <1>2, <1>3, <1>4, <1>5

LEMMA GrownMessage ==
    ASSUME NEW ps, NEW ds, NEW qs, NEW es, NEW b, HeapOK(ps, ds, b), Grows(ps, ds, qs, es),
           NEW x, IsMessage(ps, ds, x)
    PROVE  /\ IsMessage(qs, es, x) /\ MessageValue(qs, es, x) = MessageValue(ps, ds, x)
           /\ DictRefs(qs, x) = DictRefs(ps, x) /\ DictRefs(ps, x) \subseteq DOMAIN ds
           /\ PartRefs(x.content) \subseteq DOMAIN ps
<1> DEFINE c == x.content
<1>1. c \in Seq(DOMAIN ps)
  BY DEF IsMessage
<1> HIDE DEF c
<1>2. /\ c \in Seq(DOMAIN qs) /\ ContentValue(qs, es, c) = ContentValue(ps, ds, c)
      /\ Boxes(qs, c) = Boxes(ps, c)
      /\ \A i \in DOMAIN c : c[i] \in DOMAIN ps /\ ps[c[i]].box \in DOMAIN ds
  BY <1>1, GrownContent
<1>3. \A n \in DOMAIN x.meta : x.meta[n] \in DOMAIN ds /\ x.meta[n] \in DOMAIN es
                               /\ es[x.meta[n]] = ds[x.meta[n]]
  BY DEF IsMessage, Grows
<1>4. IsMessage(qs, es, x)
  BY <1>2, <1>3 DEF IsMessage, c
<1>5. MessageValue(qs, es, x) = MessageValue(ps, ds, x)
  BY <1>2, <1>3 DEF MessageValue, c
<1>6. DictRefs(qs, x) = DictRefs(ps, x)
  BY <1>2 DEF DictRefs, c
<1>7. DictRefs(ps, x) \subseteq DOMAIN ds /\ PartRefs(x.content) \subseteq DOMAIN ps
  BY <1>2, <1>3 DEF DictRefs, Boxes, PartRefs, MetaRefs, c
<1> QED  BY <1>4, <1>5, <1>6, <1>7

LEMMA GrownEvent ==
    ASSUME NEW ps, NEW ds, NEW qs, NEW es, NEW b, HeapOK(ps, ds, b), Grows(ps, ds, qs, es),
           NEW e, IsEvent(ps, ds, e)
    PROVE  /\ IsEvent(qs, es, e) /\ Serialized(qs, es, e) = Serialized(ps, ds, e)
           /\ EventDicts(qs, e) = EventDicts(ps, e) /\ EventDicts(ps, e) \subseteq DOMAIN ds
           /\ EventParts(e) \subseteq DOMAIN ps
<1>1. CASE IsSnapshot(e)
  <2>1. IsMessage(ps, ds, e.message)
    BY <1>1 DEF IsEvent, IsSnapshot
  <2>2. /\ IsMessage(qs, es, e.message)
        /\ MessageValue(qs, es, e.message) = MessageValue(ps, ds, e.message)
        /\ DictRefs(qs, e.message) = DictRefs(ps, e.message) /\ DictRefs(ps, e.message) \subseteq DOMAIN ds
        /\ PartRefs(e.message.content) \subseteq DOMAIN ps
    BY <2>1, GrownMessage
  <2> QED  BY <1>1, <2>2 DEF IsEvent, IsSnapshot, Serialized, EventDicts, EventParts
<1>2. CASE e.event = "part_appended"
  <2>1. e.part \in DOMAIN ps /\ ps[e.part].box \in DOMAIN ds
    BY <1>2 DEF IsEvent, IsSnapshot, HeapOK
  <2> QED  BY <1>2, <2>1 DEF IsEvent, IsSnapshot, Serialized, EventDicts, EventParts, PartValue, Grows
<1>3. CASE e.event = "token_delta"
  BY <1>3 DEF IsEvent, IsSnapshot, Serialized, EventDicts, EventParts
<1>4. CASE e.event = "part_updated"
  BY <1>4 DEF IsEvent, IsSnapshot, Serialized, EventDicts, EventParts, Grows
<1> QED  BY <1>1, <1>2, <1>3, <1>4 DEF IsEvent

----------------------------------------------------------------------------
\* New objects.

NewRef(r, b) == r[1] = b + 1

LEMMA NewRefs ==
    ASSUME NEW ps, NEW ds, NEW b, HeapOK(ps, ds, b)
    PROVE  /\ \A r : NewRef(r, b) => r \notin DOMAIN ps /\ r \notin DOMAIN ds /\ r # Unset
           /\ NewRef(One(b + 1), b) /\ NewRef(Two(b + 1), b) /\ One(b + 1) # Two(b + 1)
           /\ \A x : NewRef(<<b + 1, x>>, b)
<1>1. b \in Nat
  BY DEF HeapOK
<1>2. \A r : NewRef(r, b) => r \notin DOMAIN ps /\ r \notin DOMAIN ds
  BY <1>1 DEF HeapOK, NewRef
<1>3. \A r : NewRef(r, b) => r # Unset
  BY <1>1 DEF NewRef, Unset
<1>4. NewRef(One(b + 1), b) /\ NewRef(Two(b + 1), b) /\ One(b + 1) # Two(b + 1)
  BY DEF NewRef, One, Two
<1>5. \A x : NewRef(<<b + 1, x>>, b)
  BY DEF NewRef
<1> QED  BY <1>2, <1>3, <1>4, <1>5

LEMMA SameGrows ==
    ASSUME NEW ps, NEW ds
    PROVE  Grows(ps, ds, ps, ds)
  BY DEF Grows

LEMMA LaterHeap ==
    ASSUME NEW ps, NEW ds, NEW b, HeapOK(ps, ds, b)
    PROVE  HeapOK(ps, ds, b + 1)
<1>1. b \in Nat /\ \A r : r[1] \in 0 .. b => r[1] \in 0 .. b + 1
  BY DEF HeapOK
<1> QED  BY <1>1 DEF HeapOK

\* A new dictionary, and a new part, in the heap of the step.
LEMMA NewDict ==
    ASSUME NEW ps, NEW ds, NEW b, HeapOK(ps, ds, b), NEW r, r[1] = b, r \notin DOMAIN ds, r # Unset, NEW keys
    PROVE  /\ HeapOK(ps, Put(ds, r, keys), b) /\ Grows(ps, ds, ps, Put(ds, r, keys))
           /\ Put(ds, r, keys)[r] = keys /\ DOMAIN Put(ds, r, keys) = DOMAIN ds \cup {r}
<1> DEFINE es == Put(ds, r, keys)
<1>1. /\ DOMAIN es = DOMAIN ds \cup {r} /\ es[r] = keys /\ \A d \in DOMAIN ds : es[d] = ds[d]
      /\ es = [d \in DOMAIN es |-> es[d]]
  BY DEF Put
<1>2. b \in Nat
  BY DEF HeapOK
<1> HIDE DEF es
<1>3. ps \in [DOMAIN ps -> [text : Nat, field : Field, box : DOMAIN es]]
  <2>1. \A p \in DOMAIN ps : ps[p] \in [text : Nat, field : Field, box : DOMAIN es]
    BY <1>1 DEF HeapOK
  <2> QED  BY <2>1 DEF HeapOK
<1>4. \A d \in DOMAIN es : d[1] \in 0 .. b /\ d # Unset
  BY <1>1, <1>2 DEF HeapOK
<1> QED  BY <1>1, <1>2, <1>3, <1>4 DEF HeapOK, Grows, es

LEMMA NewPart ==
    ASSUME NEW ps, NEW ds, NEW b, HeapOK(ps, ds, b), NEW r, r[1] = b, r \notin DOMAIN ps,
           NEW part \in [text : Nat, field : Field, box : DOMAIN ds]
    PROVE  /\ HeapOK(Put(ps, r, part), ds, b) /\ Grows(ps, ds, Put(ps, r, part), ds)
           /\ Put(ps, r, part)[r] = part /\ DOMAIN Put(ps, r, part) = DOMAIN ps \cup {r}
<1> DEFINE qs == Put(ps, r, part)
<1>1. /\ DOMAIN qs = DOMAIN ps \cup {r} /\ qs[r] = part /\ \A p \in DOMAIN ps : qs[p] = ps[p]
      /\ qs = [p \in DOMAIN qs |-> qs[p]]
  BY DEF Put
<1>2. b \in Nat
  BY DEF HeapOK
<1> HIDE DEF qs
<1>3. qs \in [DOMAIN qs -> [text : Nat, field : Field, box : DOMAIN ds]]
  BY <1>1 DEF HeapOK
<1>4. \A p \in DOMAIN qs : p[1] \in 0 .. b
  BY <1>1, <1>2 DEF HeapOK
<1> QED  BY <1>1, <1>2, <1>3, <1>4 DEF HeapOK, Grows, qs

LEMMA GrowsOn ==
    ASSUME NEW ps, NEW ds, NEW qs, NEW es, NEW rs, NEW fs, Grows(ps, ds, qs, es), Grows(qs, es, rs, fs)
    PROVE  Grows(ps, ds, rs, fs)
  BY DEF Grows

\* The copy of a message refers to new objects only, and says the same.
LEMMA CopyIs ==
    ASSUME NEW ps, NEW ds, NEW b, HeapOK(ps, ds, b), NEW x, IsMessage(ps, ds, x)
    PROVE  LET qs == PartsWithCopy(ps, x, b + 1)
               es == DictsWithCopy(ps, ds, x, b + 1)
               y  == DeepCopy(x, b + 1)
           IN  /\ HeapOK(qs, es, b + 1) /\ Grows(ps, ds, qs, es)
               /\ IsMessage(qs, es, y) /\ MessageValue(qs, es, y) = MessageValue(ps, ds, x)
               /\ \A p \in PartRefs(y.content) : NewRef(p, b)
               /\ \A d \in DictRefs(qs, y) : NewRef(d, b)
               /\ \A p \in DOMAIN qs \ DOMAIN ps : NewRef(qs[p].box, b)
               /\ PartRefs(y.content) = {<<b + 1, p>> : p \in PartRefs(x.content)}
               /\ DictRefs(qs, y) = {<<b + 1, d>> : d \in DictRefs(ps, x)}
<1> DEFINE id == b + 1
           qs == PartsWithCopy(ps, x, id)
           es == DictsWithCopy(ps, ds, x, id)
           y  == DeepCopy(x, id)
           c == x.content
           P == PartRefs(c)
           D == DictRefs(ps, x)
<1>1. \A r : NewRef(r, b) => r \notin DOMAIN ps /\ r \notin DOMAIN ds /\ r # Unset
  BY NewRefs
<1>2. \A z : NewRef(<<id, z>>, b) /\ <<id, z>>[2] = z /\ <<id, z>>[1] = id
  BY DEF NewRef
<1>3. id \in Nat /\ b \in Nat /\ id > b
  BY DEF HeapOK
<1>4. c \in Seq(DOMAIN ps) /\ \A i \in DOMAIN c : c[i] \in DOMAIN ps
  BY ElementTyped DEF IsMessage
<1>5. P \subseteq DOMAIN ps /\ D \subseteq DOMAIN ds /\ \A p \in P : ps[p].box \in D
  <2>1. P \subseteq DOMAIN ps /\ D \subseteq DOMAIN ds
    BY SameGrows, GrownMessage
  <2>2. \A p \in P : ps[p].box \in D
    BY DEF DictRefs, Boxes
  <2> QED  BY <2>1, <2>2
<1>6. /\ DOMAIN qs = DOMAIN ps \cup {<<id, p>> : p \in P}
      /\ \A p \in DOMAIN ps : qs[p] = ps[p]
  BY DEF PartsWithCopy
<1>7. \A p \in P : qs[<<id, p>>] = [ps[p] EXCEPT !.box = <<id, ps[p].box>>]
  BY <1>1, <1>2 DEF PartsWithCopy
<1>8. /\ DOMAIN es = DOMAIN ds \cup {<<id, d>> : d \in D}
      /\ \A d \in DOMAIN ds : es[d] = ds[d]
      /\ es = [d \in DOMAIN es |-> es[d]] /\ qs = [p \in DOMAIN qs |-> qs[p]]
  BY DEF DictsWithCopy, PartsWithCopy
<1>9. \A d \in D : es[<<id, d>>] = ds[d]
  BY <1>1, <1>2 DEF DictsWithCopy
<1>10. /\ y = [content |-> y.content, meta |-> y.meta]
       /\ DOMAIN y.content = DOMAIN c /\ \A i \in DOMAIN c : y.content[i] = <<id, c[i]>>
       /\ DOMAIN y.meta = DOMAIN x.meta /\ \A n \in DOMAIN x.meta : y.meta[n] = <<id, x.meta[n]>>
       /\ y.meta = [n \in DOMAIN y.meta |-> y.meta[n]] /\ y.content = [i \in DOMAIN c |-> y.content[i]]
  BY DEF DeepCopy
<1> HIDE DEF qs, es, y, D, P, c, id
<1>11. \A p \in DOMAIN ps : ps[p] \in [text : Nat, field : Field, box : DOMAIN ds]
  BY DEF HeapOK
<1>12. \A p \in P : /\ qs[<<id, p>>].text = ps[p].text /\ qs[<<id, p>>].field = ps[p].field
                    /\ qs[<<id, p>>].box = <<id, ps[p].box>>
                    /\ qs[<<id, p>>] \in [text : Nat, field : Field, box : DOMAIN es]
  <2> SUFFICES ASSUME NEW p \in P
               PROVE  /\ qs[<<id, p>>].text = ps[p].text /\ qs[<<id, p>>].field = ps[p].field
                      /\ qs[<<id, p>>].box = <<id, ps[p].box>>
                      /\ qs[<<id, p>>] \in [text : Nat, field : Field, box : DOMAIN es]
    OBVIOUS
  <2> DEFINE q == qs[<<id, p>>]
             box == <<id, ps[p].box>>
  <2>1. q = [ps[p] EXCEPT !.box = box]
    BY <1>7
  <2>2. box \in DOMAIN es
    BY <1>5, <1>8
  <2>3. ps[p] \in [text : Nat, field : Field, box : DOMAIN ds]
    BY <1>5, <1>11
  <2> HIDE DEF q, box
  <2>4. q.text = ps[p].text /\ q.field = ps[p].field /\ q.box = box
        /\ q \in [text : Nat, field : Field, box : DOMAIN es]
    BY <2>1, <2>2, <2>3
  <2> QED  BY <2>4 DEF q, box
<1>13. \A p \in DOMAIN qs : qs[p] \in [text : Nat, field : Field, box : DOMAIN es]
  BY <1>6, <1>8, <1>11, <1>12
<1>14. /\ \A p \in DOMAIN qs : p[1] \in 0 .. id
       /\ \A d \in DOMAIN es : d[1] \in 0 .. id /\ d # Unset
  <2>1. \A p \in DOMAIN ps : p[1] \in 0 .. id
    BY <1>3 DEF HeapOK
  <2>2. \A d \in DOMAIN ds : d[1] \in 0 .. id /\ d # Unset
    BY <1>3 DEF HeapOK
  <2>3. \A z : <<id, z>>[1] \in 0 .. id /\ <<id, z>> # Unset
    BY <1>1, <1>2, <1>3
  <2> QED  BY <1>6, <1>8, <2>1, <2>2, <2>3
<1>15. HeapOK(qs, es, id)
  BY <1>3, <1>8, <1>13, <1>14 DEF HeapOK
<1>16. Grows(ps, ds, qs, es)
  BY <1>6, <1>8 DEF Grows
<1>17. y.content \in Seq(DOMAIN qs)
  <2>1. Len(c) \in Nat /\ DOMAIN c = 1 .. Len(c)
    BY <1>4, ElementTyped
  <2>2. \A i \in DOMAIN c : y.content[i] \in DOMAIN qs
    <3>1. \A i \in DOMAIN c : c[i] \in P
      BY DEF P, PartRefs
    <3> QED  BY <1>6, <1>10, <3>1
  <2> QED  BY <1>10, <2>1, <2>2, SeqDef
<1>18. \A n \in DOMAIN x.meta : x.meta[n] \in D /\ y.meta[n] \in DOMAIN es /\ es[y.meta[n]] = ds[x.meta[n]]
  <2>1. \A n \in DOMAIN x.meta : x.meta[n] \in D
    BY DEF D, DictRefs, MetaRefs
  <2> QED  BY <1>8, <1>9, <1>10, <2>1
<1>19. IsMessage(qs, es, y)
  BY <1>10, <1>17, <1>18 DEF IsMessage
<1>20. \A i \in DOMAIN c : PartValue(qs, es, y.content[i]) = PartValue(ps, ds, c[i])
  <2> SUFFICES ASSUME NEW i \in DOMAIN c
               PROVE  PartValue(ps, ds, c[i]) = PartValue(qs, es, y.content[i])
    OBVIOUS
  <2> DEFINE p == c[i]
             d == ps[p].box
  <2>1. p \in P /\ d \in D
    BY <1>5 DEF P, PartRefs
  <2>2. y.content[i] = <<id, p>>
    BY <1>10
  <2>3. qs[<<id, p>>].text = ps[p].text /\ qs[<<id, p>>].box = <<id, d>> /\ es[<<id, d>>] = ds[d]
    BY <1>9, <1>12, <2>1
  <2> QED  BY <2>2, <2>3 DEF PartValue
<1>21. MessageValue(qs, es, y) = MessageValue(ps, ds, x)
  <2>1. ContentValue(qs, es, y.content) = ContentValue(ps, ds, c)
    BY <1>10, <1>20 DEF ContentValue
  <2>2. [n \in DOMAIN y.meta |-> es[y.meta[n]]] = [n \in DOMAIN x.meta |-> ds[x.meta[n]]]
    BY <1>10, <1>18
  <2> QED  BY <2>1, <2>2 DEF MessageValue, c
<1>22. PartRefs(y.content) = {<<id, p>> : p \in P}
  <2>1. PartRefs(y.content) = {<<id, c[i]>> : i \in DOMAIN c}
    BY <1>10 DEF PartRefs
  <2>2. \A z : z \in {<<id, p>> : p \in P} <=> \E i \in DOMAIN c : z = <<id, c[i]>>
    BY DEF P, PartRefs
  <2> QED  BY <2>1, <2>2
<1>23. DictRefs(qs, y) = {<<id, d>> : d \in D}
  <2>1. Boxes(qs, y.content) = {<<id, d>> : d \in Boxes(ps, c)}
    <3>1. Boxes(qs, y.content) = {qs[<<id, p>>].box : p \in P}
      BY <1>22 DEF Boxes
    <3>2. \A p \in P : qs[<<id, p>>].box = <<id, ps[p].box>>
      BY <1>12
    <3>4. \A z : z \in {qs[<<id, p>>].box : p \in P} <=> \E p \in P : z = <<id, ps[p].box>>
      BY <3>2
    <3>3. \A z : z \in {<<id, d>> : d \in Boxes(ps, c)} <=> \E p \in P : z = <<id, ps[p].box>>
      BY DEF Boxes, P
    <3> QED  BY <3>1, <3>3, <3>4
  <2>2. MetaRefs(y) = {<<id, d>> : d \in MetaRefs(x)}
    <3>1. MetaRefs(y) = {<<id, x.meta[n]>> : n \in DOMAIN x.meta}
      BY <1>10 DEF MetaRefs
    <3>2. \A z : z \in {<<id, d>> : d \in MetaRefs(x)} <=> \E n \in DOMAIN x.meta : z = <<id, x.meta[n]>>
      BY DEF MetaRefs
    <3> QED  BY <3>1, <3>2
  <2>3. D = Boxes(ps, c) \cup MetaRefs(x)
    BY DEF DictRefs, D, c
  <2> QED  BY <2>1, <2>2, <2>3 DEF DictRefs
<1>24. \A p \in DOMAIN qs \ DOMAIN ps : NewRef(qs[p].box, b)
  BY <1>2, <1>6, <1>12
<1>25. /\ \A p \in PartRefs(y.content) : NewRef(p, b)
       /\ \A d \in DictRefs(qs, y) : NewRef(d, b)
  BY <1>2, <1>22, <1>23
<1> QED  BY <1>15, <1>16, <1>19, <1>21, <1>22, <1>23, <1>24, <1>25 DEF qs, es, y, D, P, c, id

----------------------------------------------------------------------------
\* What an event does to a content, by reference and by value.

LEMMA AppendedValue ==
    ASSUME NEW ps, NEW ds, NEW c \in Seq(DOMAIN ps), NEW p \in DOMAIN ps
    PROVE  ContentValue(ps, ds, Append(c, p)) = Append(ContentValue(ps, ds, c), PartValue(ps, ds, p))
<1> DEFINE v == ContentValue(ps, ds, c)
           d == Append(c, p)
           w == ContentValue(ps, ds, d)
<1>1. /\ Len(c) \in Nat /\ DOMAIN c = 1 .. Len(c) /\ DOMAIN d = 1 .. Len(c) + 1
      /\ d[Len(c) + 1] = p /\ \A j \in DOMAIN c : d[j] = c[j]
  BY AppendTyped
<1>2. DOMAIN v = DOMAIN c /\ \A i \in DOMAIN c : v[i] = PartValue(ps, ds, c[i])
  BY DEF ContentValue
<1>3. IsSeq(v) /\ Len(v) = Len(c)
  <2>1. v = [i \in 1 .. Len(c) |-> v[i]]
    BY <1>1 DEF ContentValue
  <2> HIDE DEF v
  <2>2. v \in Seq({v[i] : i \in DOMAIN v})
    BY <1>1, <1>2, <2>1, SeqDef
  <2>3. Len(v) = Len(c)
    BY <1>1, <1>2, <2>2, LenProperties
  <2> QED  BY <2>2, <2>3 DEF IsSeq
<1>4. w = [i \in DOMAIN d |-> PartValue(ps, ds, d[i])]
  BY DEF ContentValue
<1> HIDE DEF v, w, d
<1> DEFINE u == Append(v, PartValue(ps, ds, p))
<1>5. /\ IsSeq(u) /\ DOMAIN u = 1 .. Len(c) + 1 /\ u[Len(c) + 1] = PartValue(ps, ds, p)
      /\ \A j \in DOMAIN c : u[j] = v[j] /\ Len(u) = Len(c) + 1
  BY <1>2, <1>3, AppendAny
<1>6. u = [i \in 1 .. Len(u) |-> u[i]] /\ Len(u) = Len(c) + 1
  <2>1. u \in Seq({u[i] : i \in DOMAIN u})
    BY <1>5 DEF IsSeq
  <2>2. Len(u) \in Nat /\ DOMAIN u = 1 .. Len(u) /\ u = [i \in 1 .. Len(u) |-> u[i]]
    BY <2>1, ElementTyped
  <2> QED  BY <1>1, <1>5, <2>2
<1> HIDE DEF u
<1>7. \A i \in 1 .. Len(c) + 1 : u[i] = PartValue(ps, ds, d[i])
  BY <1>1, <1>2, <1>5
<1>8. w = u
  BY <1>1, <1>4, <1>6, <1>7
<1> QED  BY <1>8 DEF v, w, d, u

\* The content c with part r at position i.
Replaced(c, i, r) == [c EXCEPT ![i] = r]

\* Each of the three events, the heap having grown.
LEMMA AppendValue ==
    ASSUME NEW ps, NEW ds, NEW qs, NEW es, NEW b, HeapOK(ps, ds, b), Grows(ps, ds, qs, es),
           NEW c \in Seq(DOMAIN ps), NEW p \in DOMAIN qs,
           NEW v, v.event = "part_appended", v.part = PartValue(qs, es, p)
    PROVE  LET d == Append(c, p)
           IN  /\ d \in Seq(DOMAIN qs)
               /\ ContentValue(qs, es, d) = ContentAfter(ContentValue(ps, ds, c), v)
               /\ PartRefs(d) \subseteq PartRefs(c) \cup {p}
               /\ Boxes(qs, d) \subseteq Boxes(ps, c) \cup {qs[p].box}
<1> DEFINE S == DOMAIN qs
           d == Append(c, p)
<1>1. /\ c \in Seq(S) /\ ContentValue(qs, es, c) = ContentValue(ps, ds, c)
      /\ Boxes(qs, c) = Boxes(ps, c)
  BY GrownContent
<1>2. ContentValue(qs, es, d) = Append(ContentValue(qs, es, c), PartValue(qs, es, p))
  BY <1>1, AppendedValue
<1>3. ContentValue(qs, es, d) = ContentAfter(ContentValue(ps, ds, c), v)
  BY <1>1, <1>2 DEF ContentAfter
<1>4. p \in S
  OBVIOUS
<1> HIDE DEF S, d
<1>5. /\ d \in Seq(S) /\ Len(c) \in Nat /\ DOMAIN c = 1 .. Len(c)
      /\ DOMAIN d = 1 .. Len(c) + 1
      /\ d[Len(c) + 1] = p /\ \A j \in DOMAIN c : d[j] = c[j]
  BY <1>1, <1>4, AppendTyped DEF d
<1>6. \A j \in DOMAIN d : j \in DOMAIN c \/ d[j] = p
  BY <1>5
<1>7. PartRefs(d) \subseteq PartRefs(c) \cup {p}
  BY <1>5, <1>6 DEF PartRefs
<1>8. Boxes(qs, d) \subseteq Boxes(qs, c) \cup {qs[p].box}
  BY <1>7 DEF Boxes
<1> QED  BY <1>1, <1>3, <1>5, <1>7, <1>8 DEF S, d

\* Where a part is replaced.
LEMMA ReplaceRefs ==
    ASSUME NEW ps, NEW ds, NEW qs, NEW es, NEW b, HeapOK(ps, ds, b), Grows(ps, ds, qs, es),
           NEW c \in Seq(DOMAIN ps), NEW i \in DOMAIN c, NEW r \in DOMAIN qs
    PROVE  /\ Replaced(c, i, r) \in Seq(DOMAIN qs)
           /\ PartRefs(Replaced(c, i, r)) \subseteq PartRefs(c) \cup {r}
           /\ Boxes(qs, Replaced(c, i, r)) \subseteq Boxes(ps, c) \cup {qs[r].box}
           /\ ContentValue(qs, es, Replaced(c, i, r)) =
                [k \in DOMAIN c |-> IF k = i THEN PartValue(qs, es, r) ELSE PartValue(ps, ds, c[k])]
<1> DEFINE S == DOMAIN qs
           d == Replaced(c, i, r)
<1>1. /\ c \in Seq(S) /\ ContentValue(qs, es, c) = ContentValue(ps, ds, c)
      /\ Boxes(qs, c) = Boxes(ps, c)
  BY GrownContent
<1>2. ContentValue(qs, es, d) =
         [k \in DOMAIN c |-> IF k = i THEN PartValue(qs, es, r) ELSE PartValue(qs, es, c[k])]
  BY DEF ContentValue, Replaced
<1>3. \A k \in DOMAIN c : PartValue(qs, es, c[k]) = PartValue(ps, ds, c[k])
  <2>1. DOMAIN ContentValue(qs, es, c) = DOMAIN c
    BY DEF ContentValue
  <2>2. \A k \in DOMAIN c : /\ ContentValue(qs, es, c)[k] = PartValue(qs, es, c[k])
                            /\ ContentValue(ps, ds, c)[k] = PartValue(ps, ds, c[k])
    BY DEF ContentValue
  <2> QED  BY <1>1, <2>2
<1>4. r \in S
  OBVIOUS
<1> HIDE DEF S
<1>5. /\ d \in Seq(S) /\ DOMAIN d = DOMAIN c
      /\ d[i] = r /\ \A j \in DOMAIN c \ {i} : d[j] = c[j]
  <2> HIDE DEF d
  <2>1. c \in Seq(S)
    BY <1>1
  <2>2. /\ [c EXCEPT ![i] = r] \in Seq(S) /\ DOMAIN [c EXCEPT ![i] = r] = DOMAIN c
        /\ [c EXCEPT ![i] = r][i] = r
        /\ \A j \in DOMAIN c \ {i} : [c EXCEPT ![i] = r][j] = c[j]
    BY <1>4, <2>1, ExceptTyped
  <2>3. d = [c EXCEPT ![i] = r]
    BY DEF Replaced, d
  <2> QED  BY <2>2, <2>3
<1> HIDE DEF d
<1>6. PartRefs(d) \subseteq PartRefs(c) \cup {r}
  BY <1>5 DEF PartRefs
<1>7. Boxes(qs, d) \subseteq Boxes(qs, c) \cup {qs[r].box}
  BY <1>6 DEF Boxes
<1> QED  BY <1>1, <1>2, <1>3, <1>5, <1>6, <1>7 DEF S, d

LEMMA TokenValue ==
    ASSUME NEW ps, NEW ds, NEW qs, NEW es, NEW b, HeapOK(ps, ds, b), Grows(ps, ds, qs, es),
           NEW c \in Seq(DOMAIN ps), NEW i \in DOMAIN c, NEW r \in DOMAIN qs,
           qs[r] = [ps[c[i]] EXCEPT !.text = @ + 1],
           NEW v, v.event = "token_delta", v.index = i
    PROVE  ContentValue(qs, es, Replaced(c, i, r)) = ContentAfter(ContentValue(ps, ds, c), v)
<1> DEFINE old == ContentValue(ps, ds, c)
           new == ContentValue(qs, es, Replaced(c, i, r))
           p == c[i]
<1>1. new = [k \in DOMAIN c |-> IF k = i THEN PartValue(qs, es, r) ELSE PartValue(ps, ds, c[k])]
  BY ReplaceRefs
<1>2. ContentAfter(old, v) = [k \in DOMAIN old |-> IF k = i THEN [old[k] EXCEPT !.text = @ + 1] ELSE old[k]]
  BY DEF ContentAfter
<1>3. DOMAIN old = DOMAIN c /\ \A k \in DOMAIN c : old[k] = PartValue(ps, ds, c[k])
  BY DEF ContentValue
<1>4. PartValue(qs, es, r) = [PartValue(ps, ds, p) EXCEPT !.text = @ + 1]
  <2>1. p \in DOMAIN ps
    BY ElementTyped
  <2>2. ps[p] \in [text : Nat, field : Field, box : DOMAIN ds]
    BY <2>1 DEF HeapOK
  <2>3. qs[r].text = ps[p].text + 1 /\ qs[r].box = ps[p].box /\ es[ps[p].box] = ds[ps[p].box]
    BY <2>2 DEF Grows
  <2> QED  BY <2>3 DEF PartValue
<1> HIDE DEF old, new
<1>5. new = ContentAfter(old, v)
  BY <1>1, <1>2, <1>3, <1>4
<1> QED  BY <1>5 DEF old, new

LEMMA PatchValue ==
    ASSUME NEW ps, NEW ds, NEW qs, NEW es, NEW b, HeapOK(ps, ds, b), Grows(ps, ds, qs, es),
           NEW c \in Seq(DOMAIN ps), NEW i \in DOMAIN c, NEW r \in DOMAIN qs,
           NEW new, qs[r] = [ps[c[i]] EXCEPT !.box = new],
           NEW v, v.event = "part_updated", v.index = i,
           \/ v.patch = {es[new]}
           \/ v.patch = {} /\ es[new] = ds[ps[c[i]].box]
    PROVE  ContentValue(qs, es, Replaced(c, i, r)) = ContentAfter(ContentValue(ps, ds, c), v)
<1> DEFINE x == ContentValue(ps, ds, c)
           y == ContentValue(qs, es, Replaced(c, i, r))
           p == c[i]
           keys == CHOOSE k \in v.patch : TRUE
<1>1. y = [k \in DOMAIN c |-> IF k = i THEN PartValue(qs, es, r) ELSE PartValue(ps, ds, c[k])]
  BY ReplaceRefs
<1>2. ContentAfter(x, v) =
         [k \in DOMAIN x |-> IF k = i /\ v.patch # {} THEN [x[k] EXCEPT !.keys = keys] ELSE x[k]]
  BY DEF ContentAfter
<1>3. DOMAIN x = DOMAIN c /\ \A k \in DOMAIN c : x[k] = PartValue(ps, ds, c[k])
  BY DEF ContentValue
<1>4. PartValue(qs, es, r) = [text |-> ps[p].text, keys |-> es[new]]
  <2>1. p \in DOMAIN ps
    BY ElementTyped
  <2>2. ps[p] \in [text : Nat, field : Field, box : DOMAIN ds]
    BY <2>1 DEF HeapOK
  <2>3. qs[r].text = ps[p].text /\ qs[r].box = new
    BY <2>2
  <2> QED  BY <2>3 DEF PartValue
<1>5. PartValue(ps, ds, p) = [text |-> ps[p].text, keys |-> ds[ps[p].box]]
  BY DEF PartValue
<1>6. CASE v.patch = {}
  <2>1. v.patch = {} /\ PartValue(qs, es, r) = PartValue(ps, ds, p)
    BY <1>4, <1>5, <1>6
  <2> HIDE DEF x, y, keys
  <2>2. y = ContentAfter(x, v)
    BY <1>1, <1>2, <1>3, <2>1
  <2> QED  BY <2>2 DEF x, y
<1>7. CASE v.patch = {es[new]}
  <2>1. v.patch = {es[new]} /\ keys = es[new]
    BY <1>7
  <2>2. PartValue(qs, es, r) = [PartValue(ps, ds, p) EXCEPT !.keys = keys]
    BY <1>4, <1>5, <2>1
  <2>3. v.patch # {}
    BY <2>1
  <2> HIDE DEF x, y, keys
  <2>4. y = [k \in DOMAIN c |-> IF k = i THEN [x[k] EXCEPT !.keys = keys] ELSE x[k]]
    BY <1>1, <1>3, <2>2
  <2>5. y = ContentAfter(x, v)
    BY <1>2, <1>3, <2>3, <2>4
  <2> QED  BY <2>5 DEF x, y
<1> QED  BY <1>6, <1>7

----------------------------------------------------------------------------
(* The invariant.                                                          *)

Functional(f) == f = [x \in DOMAIN f |-> f[x]]

\* Everybody refers to objects there are, and the histories keep pace.
Holders ==
    /\ Functional(hand) /\ \A m \in DOMAIN hand : IsMessage(parts, dicts, hand[m])
    /\ Functional(near) /\ \A m \in DOMAIN near : IsMessage(parts, dicts, near[m])
    /\ IsSeq(log) /\ \A j \in DOMAIN log : IsEvent(parts, dicts, log[j])
    /\ IsSeq(wire) /\ Len(wire) = Len(log) /\ cursor \in 0 .. Len(log)
    /\ theirParts \subseteq DOMAIN parts /\ theirDicts \subseteq DOMAIN dicts
    /\ lentDicts \subseteq DOMAIN dicts /\ spoiled \subseteq DOMAIN log
    /\ DOMAIN given = DOMAIN hand /\ DOMAIN told = DOMAIN hand /\ DOMAIN far = DOMAIN near
    /\ Functional(given)

\* What callers can edit is lent, in a content in hand, near, and in an event, but
\* for what finalize() returned.
OnlyLent(P, D) == P \cap theirParts \subseteq lentParts /\ D \cap theirDicts \subseteq lentDicts

LentOnly ==
    /\ \A m \in DOMAIN hand : OnlyLent(PartRefs(hand[m].content), Boxes(parts, hand[m].content))
    /\ \A m \in DOMAIN near : OnlyLent(PartRefs(near[m].content), DictRefs(parts, near[m]))
    /\ \A j \in DOMAIN log : log[j].event # "message_finalized" =>
          OnlyLent(EventParts(log[j]), EventDicts(parts, log[j]))

\* Dictionaries of callers, of parts and in patches; and in the meta of copies.
InBox(ps, d) == \E p \in DOMAIN ps : ps[p].box = d
InPatch(l, d) == \E j \in DOMAIN l : l[j].event = "part_updated" /\ l[j].patch = d
InCopy(l, d) == \E j \in DOMAIN l : IsSnapshot(l[j]) /\ d \in MetaRefs(l[j].message)
InMeta(messages, d) == \E m \in DOMAIN messages : d \in MetaRefs(messages[m])
Taken(d) == d \in theirDicts \/ InBox(parts, d) \/ InPatch(log, d)
Copied(d) == InCopy(log, d) \/ InMeta(near, d)

\* set_meta() writes into a dictionary that is lent, or in one place only.
OneSlot(messages, m, n) ==
    \A k \in DOMAIN messages : \A l \in DOMAIN messages[k].meta :
        messages[k].meta[l] = messages[m].meta[n] => k = m /\ l = n

Private(m, n) ==
    ~Taken(hand[m].meta[n]) /\ ~Copied(hand[m].meta[n]) /\ OneSlot(hand, m, n)

Own == \A m \in DOMAIN hand : \A n \in DOMAIN hand[m].meta :
          hand[m].meta[n] \in lentDicts \/ Private(m, n)

\* Nobody else holds what a message_started holds.
Apart(e) == /\ PartRefs(e.message.content) = {}
            /\ \A d \in MetaRefs(e.message) : ~Taken(d) /\ ~InMeta(hand, d)
Started == \A j \in DOMAIN log : log[j].event = "message_started" => Apart(log[j])

FormKept == \A j \in DOMAIN log : wire[j].event = log[j].event /\ wire[j].id = log[j].id

\* HandIsOwn, in its two parts.
MetaIsOwn ==
    \A m \in DOMAIN hand :
        /\ DOMAIN given[m] = DOMAIN hand[m].meta /\ Functional(given[m])
        /\ \A n \in DOMAIN hand[m].meta :
              IF hand[m].meta[n] \in lentDicts THEN given[m][n] \subseteq dicts[hand[m].meta[n]]
              ELSE dicts[hand[m].meta[n]] = given[m][n]

Told ==
    \A m \in DOMAIN hand :
        /\ told[m] = [content |-> told[m].content, meta |-> told[m].meta]
        /\ m \notin touched => ContentValue(parts, dicts, hand[m].content) = told[m].content

SharingInv ==
    /\ HeapOK(parts, dicts, births) /\ Holders /\ LentOnly /\ Own /\ Started
    /\ FormKept /\ SentStays /\ NearIsFar /\ MetaIsOwn /\ Told

LEMMA HandIs ==
    ASSUME SharingInv
    PROVE  HandIsOwn
<1> SUFFICES ASSUME NEW m \in DOMAIN hand
             PROVE  LET mine == MessageValue(parts, dicts, hand[m])
                    IN  /\ DOMAIN mine.meta = DOMAIN given[m]
                        /\ \A n \in DOMAIN mine.meta :
                              IF hand[m].meta[n] \in lentDicts THEN given[m][n] \subseteq mine.meta[n]
                              ELSE mine.meta[n] = given[m][n]
                        /\ m \notin touched => mine.content = told[m].content
  BY DEF HandIsOwn
<1> DEFINE mine == MessageValue(parts, dicts, hand[m])
<1>1. /\ DOMAIN mine.meta = DOMAIN hand[m].meta
      /\ \A n \in DOMAIN mine.meta : mine.meta[n] = dicts[hand[m].meta[n]]
      /\ mine.content = ContentValue(parts, dicts, hand[m].content)
  BY DEF MessageValue
<1> QED  BY <1>1 DEF SharingInv, MetaIsOwn, Told

----------------------------------------------------------------------------
(* Steps on which the heap only grows.                                     *)

Growing == /\ HeapOK(parts', dicts', births') /\ Grows(parts, dicts, parts', dicts')
           /\ HeapOK(parts, dicts, births)

LEMMA GrownHolders ==
    ASSUME Growing, Holders
    PROVE  /\ \A m \in DOMAIN hand :
                /\ IsMessage(parts', dicts', hand[m])
                /\ MessageValue(parts', dicts', hand[m]) = MessageValue(parts, dicts, hand[m])
                /\ ContentValue(parts', dicts', hand[m].content) = ContentValue(parts, dicts, hand[m].content)
                /\ Boxes(parts', hand[m].content) = Boxes(parts, hand[m].content)
                /\ PartRefs(hand[m].content) \subseteq DOMAIN parts
                /\ DictRefs(parts, hand[m]) \subseteq DOMAIN dicts
           /\ \A m \in DOMAIN near :
                /\ IsMessage(parts', dicts', near[m])
                /\ MessageValue(parts', dicts', near[m]) = MessageValue(parts, dicts, near[m])
                /\ ContentValue(parts', dicts', near[m].content) = ContentValue(parts, dicts, near[m].content)
                /\ DictRefs(parts', near[m]) = DictRefs(parts, near[m])
                /\ PartRefs(near[m].content) \subseteq DOMAIN parts
                /\ DictRefs(parts, near[m]) \subseteq DOMAIN dicts
           /\ \A j \in DOMAIN log :
                /\ IsEvent(parts', dicts', log[j])
                /\ Serialized(parts', dicts', log[j]) = Serialized(parts, dicts, log[j])
                /\ EventDicts(parts', log[j]) = EventDicts(parts, log[j])
                /\ EventDicts(parts, log[j]) \subseteq DOMAIN dicts
                /\ EventParts(log[j]) \subseteq DOMAIN parts
<1> DEFINE ps == parts
           ds == dicts
           qs == parts'
           es == dicts'
           b == births
<1>1. HeapOK(ps, ds, b) /\ Grows(ps, ds, qs, es)
  BY DEF Growing
<1>2. /\ \A m \in DOMAIN hand : IsMessage(ps, ds, hand[m])
      /\ \A m \in DOMAIN near : IsMessage(ps, ds, near[m])
      /\ \A j \in DOMAIN log : IsEvent(ps, ds, log[j])
  BY DEF Holders
<1> HIDE DEF ps, ds, qs, es, b
<1>3. ASSUME NEW x, IsMessage(ps, ds, x)
      PROVE  /\ IsMessage(qs, es, x) /\ MessageValue(qs, es, x) = MessageValue(ps, ds, x)
             /\ ContentValue(qs, es, x.content) = ContentValue(ps, ds, x.content)
             /\ Boxes(qs, x.content) = Boxes(ps, x.content)
             /\ DictRefs(qs, x) = DictRefs(ps, x) /\ DictRefs(ps, x) \subseteq DOMAIN ds
             /\ PartRefs(x.content) \subseteq DOMAIN ps
  <2>1. x.content \in Seq(DOMAIN ps)
    BY <1>3 DEF IsMessage
  <2>2. /\ ContentValue(qs, es, x.content) = ContentValue(ps, ds, x.content)
        /\ Boxes(qs, x.content) = Boxes(ps, x.content)
    BY <1>1, <2>1, GrownContent
  <2> QED  BY <1>1, <1>3, <2>2, GrownMessage
<1>4. ASSUME NEW e, IsEvent(ps, ds, e)
      PROVE  /\ IsEvent(qs, es, e) /\ Serialized(qs, es, e) = Serialized(ps, ds, e)
             /\ EventDicts(qs, e) = EventDicts(ps, e) /\ EventDicts(ps, e) \subseteq DOMAIN ds
             /\ EventParts(e) \subseteq DOMAIN ps
  BY <1>1, <1>4, GrownEvent
<1>5. /\ \A m \in DOMAIN hand :
           /\ IsMessage(qs, es, hand[m])
           /\ MessageValue(qs, es, hand[m]) = MessageValue(ps, ds, hand[m])
           /\ ContentValue(qs, es, hand[m].content) = ContentValue(ps, ds, hand[m].content)
           /\ Boxes(qs, hand[m].content) = Boxes(ps, hand[m].content)
           /\ PartRefs(hand[m].content) \subseteq DOMAIN ps /\ DictRefs(ps, hand[m]) \subseteq DOMAIN ds
      /\ \A m \in DOMAIN near :
           /\ IsMessage(qs, es, near[m])
           /\ MessageValue(qs, es, near[m]) = MessageValue(ps, ds, near[m])
           /\ ContentValue(qs, es, near[m].content) = ContentValue(ps, ds, near[m].content)
           /\ DictRefs(qs, near[m]) = DictRefs(ps, near[m])
           /\ PartRefs(near[m].content) \subseteq DOMAIN ps /\ DictRefs(ps, near[m]) \subseteq DOMAIN ds
  BY <1>2, <1>3
<1>6. \A j \in DOMAIN log :
           /\ IsEvent(qs, es, log[j]) /\ Serialized(qs, es, log[j]) = Serialized(ps, ds, log[j])
           /\ EventDicts(qs, log[j]) = EventDicts(ps, log[j]) /\ EventDicts(ps, log[j]) \subseteq DOMAIN ds
           /\ EventParts(log[j]) \subseteq DOMAIN ps
  BY <1>2, <1>4
<1> QED  BY <1>5, <1>6 DEF ps, ds, qs, es

\* An event is emitted: those there are and their history stay.
Emitted(e) ==
    /\ IsEvent(parts', dicts', e)
    /\ log' = Append(log, e) /\ wire' = Append(wire, Serialized(parts', dicts', e))
    /\ told' = After(told, Serialized(parts', dicts', e))
    /\ spoiled' = spoiled

Logged ==
    /\ IsSeq(log') /\ \A j \in DOMAIN log' : IsEvent(parts', dicts', log'[j])
    /\ IsSeq(wire') /\ Len(wire') = Len(log') /\ spoiled' \subseteq DOMAIN log'
    /\ FormKept' /\ SentStays'

LEMMA LogGrows ==
    ASSUME Growing, Holders, FormKept, SentStays, NEW e, Emitted(e)
    PROVE  /\ Logged /\ Len(log) \in Nat /\ DOMAIN log = 1 .. Len(log) /\ Len(log') = Len(log) + 1
           /\ DOMAIN log' = 1 .. Len(log) + 1 /\ log'[Len(log) + 1] = e /\ \A j \in DOMAIN log : log'[j] = log[j]
<1> DEFINE v == Serialized(parts', dicts', e)
           N == Len(log)
<1>1. IsSeq(log) /\ IsSeq(wire) /\ Len(wire) = N /\ spoiled \subseteq DOMAIN log
  BY DEF Holders
<1>2. /\ log' = Append(log, e) /\ wire' = Append(wire, v) /\ spoiled' = spoiled
      /\ IsEvent(parts', dicts', e)
  BY DEF Emitted
<1>3. v.event = e.event /\ v.id = e.id
  <2> DEFINE qs == parts'
             es == dicts'
  <2>1. IsEvent(qs, es, e)
    BY <1>2
  <2> HIDE DEF qs, es
  <2>2. Serialized(qs, es, e).event = e.event /\ Serialized(qs, es, e).id = e.id
    BY <2>1 DEF IsEvent, IsSnapshot, Serialized
  <2> QED  BY <2>2 DEF qs, es
<1>4. \A j \in DOMAIN log : /\ IsEvent(parts', dicts', log[j])
                            /\ Serialized(parts', dicts', log[j]) = Serialized(parts, dicts, log[j])
  BY GrownHolders
<1> HIDE DEF v
<1>5. /\ IsSeq(Append(log, e)) /\ N \in Nat /\ DOMAIN log = 1 .. N
      /\ Len(Append(log, e)) = N + 1 /\ DOMAIN Append(log, e) = 1 .. N + 1
      /\ Append(log, e)[N + 1] = e /\ \A j \in DOMAIN log : Append(log, e)[j] = log[j]
  BY <1>1, AppendAny
<1>6. /\ IsSeq(Append(wire, v)) /\ DOMAIN wire = 1 .. N
      /\ Len(Append(wire, v)) = N + 1
      /\ Append(wire, v)[N + 1] = v /\ \A j \in DOMAIN wire : Append(wire, v)[j] = wire[j]
  BY <1>1, AppendAny
<1>7. \A j \in 1 .. N + 1 : j \in 1 .. N \/ j = N + 1
  BY <1>5
<1>8. /\ IsSeq(log') /\ N \in Nat /\ DOMAIN log = 1 .. N /\ DOMAIN wire = 1 .. N
      /\ Len(log') = N + 1 /\ DOMAIN log' = 1 .. N + 1 /\ log'[N + 1] = e
      /\ \A j \in 1 .. N : log'[j] = log[j] /\ wire'[j] = wire[j]
      /\ IsSeq(wire') /\ Len(wire') = N + 1 /\ wire'[N + 1] = v
  BY <1>2, <1>5, <1>6
<1>9. \A j \in DOMAIN log' : IsEvent(parts', dicts', log'[j])
  BY <1>2, <1>4, <1>7, <1>8
<1>10. FormKept'
  BY <1>3, <1>7, <1>8 DEF FormKept
<1>11. N + 1 \notin spoiled'
  BY <1>1, <1>2, <1>5
<1>12. SentStays'
  <2> SUFFICES ASSUME NEW j \in DOMAIN log'
               PROVE  /\ j \notin spoiled' => Serialized(parts', dicts', log'[j]) = wire'[j]
                      /\ log'[j].event \in {"message_started", "token_delta"} => j \notin spoiled'
    BY DEF SentStays
  <2>1. CASE j = N + 1
    BY <1>8, <1>11, <2>1 DEF v
  <2>2. CASE j \in 1 .. N
    BY <1>2, <1>4, <1>8, <2>2 DEF SentStays
  <2> QED  BY <1>7, <1>8, <2>1, <2>2
<1>13. spoiled' \subseteq DOMAIN log'
  BY <1>1, <1>2, <1>8
<1> QED  BY <1>8, <1>9, <1>10, <1>12, <1>13 DEF Logged

\* No event.
LEMMA LogStays ==
    ASSUME Growing, Holders, FormKept, SentStays, UNCHANGED <<log, wire, spoiled>>
    PROVE  Logged
<1>1. \A j \in DOMAIN log : /\ IsEvent(parts', dicts', log[j])
                            /\ Serialized(parts', dicts', log[j]) = Serialized(parts, dicts, log[j])
  BY GrownHolders
<1>2. FormKept' /\ SentStays'
  BY <1>1 DEF FormKept, SentStays
<1> QED  BY <1>1, <1>2 DEF Logged, Holders

----------------------------------------------------------------------------
\* Who holds what: conditions on a step that together keep the last part of the
\* invariant.

\* What callers come to hold is lent with it, or new.
LendsMore ==
    /\ lentParts \subseteq lentParts' /\ lentDicts \subseteq lentDicts'
    /\ \A p \in DOMAIN parts : p \in theirParts' => p \in theirParts \/ p \in lentParts'
    /\ \A d \in DOMAIN dicts : d \in theirDicts' => d \in theirDicts \/ d \in lentDicts'

LEMMA StillLent ==
    ASSUME LendsMore, NEW P, P \subseteq DOMAIN parts, NEW D, D \subseteq DOMAIN dicts, OnlyLent(P, D)
    PROVE  P \cap theirParts' \subseteq lentParts' /\ D \cap theirDicts' \subseteq lentDicts'
  BY DEF LendsMore, OnlyLent

LEMMA LentStays ==
    ASSUME Growing, Holders, LentOnly, LendsMore,
           \A m \in DOMAIN hand' :
              \/ m \in DOMAIN hand /\ hand'[m].content = hand[m].content
              \/ OnlyLent(PartRefs(hand[m].content), Boxes(parts, hand[m].content))',
           \A m \in DOMAIN near' :
              \/ m \in DOMAIN near /\ near'[m] = near[m]
              \/ OnlyLent(PartRefs(near[m].content), DictRefs(parts, near[m]))',
           \A j \in DOMAIN log' :
              \/ j \in DOMAIN log /\ log'[j] = log[j]
              \/ log'[j].event = "message_finalized"
              \/ OnlyLent(EventParts(log[j]), EventDicts(parts, log[j]))'
    PROVE  LentOnly'
<1>1. ASSUME NEW m \in DOMAIN hand
      PROVE  /\ PartRefs(hand[m].content) \cap theirParts' \subseteq lentParts'
             /\ Boxes(parts', hand[m].content) \cap theirDicts' \subseteq lentDicts'
  <2>1. /\ Boxes(parts', hand[m].content) = Boxes(parts, hand[m].content)
        /\ PartRefs(hand[m].content) \subseteq DOMAIN parts /\ DictRefs(parts, hand[m]) \subseteq DOMAIN dicts
    BY GrownHolders
  <2>2. Boxes(parts, hand[m].content) \subseteq DOMAIN dicts
    BY <2>1 DEF DictRefs
  <2>3. OnlyLent(PartRefs(hand[m].content), Boxes(parts, hand[m].content))
    BY DEF LentOnly
  <2> QED  BY <2>1, <2>2, <2>3, StillLent
<1>2. ASSUME NEW m \in DOMAIN near
      PROVE  /\ PartRefs(near[m].content) \cap theirParts' \subseteq lentParts'
             /\ DictRefs(parts', near[m]) \cap theirDicts' \subseteq lentDicts'
  <2>1. /\ DictRefs(parts', near[m]) = DictRefs(parts, near[m])
        /\ PartRefs(near[m].content) \subseteq DOMAIN parts /\ DictRefs(parts, near[m]) \subseteq DOMAIN dicts
    BY GrownHolders
  <2>2. OnlyLent(PartRefs(near[m].content), DictRefs(parts, near[m]))
    BY DEF LentOnly
  <2> QED  BY <2>1, <2>2, StillLent
<1>3. ASSUME NEW j \in DOMAIN log, log[j].event # "message_finalized"
      PROVE  /\ EventParts(log[j]) \cap theirParts' \subseteq lentParts'
             /\ EventDicts(parts', log[j]) \cap theirDicts' \subseteq lentDicts'
  <2>1. /\ EventDicts(parts', log[j]) = EventDicts(parts, log[j])
        /\ EventParts(log[j]) \subseteq DOMAIN parts /\ EventDicts(parts, log[j]) \subseteq DOMAIN dicts
    BY GrownHolders
  <2>2. OnlyLent(EventParts(log[j]), EventDicts(parts, log[j]))
    BY <1>3 DEF LentOnly
  <2> QED  BY <2>1, <2>2, StillLent
<1>4. ASSUME NEW m \in DOMAIN hand'
      PROVE  OnlyLent(PartRefs(hand[m].content), Boxes(parts, hand[m].content))'
  BY <1>1 DEF OnlyLent
<1>5. ASSUME NEW m \in DOMAIN near'
      PROVE  OnlyLent(PartRefs(near[m].content), DictRefs(parts, near[m]))'
  BY <1>2 DEF OnlyLent
<1>6. ASSUME NEW j \in DOMAIN log', log'[j].event # "message_finalized"
      PROVE  OnlyLent(EventParts(log[j]), EventDicts(parts, log[j]))'
  BY <1>3, <1>6 DEF OnlyLent
<1> QED  BY <1>4, <1>5, <1>6 DEF LentOnly

\* No old dictionary gets into other hands, and what gets into a meta in hand is
\* lent or new.
Quiet ==
    /\ \A d \in DOMAIN dicts : /\ Taken(d)' => Taken(d)
                               /\ Copied(d)' => Copied(d)
    /\ lentDicts \subseteq lentDicts'
    /\ \A m \in DOMAIN hand' : \A n \in DOMAIN hand'[m].meta :
          \/ m \in DOMAIN hand /\ n \in DOMAIN hand[m].meta /\ hand'[m].meta[n] = hand[m].meta[n]
          \/ hand'[m].meta[n] \in lentDicts' \cap theirDicts
          \/ hand'[m].meta[n] \notin DOMAIN dicts /\ Private(m, n)'
    /\ \A j \in DOMAIN log' : log'[j].event = "message_started" =>
          \/ j \in DOMAIN log /\ log'[j] = log[j]
          \/ Apart(log[j])'

LEMMA QuietKeeps ==
    ASSUME Holders, Own, Started, Quiet
    PROVE  Own' /\ Started'
<1>1. Own'
  <2> SUFFICES ASSUME NEW m \in DOMAIN hand', NEW n \in DOMAIN hand'[m].meta,
                      hand'[m].meta[n] \notin lentDicts',
                      m \in DOMAIN hand, n \in DOMAIN hand[m].meta, hand'[m].meta[n] = hand[m].meta[n]
               PROVE  Private(m, n)'
    BY DEF Own, Quiet
  <2> DEFINE d == hand[m].meta[n]
  <2>0. IsMessage(parts, dicts, hand[m]) /\ d \notin lentDicts
    BY DEF Quiet, Holders
  <2>1. d \in DOMAIN dicts /\ Private(m, n)
    BY <2>0 DEF Own, IsMessage
  <2>2. ~Taken(d)' /\ ~Copied(d)'
    BY <2>1 DEF Quiet, Private
  <2>3. ASSUME NEW k \in DOMAIN hand', NEW l \in DOMAIN hand'[k].meta, hand'[k].meta[l] = d
        PROVE  k = m /\ l = n
    <3>1. k \in DOMAIN hand /\ l \in DOMAIN hand[k].meta /\ hand[k].meta[l] = d
      BY <2>1, <2>3 DEF Quiet
    <3> QED  BY <2>1, <3>1 DEF Private, OneSlot
  <2>4. (~Taken(hand[m].meta[n]))' /\ (~Copied(hand[m].meta[n]))'
    BY <2>2
  <2> QED  BY <2>3, <2>4 DEF Private, OneSlot
<1>2. Started'
  <2> SUFFICES ASSUME NEW j \in DOMAIN log', log'[j].event = "message_started",
                      j \in DOMAIN log, log'[j] = log[j]
               PROVE  Apart(log[j])'
    BY DEF Started, Quiet
  <2>1. Apart(log[j]) /\ IsMessage(parts, dicts, log[j].message)
    BY DEF Started, Holders, IsEvent, IsSnapshot
  <2>2. ASSUME NEW d \in MetaRefs(log[j].message)
        PROVE  ~Taken(d)' /\ ~InMeta(hand', d)
    <3>1. d \in DOMAIN dicts /\ ~Taken(d) /\ ~InMeta(hand, d)
      BY <2>1 DEF Apart, IsMessage, MetaRefs
    <3>2. d \notin theirDicts
      BY <3>1 DEF Taken
    <3> QED  BY <3>1, <3>2 DEF Quiet, InMeta, MetaRefs
  <2> QED  BY <2>1, <2>2 DEF Apart
<1> QED  BY <1>1, <1>2

----------------------------------------------------------------------------
\* A message that changes on a step, in hand and near.

MetaFits(m) ==
    /\ DOMAIN given[m] = DOMAIN hand[m].meta /\ Functional(given[m])
    /\ \A n \in DOMAIN hand[m].meta :
          IF hand[m].meta[n] \in lentDicts THEN given[m][n] \subseteq dicts[hand[m].meta[n]]
          ELSE dicts[hand[m].meta[n]] = given[m][n]

ToldFits(m) ==
    /\ told[m] = [content |-> told[m].content, meta |-> told[m].meta]
    /\ m \notin touched => ContentValue(parts, dicts, hand[m].content) = told[m].content

HandStep ==
    /\ Functional(hand') /\ Functional(given')
    /\ DOMAIN given' = DOMAIN hand' /\ DOMAIN told' = DOMAIN hand'
    /\ lentDicts \subseteq lentDicts' /\ lentDicts' \subseteq DOMAIN dicts'
    /\ \A m \in DOMAIN hand' :
          \/ m \in DOMAIN hand /\ hand'[m] = hand[m]
          \/ IsMessage(parts, dicts, hand[m])'
    /\ \A m \in DOMAIN hand' :
          \/ m \in DOMAIN hand /\ hand'[m].meta = hand[m].meta /\ given'[m] = given[m]
          \/ MetaFits(m)'
    /\ \A m \in DOMAIN hand' :
          \/ /\ m \in DOMAIN hand /\ hand'[m].content = hand[m].content /\ told'[m] = told[m]
             /\ m \in touched => m \in touched'
          \/ ToldFits(m)'

LEMMA HandKeeps ==
    ASSUME Growing, Holders, MetaIsOwn, Told, HandStep
    PROVE  (\A m \in DOMAIN hand : IsMessage(parts, dicts, hand[m]))' /\ MetaIsOwn' /\ Told'
<1>1. \A m \in DOMAIN hand :
        /\ IsMessage(parts', dicts', hand[m])
        /\ ContentValue(parts', dicts', hand[m].content) = ContentValue(parts, dicts, hand[m].content)
        /\ IsMessage(parts, dicts, hand[m])
  BY GrownHolders DEF Holders
<1>2. \A m \in DOMAIN hand' : IsMessage(parts', dicts', hand'[m])
  BY <1>1 DEF HandStep
<1>3. ASSUME NEW m \in DOMAIN hand, m \in DOMAIN hand', hand'[m].meta = hand[m].meta, given'[m] = given[m]
      PROVE  MetaFits(m)'
  <2>1. /\ DOMAIN given[m] = DOMAIN hand[m].meta /\ Functional(given[m])
        /\ \A n \in DOMAIN hand[m].meta :
              /\ hand[m].meta[n] \in DOMAIN dicts
              /\ IF hand[m].meta[n] \in lentDicts THEN given[m][n] \subseteq dicts[hand[m].meta[n]]
                 ELSE dicts[hand[m].meta[n]] = given[m][n]
    BY <1>1 DEF MetaIsOwn, IsMessage
  <2>2. \A d \in DOMAIN dicts : dicts'[d] = dicts[d]
    BY DEF Growing, Grows
  <2>3. lentDicts \subseteq lentDicts'
    BY DEF HandStep
  <2>4. Functional(given'[m])
    BY <1>3, <2>1
  <2>5. \A n \in DOMAIN hand'[m].meta :
          IF hand'[m].meta[n] \in lentDicts' THEN given'[m][n] \subseteq dicts'[hand'[m].meta[n]]
          ELSE dicts'[hand'[m].meta[n]] = given'[m][n]
    BY <1>3, <2>1, <2>2, <2>3
  <2> QED  BY <1>3, <2>1, <2>4, <2>5 DEF MetaFits, Functional
<1>4. MetaIsOwn'
  <2>1. \A m \in DOMAIN hand' : MetaFits(m)'
    BY <1>3 DEF HandStep
  <2> QED  BY <2>1 DEF MetaIsOwn, MetaFits
<1>5. ASSUME NEW m \in DOMAIN hand, m \in DOMAIN hand', hand'[m].content = hand[m].content, told'[m] = told[m],
             m \in touched => m \in touched'
      PROVE  ToldFits(m)'
  <2>1. /\ told[m] = [content |-> told[m].content, meta |-> told[m].meta]
        /\ m \notin touched => ContentValue(parts, dicts, hand[m].content) = told[m].content
    BY DEF Told
  <2>2. told'[m] = [content |-> told'[m].content, meta |-> told'[m].meta]
    BY <1>5, <2>1
  <2>3. m \notin touched' => ContentValue(parts', dicts', hand'[m].content) = told'[m].content
    BY <1>1, <1>5, <2>1
  <2> QED  BY <2>2, <2>3 DEF ToldFits
<1>6. Told'
  <2>1. \A m \in DOMAIN hand' : ToldFits(m)'
    BY <1>5 DEF HandStep
  <2> QED  BY <2>1 DEF Told, ToldFits
<1> QED  BY <1>2, <1>4, <1>6

NearStep ==
    /\ Functional(near') /\ DOMAIN far' = DOMAIN near'
    /\ \A m \in DOMAIN near' :
          \/ m \in DOMAIN near /\ near'[m] = near[m]
          \/ IsMessage(parts, dicts, near[m])'
    /\ \A m \in DOMAIN near' :
          \/ /\ m \in DOMAIN near /\ near'[m] = near[m] /\ far'[m] = far[m]
             /\ m \in late => m \in late'
          \/ m \notin late' => MessageValue(parts', dicts', near'[m]) = far'[m]

LEMMA NearKeeps ==
    ASSUME Growing, Holders, NearIsFar, NearStep
    PROVE  (\A m \in DOMAIN near : IsMessage(parts, dicts, near[m]))' /\ NearIsFar'
<1>1. \A m \in DOMAIN near :
        /\ IsMessage(parts', dicts', near[m])
        /\ MessageValue(parts', dicts', near[m]) = MessageValue(parts, dicts, near[m])
  BY GrownHolders
<1>2. \A m \in DOMAIN near' : IsMessage(parts', dicts', near'[m])
  BY <1>1 DEF NearStep
<1>3. \A m \in DOMAIN near' : m \notin late' => MessageValue(parts', dicts', near'[m]) = far'[m]
  BY <1>1 DEF NearStep, NearIsFar
<1> QED  BY <1>2, <1>3 DEF NearIsFar

\* A receiver that does nothing.
LEMMA NearStays ==
    ASSUME Holders, UNCHANGED <<near, far, late>>
    PROVE  NearStep
  BY DEF Holders, NearStep

\* The parts of Holders.
HoldersRest ==
    /\ Functional(hand) /\ Functional(near) /\ cursor \in 0 .. Len(log)
    /\ theirParts \subseteq DOMAIN parts /\ theirDicts \subseteq DOMAIN dicts
    /\ lentDicts \subseteq DOMAIN dicts
    /\ DOMAIN given = DOMAIN hand /\ DOMAIN told = DOMAIN hand /\ DOMAIN far = DOMAIN near
    /\ Functional(given)

\* The whole invariant, after a step on which the heap grows.
LEMMA GrowingKeeps ==
    ASSUME SharingInv, Growing, Logged, HandStep, NearStep, LentOnly', Quiet, HoldersRest'
    PROVE  SharingInv'
<1>1. Holders /\ MetaIsOwn /\ Told /\ NearIsFar /\ Own /\ Started
  BY DEF SharingInv
<1>2. (\A m \in DOMAIN hand : IsMessage(parts, dicts, hand[m]))' /\ MetaIsOwn' /\ Told'
  BY <1>1, HandKeeps
<1>3. (\A m \in DOMAIN near : IsMessage(parts, dicts, near[m]))' /\ NearIsFar'
  BY <1>1, NearKeeps
<1>4. Own' /\ Started'
  BY <1>1, QuietKeeps
<1>5. FormKept' /\ SentStays'
  BY DEF Logged
<1>6. Holders'
  BY <1>2, <1>3 DEF Holders, HoldersRest, Logged
<1>7. HeapOK(parts, dicts, births)'
  BY DEF Growing
<1> QED  BY <1>2, <1>3, <1>4, <1>5, <1>6, <1>7 DEF SharingInv

----------------------------------------------------------------------------
(* Steps of a builder on its content.                                      *)

\* Builder m has content c now, with p in it, and emits e.
ContentStep(m, c, p, e) ==
    /\ m \in DOMAIN hand /\ e.id = m /\ ~IsSnapshot(e) /\ Emitted(e)
    /\ hand' = [hand EXCEPT ![m] = [content |-> c, meta |-> hand[m].meta]]
    /\ c \in Seq(DOMAIN parts')
    /\ ContentValue(parts', dicts', c)
       = ContentAfter(ContentValue(parts, dicts, hand[m].content), Serialized(parts', dicts', e))
    /\ PartRefs(c) \subseteq PartRefs(hand[m].content) \cup {p}
    /\ Boxes(parts', c) \subseteq Boxes(parts, hand[m].content) \cup {parts'[p].box}
    /\ UNCHANGED <<finalized, theirParts, theirDicts, given, receivers, reached>>

\* The new part, its data and the event's are lent, if callers hold them.
ContentLent(p, e) ==
    /\ lentParts \subseteq lentParts' /\ lentDicts \subseteq lentDicts' /\ lentDicts' \subseteq DOMAIN dicts'
    /\ p \in theirParts => p \in lentParts'
    /\ parts'[p].box \in theirDicts => parts'[p].box \in lentDicts'
    /\ EventParts(e) \subseteq {p}
    /\ \A d \in EventDicts(parts', e) : d \in theirDicts => d \in lentDicts'

\* No old dictionary gets into a part or a patch for the first time.
ContentQuiet(p, e) ==
    /\ \A q \in DOMAIN parts' : q \in DOMAIN parts \/ q = p
    /\ parts'[p].box \in DOMAIN dicts => Taken(parts'[p].box)
    /\ e.event = "part_updated" => (e.patch \in DOMAIN dicts => Taken(e.patch))

LEMMA ContentTold ==
    ASSUME Told, NEW v, ~IsSnapshot(v), v.id \in DOMAIN hand, DOMAIN told = DOMAIN hand, told' = After(told, v)
    PROVE  /\ DOMAIN told' = DOMAIN told /\ \A k \in DOMAIN told \ {v.id} : told'[k] = told[k]
           /\ told'[v.id] = [content |-> ContentAfter(told[v.id].content, v), meta |-> told[v.id].meta]
<1>1. told' = [told EXCEPT ![v.id].content = ContentAfter(told[v.id].content, v)]
  BY DEF After
<1>2. told[v.id] = [content |-> told[v.id].content, meta |-> told[v.id].meta]
  BY DEF Told
<1> QED  BY <1>1, <1>2

LEMMA ContentKeeps ==
    ASSUME SharingInv, Growing, NEW m, NEW c, NEW p, NEW e,
           ContentStep(m, c, p, e), ContentLent(p, e), ContentQuiet(p, e)
    PROVE  SharingInv'
<1> DEFINE x == [content |-> c, meta |-> hand[m].meta]
           v == Serialized(parts', dicts', e)
<1>1. Holders /\ MetaIsOwn /\ Told /\ NearIsFar /\ Own /\ Started /\ LentOnly /\ FormKept /\ SentStays
  BY DEF SharingInv
<1>2. m \in DOMAIN hand /\ e.id = m /\ ~IsSnapshot(e) /\ Emitted(e)
  BY DEF ContentStep
<1>3. /\ Logged /\ Len(log) \in Nat /\ DOMAIN log = 1 .. Len(log) /\ Len(log') = Len(log) + 1
      /\ DOMAIN log' = 1 .. Len(log) + 1 /\ log'[Len(log) + 1] = e /\ \A j \in DOMAIN log : log'[j] = log[j]
  BY <1>1, <1>2, LogGrows
<1>4. \A j \in DOMAIN log' : (j \in DOMAIN log /\ log'[j] = log[j]) \/ log'[j] = e
  BY <1>3
<1>5. /\ DOMAIN hand' = DOMAIN hand /\ hand'[m] = x /\ \A k \in DOMAIN hand \ {m} : hand'[k] = hand[k]
      /\ Functional(hand')
  <2>1. hand' = [hand EXCEPT ![m] = x] /\ Functional(hand)
    BY <1>1 DEF ContentStep, Holders
  <2> HIDE DEF x
  <2> QED  BY <1>2, <2>1 DEF Functional
<1>6. IsMessage(parts', dicts', hand[m])
  BY <1>1, <1>2, GrownHolders
<1>7. IsMessage(parts, dicts, hand[m])'
  BY <1>5, <1>6 DEF IsMessage, ContentStep
<1>8. v.id = m /\ ~IsSnapshot(v)
  <2>1. IsEvent(parts', dicts', e)
    BY <1>2 DEF Emitted
  <2> QED  BY <1>2, <2>1 DEF IsEvent, IsSnapshot, Serialized
<1>9. /\ DOMAIN told' = DOMAIN told /\ \A k \in DOMAIN told \ {m} : told'[k] = told[k]
      /\ told'[m] = [content |-> ContentAfter(told[m].content, v), meta |-> told[m].meta]
  <2>1. told' = After(told, v) /\ DOMAIN told = DOMAIN hand
    BY <1>1, <1>2 DEF Emitted, Holders
  <2> HIDE DEF v
  <2> QED  BY <1>1, <1>2, <1>8, <2>1, ContentTold
<1>10. ToldFits(m)'
  <2>1. m \notin touched => ContentValue(parts, dicts, hand[m].content) = told[m].content
    BY <1>1, <1>2 DEF Told
  <2>2. ContentValue(parts', dicts', c) = ContentAfter(ContentValue(parts, dicts, hand[m].content), v)
    BY DEF ContentStep
  <2>3. touched' = touched /\ hand'[m].content = c
    BY <1>5 DEF ContentStep, reached
  <2> HIDE DEF v
  <2>4. m \notin touched' => ContentValue(parts', dicts', hand'[m].content) = told'[m].content
    BY <1>9, <2>1, <2>2, <2>3
  <2>5. told'[m] = [content |-> told'[m].content, meta |-> told'[m].meta]
    BY <1>9
  <2> QED  BY <2>4, <2>5 DEF ToldFits
<1>11. HandStep
  <2>1. /\ given' = given /\ touched' = touched
        /\ lentDicts \subseteq lentDicts' /\ lentDicts' \subseteq DOMAIN dicts'
    BY DEF ContentStep, ContentLent, reached
  <2>2. DOMAIN given = DOMAIN hand /\ DOMAIN told = DOMAIN hand /\ Functional(given)
    BY <1>1 DEF Holders
  <2>3. DOMAIN given' = DOMAIN hand' /\ DOMAIN told' = DOMAIN hand' /\ Functional(given')
    BY <1>5, <1>9, <2>1, <2>2
  <2>4. \A k \in DOMAIN hand' : k = m \/ (k \in DOMAIN hand /\ hand'[k] = hand[k] /\ told'[k] = told[k])
    BY <1>5, <1>9, <2>2
  <2>5. hand'[m].meta = hand[m].meta
    BY <1>5
  <2> QED  BY <1>2, <1>5, <1>7, <1>10, <2>1, <2>3, <2>4, <2>5 DEF HandStep
<1>12. NearStep
  BY <1>1, NearStays DEF ContentStep, receivers, reached
<1>13. LendsMore
  BY DEF LendsMore, ContentStep, ContentLent
<1>14. OnlyLent(PartRefs(hand[m].content), Boxes(parts, hand[m].content))'
  <2>1. OnlyLent(PartRefs(hand[m].content), Boxes(parts, hand[m].content))
    BY <1>1, <1>2 DEF LentOnly
  <2>2. hand'[m].content = c
    BY <1>5
  <2>3. /\ PartRefs(c) \subseteq PartRefs(hand[m].content) \cup {p}
        /\ Boxes(parts', c) \subseteq Boxes(parts, hand[m].content) \cup {parts'[p].box}
        /\ theirParts' = theirParts /\ theirDicts' = theirDicts
    BY DEF ContentStep
  <2>4. /\ PartRefs(c) \cap theirParts' \subseteq lentParts'
        /\ Boxes(parts', c) \cap theirDicts' \subseteq lentDicts'
    BY <2>1, <2>3 DEF OnlyLent, ContentLent
  <2> QED  BY <2>2, <2>4 DEF OnlyLent
<1>15. \A j \in DOMAIN log' : log'[j] = e => OnlyLent(EventParts(log[j]), EventDicts(parts, log[j]))'
  <2>1. theirParts' = theirParts /\ theirDicts' = theirDicts
    BY DEF ContentStep
  <2>2. /\ EventParts(e) \cap theirParts' \subseteq lentParts'
        /\ EventDicts(parts', e) \cap theirDicts' \subseteq lentDicts'
    BY <2>1 DEF ContentLent
  <2> QED  BY <2>2 DEF OnlyLent
<1>16. LentOnly'
  <2>1. \A k \in DOMAIN hand' : k = m \/ (k \in DOMAIN hand /\ hand'[k].content = hand[k].content)
    BY <1>5
  <2>2. near' = near
    BY DEF ContentStep, receivers
  <2> QED  BY <1>1, <1>4, <1>13, <1>14, <1>15, <2>1, <2>2, LentStays
<1>17. Quiet
  <2>1. theirDicts' = theirDicts /\ near' = near /\ lentDicts \subseteq lentDicts'
    BY DEF ContentStep, ContentLent, receivers
  <2>2. ASSUME NEW d \in DOMAIN dicts, Taken(d)'
        PROVE  Taken(d)
    <3>1. CASE d \in theirDicts
      BY <3>1 DEF Taken
    <3>2. CASE InBox(parts', d)
      <4>1. PICK q \in DOMAIN parts' : parts'[q].box = d
        BY <3>2 DEF InBox
      <4>2. CASE q \in DOMAIN parts
        <5>1. parts[q].box = d
          BY <4>1, <4>2 DEF Growing, Grows
        <5> QED  BY <4>2, <5>1 DEF Taken, InBox
      <4> QED  BY <4>1, <4>2 DEF ContentQuiet
    <3>3. CASE InPatch(log', d)
      <4>1. PICK j \in DOMAIN log' : log'[j].event = "part_updated" /\ log'[j].patch = d
        BY <3>3 DEF InPatch
      <4>2. CASE log'[j] = e
        BY <4>1, <4>2 DEF ContentQuiet
      <4>3. CASE j \in DOMAIN log /\ log'[j] = log[j]
        BY <4>1, <4>3 DEF Taken, InPatch
      <4> QED  BY <1>4, <4>2, <4>3
    <3> QED  BY <2>1, <2>2, <3>1, <3>2, <3>3 DEF Taken
  <2>3. ASSUME NEW d \in DOMAIN dicts, Copied(d)'
        PROVE  Copied(d)
    <3>1. CASE InCopy(log', d)
      <4>1. PICK j \in DOMAIN log' : IsSnapshot(log'[j]) /\ d \in MetaRefs(log'[j].message)
        BY <3>1 DEF InCopy
      <4>2. j \in DOMAIN log /\ log'[j] = log[j]
        BY <1>2, <1>4, <4>1
      <4> QED  BY <4>1, <4>2 DEF Copied, InCopy
    <3>2. CASE InMeta(near', d)
      BY <2>1, <3>2 DEF Copied
    <3> QED  BY <2>3, <3>1, <3>2 DEF Copied
  <2>4. \A k \in DOMAIN hand' : k \in DOMAIN hand /\ hand'[k].meta = hand[k].meta
    BY <1>5
  <2>5. \A j \in DOMAIN log' : log'[j].event = "message_started" => j \in DOMAIN log /\ log'[j] = log[j]
    BY <1>2, <1>4 DEF IsSnapshot
  <2> QED  BY <2>1, <2>2, <2>3, <2>4, <2>5 DEF Quiet
<1>18. HoldersRest'
  <2>1. cursor' \in 0 .. Len(log')
    BY <1>1, <1>3 DEF Holders, ContentStep, receivers
  <2>2. theirParts' \subseteq DOMAIN parts' /\ theirDicts' \subseteq DOMAIN dicts'
    BY <1>1 DEF Holders, ContentStep, Growing, Grows
  <2>3. near' = near /\ far' = far /\ given' = given
    BY DEF ContentStep, receivers
  <2> QED  BY <1>1, <1>5, <1>9, <2>1, <2>2, <2>3 DEF HoldersRest, Holders, ContentLent
<1> QED  BY <1>3, <1>11, <1>12, <1>16, <1>17, <1>18, GrowingKeeps

LEMMA AppendedKeeps ==
    ASSUME SharingInv, Growing, NEW m \in DOMAIN hand, NEW p \in DOMAIN parts', Appended(m, p),
           lentParts \subseteq lentParts', lentDicts \subseteq lentDicts', lentDicts' \subseteq DOMAIN dicts',
           p \in theirParts => p \in lentParts',
           parts'[p].box \in theirDicts => parts'[p].box \in lentDicts',
           \A q \in DOMAIN parts' : q \in DOMAIN parts \/ q = p,
           parts'[p].box \in DOMAIN dicts => Taken(parts'[p].box)
    PROVE  SharingInv'
<1> DEFINE e == [event |-> "part_appended", id |-> m, part |-> p]
           v == Serialized(parts', dicts', e)
<1>1. PICK old : old = hand[m].content
  OBVIOUS
<1>2. PICK c : c = Append(old, p)
  OBVIOUS
<1>3. IsMessage(parts, dicts, hand[m])
  BY DEF SharingInv, Holders
<1>4. old \in Seq(DOMAIN parts)
  BY <1>1, <1>3 DEF IsMessage
<1>5. v.event = "part_appended" /\ v.part = PartValue(parts', dicts', p)
  BY DEF Serialized, IsSnapshot
<1>6. /\ c \in Seq(DOMAIN parts')
      /\ ContentValue(parts', dicts', c) = ContentAfter(ContentValue(parts, dicts, old), v)
      /\ PartRefs(c) \subseteq PartRefs(old) \cup {p}
      /\ Boxes(parts', c) \subseteq Boxes(parts, old) \cup {parts'[p].box}
  <2> DEFINE ps == parts
             ds == dicts
             qs == parts'
             es == dicts'
             b == births
  <2>1. HeapOK(ps, ds, b) /\ Grows(ps, ds, qs, es) /\ old \in Seq(DOMAIN ps) /\ p \in DOMAIN qs
    BY <1>4 DEF Growing
  <2>2. v.part = PartValue(qs, es, p)
    BY <1>5
  <2> HIDE DEF v, ps, ds, qs, es, b
  <2>3. LET d == Append(old, p)
        IN  /\ d \in Seq(DOMAIN qs)
            /\ ContentValue(qs, es, d) = ContentAfter(ContentValue(ps, ds, old), v)
            /\ PartRefs(d) \subseteq PartRefs(old) \cup {p}
            /\ Boxes(qs, d) \subseteq Boxes(ps, old) \cup {qs[p].box}
    BY <1>5, <2>1, <2>2, AppendValue
  <2> QED  BY <1>2, <2>3 DEF ps, ds, qs, es
<1>7. hand' = [hand EXCEPT ![m] = [content |-> c, meta |-> hand[m].meta]]
  <2>1. hand[m] = [content |-> hand[m].content, meta |-> hand[m].meta]
    BY <1>3 DEF IsMessage
  <2>2. hand' = [hand EXCEPT ![m].content = c]
    BY <1>1, <1>2 DEF Appended
  <2>3. PICK f, d : f = hand /\ d = hand[m].meta
    OBVIOUS
  <2>4. f[m] = [content |-> old, meta |-> d]
    BY <1>1, <2>1, <2>3
  <2>5. [f[m] EXCEPT !.content = c] = [content |-> c, meta |-> d]
    BY <2>4
  <2>6. [f EXCEPT ![m].content = c] = [f EXCEPT ![m] = [content |-> c, meta |-> d]]
    BY <2>5
  <2> QED  BY <2>2, <2>3, <2>6
<1>8. Emitted(e) /\ ~IsSnapshot(e) /\ e.id = m
  <2>1. IsEvent(parts', dicts', e)
    BY DEF IsEvent
  <2>2. spoiled' = spoiled
    BY DEF Appended, reached
  <2> QED  BY <2>1, <2>2 DEF Emitted, Appended, Emit, IsSnapshot
<1>9. EventParts(e) = {p} /\ EventDicts(parts', e) = {parts'[p].box}
  BY DEF EventParts, EventDicts, IsSnapshot
<1>10. UNCHANGED <<finalized, theirParts, theirDicts, given, receivers, reached>>
  BY DEF Appended
<1>11. ContentStep(m, c, p, e)
  BY <1>1, <1>6, <1>7, <1>8, <1>10 DEF ContentStep
<1>12. ContentLent(p, e)
  BY <1>9 DEF ContentLent
<1>13. ContentQuiet(p, e)
  BY DEF ContentQuiet
<1> HIDE DEF e
<1> QED  BY <1>11, <1>12, <1>13, ContentKeeps

LEMMA ReplacedKeeps ==
    ASSUME SharingInv, Growing, NEW m \in DOMAIN hand, NEW i \in DOMAIN hand[m].content,
           NEW r \in DOMAIN parts', NEW e,
           hand' = [hand EXCEPT ![m].content[i] = r],
           e.id = m, ~IsSnapshot(e), Emitted(e), ContentLent(r, e), ContentQuiet(r, e),
           ContentValue(parts', dicts', Replaced(hand[m].content, i, r))
           = ContentAfter(ContentValue(parts, dicts, hand[m].content), Serialized(parts', dicts', e)),
           UNCHANGED <<finalized, theirParts, theirDicts, given, receivers, reached>>
    PROVE  SharingInv'
<1>1. PICK old : old = hand[m].content
  OBVIOUS
<1>2. PICK c : c = Replaced(old, i, r)
  OBVIOUS
<1>3. IsMessage(parts, dicts, hand[m])
  BY DEF SharingInv, Holders
<1>4. old \in Seq(DOMAIN parts)
  BY <1>1, <1>3 DEF IsMessage
<1>5. /\ c \in Seq(DOMAIN parts')
      /\ PartRefs(c) \subseteq PartRefs(old) \cup {r}
      /\ Boxes(parts', c) \subseteq Boxes(parts, old) \cup {parts'[r].box}
  <2> DEFINE ps == parts
             ds == dicts
             qs == parts'
             es == dicts'
             b == births
  <2>1. HeapOK(ps, ds, b) /\ Grows(ps, ds, qs, es) /\ old \in Seq(DOMAIN ps) /\ i \in DOMAIN old /\ r \in DOMAIN qs
    BY <1>1, <1>4 DEF Growing
  <2> HIDE DEF ps, ds, qs, es, b
  <2>2. /\ Replaced(old, i, r) \in Seq(DOMAIN qs)
        /\ PartRefs(Replaced(old, i, r)) \subseteq PartRefs(old) \cup {r}
        /\ Boxes(qs, Replaced(old, i, r)) \subseteq Boxes(ps, old) \cup {qs[r].box}
    BY <2>1, ReplaceRefs
  <2> QED  BY <1>2, <2>2 DEF ps, ds, qs, es
<1>6. hand' = [hand EXCEPT ![m] = [content |-> c, meta |-> hand[m].meta]]
  <2>1. hand[m] = [content |-> hand[m].content, meta |-> hand[m].meta]
    BY <1>3 DEF IsMessage
  <2>3. PICK f, d : f = hand /\ d = hand[m].meta
    OBVIOUS
  <2>4. f[m] = [content |-> old, meta |-> d]
    BY <1>1, <2>1, <2>3
  <2>5. [f[m] EXCEPT !.content[i] = r] = [content |-> Replaced(old, i, r), meta |-> d]
    BY <2>4 DEF Replaced
  <2>6. [f EXCEPT ![m].content[i] = r] = [f EXCEPT ![m] = [content |-> Replaced(old, i, r), meta |-> d]]
    BY <2>5
  <2> QED  BY <1>2, <2>3, <2>6
<1>7. ContentStep(m, c, r, e)
  BY <1>1, <1>2, <1>5, <1>6 DEF ContentStep
<1> QED  BY <1>7, ContentKeeps

----------------------------------------------------------------------------
\* The new heap of a patch.
LEMMA PatchedHeap ==
    ASSUME NEW ps, NEW ds, NEW b, HeapOK(ps, ds, b), NEW r, r[1] = b,
           r \notin DOMAIN ps, r \notin DOMAIN ds, r # Unset,
           NEW part \in [text : Nat, field : Field, box : DOMAIN ds], NEW patch \in DOMAIN ds \cup {Unset}
    PROVE  LET box == PatchedBox(part, patch, r)
               qs  == Put(ps, r, PatchedPart(part, patch, r))
               es  == PatchedDicts(ds, part, patch, r)
           IN  /\ HeapOK(qs, es, b) /\ Grows(ps, ds, qs, es)
               /\ DOMAIN qs = DOMAIN ps \cup {r} /\ qs[r] = [part EXCEPT !.box = box]
               /\ box = r \/ (box = patch /\ patch \in DOMAIN ds /\ part.field = "any")
               /\ es[box] = IF patch = Unset THEN ds[part.box] ELSE es[patch]
<1>0. ASSUME NEW k
      PROVE  /\ HeapOK(ps, Put(ds, r, k), b) /\ Grows(ps, ds, ps, Put(ds, r, k))
             /\ Put(ds, r, k)[r] = k /\ DOMAIN Put(ds, r, k) = DOMAIN ds \cup {r}
  BY NewDict
<1> DEFINE box == PatchedBox(part, patch, r)
           new == PatchedPart(part, patch, r)
           qs  == Put(ps, r, new)
           es  == PatchedDicts(ds, part, patch, r)
           keys == IF patch = Unset THEN ds[part.box] ELSE ds[patch]
<1>1. box = r \/ (box = patch /\ patch \in DOMAIN ds /\ part.field = "any")
  BY DEF PatchedBox
<1>2. /\ HeapOK(ps, es, b) /\ Grows(ps, ds, ps, es) /\ box \in DOMAIN es
      /\ es[box] = IF patch = Unset THEN ds[part.box] ELSE es[patch]
  <2>1. CASE box = r
    <3>1. es = Put(ds, r, keys)
      BY <2>1 DEF PatchedDicts
    <3> HIDE DEF keys, es, box, new, qs
    <3>2. HeapOK(ps, Put(ds, r, keys), b) /\ Grows(ps, ds, ps, Put(ds, r, keys))
          /\ Put(ds, r, keys)[r] = keys /\ DOMAIN Put(ds, r, keys) = DOMAIN ds \cup {r}
      BY <1>0
    <3>3. patch # Unset => es[patch] = ds[patch]
      BY <3>1, <3>2 DEF Grows
    <3> QED  BY <2>1, <3>1, <3>2, <3>3 DEF keys
  <2>2. CASE box # r
    <3>1. es = ds /\ box = patch /\ patch # Unset /\ patch \in DOMAIN ds
      BY <2>2 DEF PatchedDicts, PatchedBox
    <3> HIDE DEF es, box
    <3> QED  BY <3>1, SameGrows
  <2> QED  BY <2>1, <2>2
<1>3. new = [part EXCEPT !.box = box]
  BY DEF PatchedPart
<1> HIDE DEF box, es
<1>4. new \in [text : Nat, field : Field, box : DOMAIN es]
  BY <1>2, <1>3
<1> HIDE DEF new
<1>5. /\ HeapOK(Put(ps, r, new), es, b) /\ Grows(ps, es, Put(ps, r, new), es)
      /\ Put(ps, r, new)[r] = new
      /\ DOMAIN Put(ps, r, new) = DOMAIN ps \cup {r}
  BY <1>2, <1>4, NewPart
<1>6. Grows(ps, ds, qs, es)
  BY <1>2, <1>5, GrowsOn
<1> QED  BY <1>1, <1>2, <1>3, <1>5, <1>6 DEF box, new, es

----------------------------------------------------------------------------
(* The five operations on a content.                                       *)

LEMMA NewOnes ==
    ASSUME SharingInv
    PROVE  \A r : NewRef(r, births) =>
              /\ r \notin DOMAIN parts /\ r \notin DOMAIN dicts /\ r # Unset
              /\ r \notin theirParts /\ r \notin theirDicts /\ r \notin lentDicts
<1>1. \A r : NewRef(r, births) => r \notin DOMAIN parts /\ r \notin DOMAIN dicts /\ r # Unset
  <2> DEFINE ps == parts
             ds == dicts
             b == births
  <2>1. HeapOK(ps, ds, b)
    BY DEF SharingInv
  <2> HIDE DEF ps, ds, b
  <2>2. \A r : NewRef(r, b) => r \notin DOMAIN ps /\ r \notin DOMAIN ds /\ r # Unset
    BY <2>1, NewRefs
  <2> QED  BY <2>2 DEF ps, ds, b
<1> QED  BY <1>1 DEF SharingInv, Holders

LEMMA AppendPartKeeps ==
    ASSUME SharingInv, NEW m \in DOMAIN hand, NEW p \in theirParts, AppendPart(m, p)
    PROVE  SharingInv'
<1>1. HeapOK(parts, dicts, births) /\ Holders
  BY DEF SharingInv
<1>2. parts' = parts /\ dicts' = dicts /\ births' = births
  BY DEF AppendPart, heap
<1>3. Growing
  BY <1>1, <1>2 DEF Growing, Grows
<1>4. p \in DOMAIN parts /\ parts[p].box \in DOMAIN dicts
  BY <1>1 DEF HeapOK, Holders
<1>5. /\ lentParts' = lentParts \cup {p} /\ lentDicts' = lentDicts \cup {parts[p].box}
      /\ Appended(m, p)
  BY DEF AppendPart, Lend
<1>6. lentDicts' \subseteq DOMAIN dicts'
  BY <1>1, <1>2, <1>4, <1>5 DEF Holders
<1>7. Taken(parts[p].box)
  BY <1>4 DEF Taken, InBox
<1> QED  BY <1>2, <1>3, <1>4, <1>5, <1>6, <1>7, AppendedKeeps

LEMMA AddPartKeeps ==
    ASSUME SharingInv, NEW m \in DOMAIN hand, NEW field \in Field, NEW d \in theirDicts, AddPart(m, field, d)
    PROVE  SharingInv'
<1>1. HeapOK(parts, dicts, births) /\ Holders
  BY DEF SharingInv
<1>2. PICK r, b : r = One(b) /\ b = births + 1 /\ NewRef(r, births)
  <2>1. NewRef(One(births + 1), births)
    BY DEF NewRef, One
  <2> QED  BY <2>1
<1>3. /\ r \notin DOMAIN parts /\ r \notin DOMAIN dicts /\ r # Unset
      /\ r \notin theirParts /\ r \notin theirDicts
  BY <1>2, NewOnes
<1> DEFINE box == IF field = "any" THEN d ELSE r
           part == [text |-> 0, field |-> field, box |-> box]
<1>4. /\ births' = b /\ parts' = Put(parts, r, part) /\ Appended(m, r)
      /\ dicts' = (IF field = "any" THEN dicts ELSE Put(dicts, r, dicts[d]))
      /\ lentParts' = lentParts /\ lentDicts' = lentDicts \cup (IF field = "any" THEN {d} ELSE {})
  BY <1>2 DEF AddPart, Born, Lend
<1>5. d \in DOMAIN dicts
  BY <1>1 DEF Holders
<1>6. /\ HeapOK(parts', dicts', births') /\ Grows(parts, dicts, parts', dicts')
      /\ parts'[r] = part /\ DOMAIN parts' = DOMAIN parts \cup {r}
  <2> DEFINE ps == parts
             ds == dicts
             k == dicts[d]
             es == IF field = "any" THEN ds ELSE Put(ds, r, k)
  <2>1. HeapOK(ps, ds, b) /\ r[1] = b /\ r \notin DOMAIN ps /\ r \notin DOMAIN ds /\ d \in DOMAIN ds
    <3>1. HeapOK(ps, ds, births + 1)
      <4> DEFINE c == births
      <4>1. HeapOK(ps, ds, c)
        BY <1>1
      <4> HIDE DEF ps, ds, c
      <4>2. HeapOK(ps, ds, c + 1)
        BY <4>1, LaterHeap
      <4> QED  BY <4>2 DEF c
    <3> QED  BY <1>2, <1>3, <1>5, <3>1 DEF NewRef
  <2>2. parts' = Put(ps, r, part) /\ dicts' = es /\ births' = b
    BY <1>4
  <2> HIDE DEF ps, ds, k, box
  <2>3. HeapOK(ps, es, b) /\ Grows(ps, ds, ps, es) /\ box \in DOMAIN es
    <3>1. CASE field = "any"
      BY <2>1, <3>1, SameGrows DEF box
    <3>2. CASE field # "any"
      <4>1. /\ HeapOK(ps, Put(ds, r, k), b) /\ Grows(ps, ds, ps, Put(ds, r, k))
            /\ DOMAIN Put(ds, r, k) = DOMAIN ds \cup {r}
        BY <1>3, <2>1, NewDict
      <4> QED  BY <3>2, <4>1 DEF box
    <3> QED  BY <3>1, <3>2
  <2> HIDE DEF es
  <2>4. part \in [text : Nat, field : Field, box : DOMAIN es]
    BY <2>3
  <2> HIDE DEF part
  <2>5. /\ HeapOK(Put(ps, r, part), es, b) /\ Grows(ps, es, Put(ps, r, part), es)
        /\ Put(ps, r, part)[r] = part /\ DOMAIN Put(ps, r, part) = DOMAIN ps \cup {r}
    BY <2>1, <2>3, <2>4, NewPart
  <2>6. Grows(ps, ds, Put(ps, r, part), es)
    BY <2>3, <2>5, GrowsOn
  <2> QED  BY <2>2, <2>5, <2>6 DEF ps, ds
<1>7. Growing
  BY <1>1, <1>6 DEF Growing
<1>8. parts'[r].box = box /\ r \in DOMAIN parts'
  BY <1>6
<1>9. lentDicts' \subseteq DOMAIN dicts'
  BY <1>1, <1>4, <1>5, <1>6 DEF Holders, Grows
<1>10. /\ box \in theirDicts => box \in lentDicts'
       /\ box \in DOMAIN dicts => Taken(box)
  BY <1>3, <1>4 DEF Taken
<1> HIDE DEF box, part
<1> QED  BY <1>3, <1>4, <1>6, <1>7, <1>8, <1>9, <1>10, AppendedKeeps

LEMMA AppendTokenKeeps ==
    ASSUME SharingInv, NEW m \in DOMAIN hand, NEW i \in DOMAIN hand[m].content, AppendToken(m, i)
    PROVE  SharingInv'
<1>1. HeapOK(parts, dicts, births) /\ Holders
  BY DEF SharingInv
<1>2. PICK r, b : r = One(b) /\ b = births + 1 /\ NewRef(r, births)
  <2>1. NewRef(One(births + 1), births)
    BY DEF NewRef, One
  <2> QED  BY <2>1
<1>3. /\ r \notin DOMAIN parts /\ r \notin DOMAIN dicts /\ r # Unset
      /\ r \notin theirParts /\ r \notin theirDicts
  BY <1>2, NewOnes
<1>4. PICK c, p : c = hand[m].content /\ p = c[i]
  OBVIOUS
<1>5. c \in Seq(DOMAIN parts) /\ i \in DOMAIN c
  BY <1>1, <1>4 DEF Holders, IsMessage
<1>6. p \in DOMAIN parts
  BY <1>4, <1>5, ElementTyped
<1> DEFINE part == [parts[p] EXCEPT !.text = @ + 1]
           e == [event |-> "token_delta", id |-> m, index |-> i]
           v == Serialized(parts', dicts', e)
<1>7. /\ births' = b /\ parts' = Put(parts, r, part) /\ dicts' = dicts
      /\ hand' = [hand EXCEPT ![m].content[i] = r]
      /\ Emit(e)
      /\ lentParts' = lentParts /\ lentDicts' = lentDicts
      /\ UNCHANGED <<finalized, theirParts, theirDicts, given, receivers, reached>>
  BY <1>2, <1>4 DEF AppendToken, Born, callers
<1>8. /\ parts[p] \in [text : Nat, field : Field, box : DOMAIN dicts]
      /\ part \in [text : Nat, field : Field, box : DOMAIN dicts] /\ part.box = parts[p].box
  <2>1. parts[p] \in [text : Nat, field : Field, box : DOMAIN dicts]
    BY <1>1, <1>6 DEF HeapOK
  <2> QED  BY <2>1
<1>9. /\ HeapOK(parts', dicts', births') /\ Grows(parts, dicts, parts', dicts')
      /\ parts'[r] = part /\ DOMAIN parts' = DOMAIN parts \cup {r}
  <2> DEFINE ps == parts
             ds == dicts
  <2>1. HeapOK(ps, ds, b) /\ r[1] = b /\ r \notin DOMAIN ps
    <3>1. HeapOK(ps, ds, births + 1)
      <4> DEFINE k == births
      <4>1. HeapOK(ps, ds, k)
        BY <1>1
      <4> HIDE DEF ps, ds, k
      <4>2. HeapOK(ps, ds, k + 1)
        BY <4>1, LaterHeap
      <4> QED  BY <4>2 DEF k
    <3> QED  BY <1>2, <1>3, <3>1 DEF NewRef
  <2>2. parts' = Put(ps, r, part) /\ dicts' = ds /\ births' = b
    BY <1>7
  <2>3. part \in [text : Nat, field : Field, box : DOMAIN ds]
    BY <1>8
  <2> HIDE DEF ps, ds, part
  <2>4. /\ HeapOK(Put(ps, r, part), ds, b) /\ Grows(ps, ds, Put(ps, r, part), ds)
        /\ Put(ps, r, part)[r] = part /\ DOMAIN Put(ps, r, part) = DOMAIN ps \cup {r}
    BY <2>1, <2>3, NewPart
  <2> QED  BY <2>2, <2>4 DEF ps, ds
<1>10. Growing
  BY <1>1, <1>9 DEF Growing
<1>11. ContentValue(parts', dicts', Replaced(c, i, r)) = ContentAfter(ContentValue(parts, dicts, c), v)
  <2>1. v.event = "token_delta" /\ v.index = i
    BY DEF Serialized, IsSnapshot
  <2> DEFINE ps == parts
             ds == dicts
             qs == parts'
             es == dicts'
             k == births
  <2>2. /\ HeapOK(ps, ds, k) /\ Grows(ps, ds, qs, es) /\ c \in Seq(DOMAIN ps) /\ r \in DOMAIN qs
        /\ qs[r] = [ps[c[i]] EXCEPT !.text = @ + 1]
    BY <1>1, <1>4, <1>5, <1>9
  <2> HIDE DEF v, ps, ds, qs, es, k
  <2>3. ContentValue(qs, es, Replaced(c, i, r)) = ContentAfter(ContentValue(ps, ds, c), v)
    BY <1>5, <2>1, <2>2, TokenValue
  <2> QED  BY <2>3 DEF ps, ds, qs, es
<1>12. Emitted(e) /\ ~IsSnapshot(e) /\ e.id = m
  <2>1. IsEvent(parts', dicts', e)
    BY DEF IsEvent
  <2>2. spoiled' = spoiled
    BY <1>7 DEF reached
  <2> QED  BY <1>7, <2>1, <2>2 DEF Emitted, Emit, IsSnapshot
<1>13. ContentLent(r, e)
  <2>1. parts'[r].box = parts[p].box
    BY <1>8, <1>9
  <2>2. EventParts(e) = {} /\ EventDicts(parts', e) = {}
    BY DEF EventParts, EventDicts, IsSnapshot
  <2>3. parts[p].box \in theirDicts => parts[p].box \in lentDicts
    <3>1. OnlyLent(PartRefs(hand[m].content), Boxes(parts, hand[m].content))
      BY DEF SharingInv, LentOnly
    <3>2. parts[p].box \in Boxes(parts, hand[m].content)
      BY <1>4, <1>5 DEF Boxes, PartRefs
    <3> QED  BY <3>1, <3>2 DEF OnlyLent
  <2> QED  BY <1>1, <1>3, <1>7, <2>1, <2>2, <2>3 DEF ContentLent, Holders
<1>14. ContentQuiet(r, e)
  <2>1. Taken(parts'[r].box)
    BY <1>6, <1>8, <1>9 DEF Taken, InBox
  <2> QED  BY <1>9, <2>1 DEF ContentQuiet
<1>15. r \in DOMAIN parts'
  BY <1>9
<1>16. ContentValue(parts', dicts', Replaced(hand[m].content, i, r))
       = ContentAfter(ContentValue(parts, dicts, hand[m].content), v)
  BY <1>4, <1>11
<1> HIDE DEF e
<1> QED  BY <1>7, <1>10, <1>12, <1>13, <1>14, <1>15, <1>16, ReplacedKeeps DEF v

LEMMA PatchedKeeps ==
    ASSUME SharingInv, NEW m \in DOMAIN hand, NEW i \in DOMAIN hand[m].content, NEW patch, NEW ds,
           Patched(m, i, patch, ds),
           HeapOK(parts, ds, births + 1), Grows(parts, dicts, parts, ds),
           One(births + 1) \notin DOMAIN ds, patch \in DOMAIN ds \cup {Unset},
           lentParts \subseteq lentParts', lentDicts \subseteq lentDicts', lentDicts' \subseteq DOMAIN ds,
           patch \in theirDicts => patch \in lentDicts',
           patch \in DOMAIN dicts => Taken(patch)
    PROVE  SharingInv'
<1>1. HeapOK(parts, dicts, births) /\ Holders
  BY DEF SharingInv
<1>2. PICK r, b : r = One(b) /\ b = births + 1 /\ NewRef(r, births)
  <2>1. NewRef(One(births + 1), births)
    BY DEF NewRef, One
  <2> QED  BY <2>1
<1>3. /\ r \notin DOMAIN parts /\ r \notin DOMAIN dicts /\ r # Unset
      /\ r \notin theirParts /\ r \notin theirDicts
  BY <1>2, NewOnes
<1>4. PICK c, p, part : c = hand[m].content /\ p = c[i] /\ part = parts[p]
  OBVIOUS
<1>5. c \in Seq(DOMAIN parts) /\ i \in DOMAIN c
  BY <1>1, <1>4 DEF Holders, IsMessage
<1>6. p \in DOMAIN parts
  BY <1>4, <1>5, ElementTyped
<1> DEFINE box == PatchedBox(part, patch, r)
           e == [event |-> "part_updated", id |-> m, index |-> i, patch |-> patch]
           v == Serialized(parts', dicts', e)
<1>7. /\ births' = b /\ parts' = Put(parts, r, PatchedPart(part, patch, r))
      /\ dicts' = PatchedDicts(ds, part, patch, r)
      /\ hand' = [hand EXCEPT ![m].content[i] = r]
      /\ Emit(e)
      /\ UNCHANGED <<finalized, theirParts, theirDicts, given, receivers, reached>>
  BY <1>2, <1>4 DEF Patched, Born
<1>8. part \in [text : Nat, field : Field, box : DOMAIN dicts]
  BY <1>1, <1>4, <1>6 DEF HeapOK
<1>9. /\ HeapOK(parts', dicts', births') /\ Grows(parts, ds, parts', dicts')
      /\ DOMAIN parts' = DOMAIN parts \cup {r} /\ parts'[r] = [part EXCEPT !.box = box]
      /\ box = r \/ (box = patch /\ patch \in DOMAIN ds)
      /\ dicts'[box] = IF patch = Unset THEN ds[part.box] ELSE dicts'[patch]
  <2> DEFINE ps == parts
             qs == Put(ps, r, PatchedPart(part, patch, r))
             es == PatchedDicts(ds, part, patch, r)
  <2>1. /\ HeapOK(ps, ds, b) /\ r[1] = b /\ r \notin DOMAIN ps /\ r \notin DOMAIN ds /\ r # Unset
        /\ patch \in DOMAIN ds \cup {Unset}
    BY <1>2, <1>3 DEF NewRef
  <2>2. part \in [text : Nat, field : Field, box : DOMAIN ds]
    <3>1. DOMAIN dicts \subseteq DOMAIN ds
      BY DEF Grows
    <3> QED  BY <1>8, <3>1
  <2>3. parts' = qs /\ dicts' = es /\ births' = b
    BY <1>7
  <2> HIDE DEF ps
  <2>4. /\ HeapOK(qs, es, b) /\ Grows(ps, ds, qs, es)
        /\ DOMAIN qs = DOMAIN ps \cup {r} /\ qs[r] = [part EXCEPT !.box = box]
        /\ box = r \/ (box = patch /\ patch \in DOMAIN ds /\ part.field = "any")
        /\ es[box] = IF patch = Unset THEN ds[part.box] ELSE es[patch]
    BY <2>1, <2>2, PatchedHeap
  <2> HIDE DEF box, qs, es
  <2> QED  BY <2>3, <2>4 DEF ps
<1>10. Growing
  <2>1. Grows(parts, dicts, parts', dicts')
    <3> DEFINE ps == parts
               fs == dicts
               qs == parts'
               es == dicts'
    <3>1. Grows(ps, fs, ps, ds) /\ Grows(ps, ds, qs, es)
      BY <1>9
    <3> HIDE DEF ps, fs, qs, es
    <3>2. Grows(ps, fs, qs, es)
      BY <3>1, GrowsOn
    <3> QED  BY <3>2 DEF ps, fs, qs, es
  <2> QED  BY <1>1, <1>9, <2>1 DEF Growing
<1>11. parts'[r].box = box
  BY <1>8, <1>9
<1>12. ContentValue(parts', dicts', Replaced(c, i, r)) = ContentAfter(ContentValue(parts, dicts, c), v)
  <2>1. /\ v.event = "part_updated" /\ v.index = i
        /\ v.patch = IF patch = Unset THEN {} ELSE {dicts'[patch]}
    BY DEF Serialized, IsSnapshot
  <2>2. ds[part.box] = dicts[part.box]
    BY <1>8 DEF Grows
  <2> DEFINE ps == parts
             fs == dicts
             qs == parts'
             es == dicts'
             k == births
  <2>3. /\ HeapOK(ps, fs, k) /\ Grows(ps, fs, qs, es) /\ c \in Seq(DOMAIN ps) /\ r \in DOMAIN qs
        /\ qs[r] = [ps[c[i]] EXCEPT !.box = box]
        /\ \/ v.patch = {es[box]}
           \/ v.patch = {} /\ es[box] = fs[ps[c[i]].box]
    BY <1>1, <1>4, <1>5, <1>9, <1>10, <2>1, <2>2 DEF Growing
  <2>4. v.event = "part_updated" /\ v.index = i /\ i \in DOMAIN c
    BY <1>5, <2>1
  <2> HIDE DEF v, ps, fs, qs, es, k, box, e
  <2>5. ASSUME v.patch = {es[box]}
        PROVE  ContentValue(qs, es, Replaced(c, i, r)) = ContentAfter(ContentValue(ps, fs, c), v)
    BY <2>3, <2>4, <2>5, PatchValue
  <2>6. ASSUME v.patch = {}, es[box] = fs[ps[c[i]].box]
        PROVE  ContentValue(qs, es, Replaced(c, i, r)) = ContentAfter(ContentValue(ps, fs, c), v)
    BY <2>3, <2>4, <2>6, PatchValue
  <2> QED  BY <2>3, <2>5, <2>6 DEF ps, fs, qs, es
<1>13. Emitted(e) /\ ~IsSnapshot(e) /\ e.id = m
  <2>1. DOMAIN ds \subseteq DOMAIN dicts'
    BY <1>9 DEF Grows
  <2>2. IsEvent(parts', dicts', e)
    BY <2>1 DEF IsEvent
  <2>3. spoiled' = spoiled
    BY <1>7 DEF reached
  <2> QED  BY <1>7, <2>2, <2>3 DEF Emitted, Emit, IsSnapshot
<1>14. ContentLent(r, e)
  <2>1. EventParts(e) = {} /\ EventDicts(parts', e) = {patch} \ {Unset}
    BY DEF EventParts, EventDicts, IsSnapshot
  <2>2. DOMAIN ds \subseteq DOMAIN dicts'
    BY <1>9 DEF Grows
  <2>3. box \in theirDicts => box \in lentDicts'
    BY <1>3, <1>9
  <2> HIDE DEF e, box
  <2> QED  BY <1>3, <1>11, <2>1, <2>2, <2>3 DEF ContentLent
<1>15. ContentQuiet(r, e)
  <2>1. box \in DOMAIN dicts => Taken(box)
    BY <1>3, <1>9
  <2> HIDE DEF box
  <2> QED  BY <1>9, <1>11, <2>1 DEF ContentQuiet
<1>16. r \in DOMAIN parts'
  BY <1>9
<1>17. ContentValue(parts', dicts', Replaced(hand[m].content, i, r))
       = ContentAfter(ContentValue(parts, dicts, hand[m].content), v)
  BY <1>4, <1>12
<1> HIDE DEF e
<1> QED  BY <1>7, <1>10, <1>13, <1>14, <1>15, <1>16, <1>17, ReplacedKeeps DEF v

\* The heap at the next step's birth.
LEMMA NextHeap ==
    ASSUME SharingInv
    PROVE  HeapOK(parts, dicts, births + 1)
<1> DEFINE ps == parts
           ds == dicts
           b == births
<1>1. HeapOK(ps, ds, b)
  BY DEF SharingInv
<1> HIDE DEF ps, ds, b
<1>2. HeapOK(ps, ds, b + 1)
  BY <1>1, LaterHeap
<1> QED  BY <1>2 DEF ps, ds, b

LEMMA PatchPartKeeps ==
    ASSUME SharingInv, NEW m \in DOMAIN hand, NEW i \in DOMAIN hand[m].content,
           NEW patch \in theirDicts \cup {Unset}, PatchPart(m, i, patch)
    PROVE  SharingInv'
<1>1. Holders
  BY DEF SharingInv
<1>2. PICK ds : ds = dicts
  OBVIOUS
<1>3. /\ lentParts' = lentParts /\ lentDicts' = lentDicts \cup ({patch} \ {Unset})
      /\ Patched(m, i, patch, ds)
  BY <1>2 DEF PatchPart, Lend
<1>4. HeapOK(parts, ds, births + 1) /\ Grows(parts, dicts, parts, ds)
  BY <1>2, NextHeap DEF Grows
<1>5. One(births + 1) \notin DOMAIN ds /\ Unset \notin theirDicts
  <2>1. NewRef(One(births + 1), births)
    BY DEF NewRef, One
  <2>2. \A d \in DOMAIN dicts : d # Unset
    BY DEF SharingInv, HeapOK
  <2> QED  BY <1>1, <1>2, <2>1, <2>2, NewOnes DEF Holders
<1>6. theirDicts \subseteq DOMAIN ds /\ lentDicts \subseteq DOMAIN ds
  BY <1>1, <1>2 DEF Holders
<1>7. patch \in DOMAIN dicts => Taken(patch)
  <2>1. Unset \notin DOMAIN dicts
    BY DEF SharingInv, HeapOK
  <2> QED  BY <2>1 DEF Taken
<1> QED  BY <1>3, <1>4, <1>5, <1>6, <1>7, PatchedKeeps

LEMMA UpdateStatusKeeps ==
    ASSUME SharingInv, NEW m \in DOMAIN hand, NEW i \in DOMAIN hand[m].content,
           NEW d \in theirDicts, UpdateStatus(m, i, d)
    PROVE  SharingInv'
<1>1. Holders
  BY DEF SharingInv
<1>2. PICK r : r = Two(births + 1)
  OBVIOUS
<1>3. PICK keys : keys = dicts[parts[hand[m].content[i]].box] \cup dicts[d]
  OBVIOUS
<1>4. PICK ds : ds = Put(dicts, r, keys)
  OBVIOUS
<1>5. NewRef(r, births) /\ NewRef(One(births + 1), births) /\ One(births + 1) # r
  BY <1>2 DEF NewRef, One, Two
<1>6. r \notin DOMAIN dicts /\ r # Unset /\ r \notin theirDicts /\ One(births + 1) \notin DOMAIN dicts
  BY <1>5, NewOnes
<1>7. lentParts' = lentParts /\ lentDicts' = lentDicts /\ Patched(m, i, r, ds)
  BY <1>2, <1>3, <1>4 DEF UpdateStatus, Lend
<1>8. /\ HeapOK(parts, ds, births + 1) /\ Grows(parts, dicts, parts, ds)
      /\ DOMAIN ds = DOMAIN dicts \cup {r}
  <2> DEFINE ps == parts
             fs == dicts
             b == births + 1
  <2>1. HeapOK(ps, fs, b) /\ r[1] = b /\ r \notin DOMAIN fs /\ r # Unset
    BY <1>5, <1>6, NextHeap DEF NewRef
  <2>2. ds = Put(fs, r, keys)
    BY <1>4
  <2> HIDE DEF ps, fs, b
  <2>3. /\ HeapOK(ps, Put(fs, r, keys), b) /\ Grows(ps, fs, ps, Put(fs, r, keys))
        /\ DOMAIN Put(fs, r, keys) = DOMAIN fs \cup {r}
    BY <2>1, NewDict
  <2> QED  BY <2>2, <2>3 DEF ps, fs, b
<1>9. lentDicts \subseteq DOMAIN ds
  BY <1>1, <1>8 DEF Holders
<1>10. One(births + 1) \notin DOMAIN ds
  BY <1>5, <1>6, <1>8
<1> QED  BY <1>6, <1>7, <1>8, <1>9, <1>10, PatchedKeeps

----------------------------------------------------------------------------
(* Steps that copy a message, and those that leave the log alone.          *)

\* y is the copy made of x.
CopyStep(x, y) ==
    /\ Growing /\ IsMessage(parts', dicts', y)
    /\ MessageValue(parts', dicts', y) = MessageValue(parts, dicts, x)
    /\ \A p \in PartRefs(y.content) : NewRef(p, births)
    /\ \A d \in DictRefs(parts', y) : NewRef(d, births)
    /\ \A p \in DOMAIN parts' \ DOMAIN parts : NewRef(parts'[p].box, births)
    /\ PartRefs(y.content) = {<<births + 1, p>> : p \in PartRefs(x.content)}
    /\ DictRefs(parts', y) = {<<births + 1, d>> : d \in DictRefs(parts, x)}
    /\ PartRefs(x.content) = {} => DOMAIN parts' = DOMAIN parts

LEMMA Copying ==
    ASSUME SharingInv, NEW x, IsMessage(parts, dicts, x), births' = births + 1,
           CopyOnHeap(x, births + 1), NEW y, y = DeepCopy(x, births + 1)
    PROVE  CopyStep(x, y)
<1> DEFINE ps == parts
           ds == dicts
           b == births
           qs == PartsWithCopy(ps, x, b + 1)
           es == DictsWithCopy(ps, ds, x, b + 1)
           z == DeepCopy(x, b + 1)
<1>1. HeapOK(ps, ds, b) /\ IsMessage(ps, ds, x)
  BY DEF SharingInv
<1>2. parts' = qs /\ dicts' = es /\ births' = b + 1 /\ z = y
  BY DEF CopyOnHeap
<1>3. PartRefs(x.content) = {} => DOMAIN parts' = DOMAIN parts
  BY <1>2 DEF PartsWithCopy
<1> HIDE DEF ps, ds, b
<1>4. /\ HeapOK(qs, es, b + 1) /\ Grows(ps, ds, qs, es)
      /\ IsMessage(qs, es, z) /\ MessageValue(qs, es, z) = MessageValue(ps, ds, x)
      /\ \A p \in PartRefs(z.content) : NewRef(p, b)
      /\ \A d \in DictRefs(qs, z) : NewRef(d, b)
      /\ \A p \in DOMAIN qs \ DOMAIN ps : NewRef(qs[p].box, b)
      /\ PartRefs(z.content) = {<<b + 1, p>> : p \in PartRefs(x.content)}
      /\ DictRefs(qs, z) = {<<b + 1, d>> : d \in DictRefs(ps, x)}
  BY <1>1, CopyIs
<1> HIDE DEF qs, es, z
<1>5. Growing
  BY <1>1, <1>2, <1>4 DEF Growing, ps, ds, b
<1> QED  BY <1>2, <1>3, <1>4, <1>5 DEF CopyStep, ps, ds, b

\* The references of a copy belong to nobody yet.
LEMMA CopyNew ==
    ASSUME SharingInv, NEW x, NEW y, CopyStep(x, y)
    PROVE  /\ PartRefs(y.content) \cap theirParts = {} /\ PartRefs(y.content) \cap DOMAIN parts = {}
           /\ DictRefs(parts', y) \cap theirDicts = {} /\ DictRefs(parts', y) \cap DOMAIN dicts = {}
           /\ Unset \notin DictRefs(parts', y)
           /\ \A p \in DOMAIN parts' \ DOMAIN parts : parts'[p].box \notin DOMAIN dicts
  BY NewOnes DEF CopyStep

LEMMA OldBoxes ==
    ASSUME Growing, \A p \in DOMAIN parts' \ DOMAIN parts : parts'[p].box \notin DOMAIN dicts,
           NEW d \in DOMAIN dicts, InBox(parts', d)
    PROVE  InBox(parts, d)
<1>1. PICK p \in DOMAIN parts' : parts'[p].box = d
  BY DEF InBox
<1>2. p \in DOMAIN parts /\ parts[p].box = d
  BY <1>1 DEF Growing, Grows
<1> QED  BY <1>2 DEF InBox

LEMMA OldCopies ==
    ASSUME NEW e, \A j \in DOMAIN log' : (j \in DOMAIN log /\ log'[j] = log[j]) \/ log'[j] = e,
           IsSnapshot(e), NEW d, d \notin MetaRefs(e.message)
    PROVE  (InPatch(log', d) => InPatch(log, d)) /\ (InCopy(log', d) => InCopy(log, d))
<1>1. ASSUME InPatch(log', d)
      PROVE  InPatch(log, d)
  <2>1. PICK j \in DOMAIN log' : log'[j].event = "part_updated" /\ log'[j].patch = d
    BY <1>1 DEF InPatch
  <2>2. j \in DOMAIN log /\ log'[j] = log[j]
    BY <2>1 DEF IsSnapshot
  <2> QED  BY <2>1, <2>2 DEF InPatch
<1>2. ASSUME InCopy(log', d)
      PROVE  InCopy(log, d)
  <2>1. PICK j \in DOMAIN log' : IsSnapshot(log'[j]) /\ d \in MetaRefs(log'[j].message)
    BY <1>2 DEF InCopy
  <2>2. j \in DOMAIN log /\ log'[j] = log[j]
    BY <2>1
  <2> QED  BY <2>1, <2>2 DEF InCopy
<1> QED  BY <1>1, <1>2

LEMMA HandStays ==
    ASSUME Holders, UNCHANGED <<hand, given, told, touched>>, lentDicts \subseteq lentDicts', lentDicts' \subseteq DOMAIN dicts'
    PROVE  HandStep
  BY DEF Holders, HandStep

LEMMA IterateKeeps ==
    ASSUME SharingInv, NEW m \in DOMAIN hand, Iterate(m)
    PROVE  SharingInv'
<1>1. Holders /\ LentOnly /\ FormKept /\ SentStays /\ HeapOK(parts, dicts, births)
  BY DEF SharingInv
<1>2. PICK c : c = hand[m].content
  OBVIOUS
<1>3. /\ theirParts' = theirParts \cup PartRefs(c) /\ theirDicts' = theirDicts \cup Boxes(parts, c)
      /\ lentParts' = lentParts \cup PartRefs(c) /\ lentDicts' = lentDicts \cup Boxes(parts, c)
      /\ UNCHANGED <<parts, dicts, births, hand, finalized, log, wire, told, near, cursor, far, given,
                     spoiled, late, touched, edits>>
  BY <1>2 DEF Iterate, Lend, heap, sent, receivers, reached
<1>4. Growing
  BY <1>1, <1>3 DEF Growing, Grows
<1>5. PartRefs(c) \subseteq DOMAIN parts /\ Boxes(parts, c) \subseteq DOMAIN dicts
  BY <1>1, <1>2, <1>4, GrownHolders DEF DictRefs
<1>6. Logged
  BY <1>1, <1>3, <1>4, LogStays
<1>7. HandStep
  <2>1. lentDicts \subseteq lentDicts' /\ lentDicts' \subseteq DOMAIN dicts'
    BY <1>1, <1>3, <1>5 DEF Holders
  <2> QED  BY <1>1, <1>3, <2>1, HandStays
<1>8. NearStep
  BY <1>1, <1>3, NearStays
<1>9. LendsMore
  BY <1>3 DEF LendsMore
<1>10. LentOnly'
  <2>1. hand' = hand /\ near' = near /\ log' = log
    BY <1>3
  <2> QED  BY <1>1, <1>4, <1>9, <2>1, LentStays
<1>11. Quiet
  <2>1. \A d \in DOMAIN dicts : (Taken(d)' => Taken(d)) /\ (Copied(d)' => Copied(d))
    <3>1. \A d \in Boxes(parts, c) : InBox(parts, d)
      BY <1>5 DEF Boxes, InBox
    <3> QED  BY <1>3, <3>1 DEF Taken, Copied
  <2> QED  BY <1>3, <2>1 DEF Quiet
<1>12. HoldersRest'
  BY <1>1, <1>3, <1>5 DEF HoldersRest, Holders
<1> QED  BY <1>4, <1>6, <1>7, <1>8, <1>10, <1>11, <1>12, GrowingKeeps

LEMMA StartKeeps ==
    ASSUME SharingInv, NEW m, NEW meta, Functional(meta),
           \A n \in DOMAIN meta : meta[n] \in theirDicts, Start(m, meta)
    PROVE  SharingInv'
<1> DEFINE x == [content |-> <<>>, meta |-> meta]
<1>1. /\ Holders /\ LentOnly /\ FormKept /\ SentStays /\ MetaIsOwn /\ Told
      /\ HeapOK(parts, dicts, births)
  BY DEF SharingInv
<1>2. PICK y : y = DeepCopy(x, births + 1)
  OBVIOUS
<1> DEFINE e == [event |-> "message_started", id |-> m, message |-> y]
           v == Serialized(parts', dicts', e)
<1>3. /\ m \notin DOMAIN hand /\ births' = births + 1 /\ CopyOnHeap(x, births + 1)
      /\ hand' = Put(hand, m, x) /\ given' = Put(given, m, MessageValue(parts, dicts, x).meta)
      /\ lentParts' = lentParts /\ lentDicts' = lentDicts \cup MetaRefs(x)
      /\ Emit(e)
      /\ UNCHANGED <<finalized, theirParts, theirDicts, near, cursor, far, spoiled, late, touched, edits>>
  BY <1>2 DEF Start, Born, Lend, receivers, reached
<1>4. MetaRefs(x) \subseteq theirDicts /\ theirDicts \subseteq DOMAIN dicts
  BY <1>1 DEF MetaRefs, Holders
<1>5. PartRefs(x.content) = {}
  BY DEF PartRefs
<1>6. IsMessage(parts, dicts, x)
  <2>1. \A n \in DOMAIN meta : meta[n] \in DOMAIN dicts
    BY <1>4 DEF MetaRefs
  <2> QED  BY <2>1 DEF IsMessage, Functional
<1>7. CopyStep(x, y)
  <2> HIDE DEF x
  <2> QED  BY <1>2, <1>3, <1>6, Copying
<1>8. Growing
  BY <1>7 DEF CopyStep
<1>9. /\ PartRefs(y.content) = {}
      /\ DictRefs(parts', y) \cap theirDicts = {} /\ DictRefs(parts', y) \cap DOMAIN dicts = {}
      /\ Unset \notin DictRefs(parts', y) /\ MetaRefs(y) \subseteq DictRefs(parts', y)
      /\ \A p \in DOMAIN parts' \ DOMAIN parts : parts'[p].box \notin DOMAIN dicts
      /\ DOMAIN parts' = DOMAIN parts
  <2>1. PartRefs(y.content) = {} /\ DOMAIN parts' = DOMAIN parts
    BY <1>5, <1>7 DEF CopyStep
  <2>2. MetaRefs(y) \subseteq DictRefs(parts', y)
    BY DEF DictRefs
  <2> HIDE DEF x
  <2> QED  BY <1>7, <2>1, <2>2, CopyNew
<1>10. Emitted(e)
  <2>1. IsEvent(parts', dicts', e)
    BY <1>7 DEF IsEvent, IsSnapshot, CopyStep
  <2> QED  BY <1>3, <2>1 DEF Emitted, Emit
<1>11. /\ Logged /\ Len(log) \in Nat /\ DOMAIN log = 1 .. Len(log) /\ Len(log') = Len(log) + 1
       /\ DOMAIN log' = 1 .. Len(log) + 1 /\ log'[Len(log) + 1] = e /\ \A j \in DOMAIN log : log'[j] = log[j]
  <2> HIDE DEF e
  <2> QED  BY <1>1, <1>8, <1>10, LogGrows
<1>12. \A j \in DOMAIN log' : (j \in DOMAIN log /\ log'[j] = log[j]) \/ log'[j] = e
  BY <1>11
<1>13. /\ DOMAIN hand' = DOMAIN hand \cup {m} /\ hand'[m] = x /\ \A k \in DOMAIN hand : hand'[k] = hand[k]
       /\ DOMAIN given' = DOMAIN hand' /\ given'[m] = MessageValue(parts, dicts, x).meta
       /\ \A k \in DOMAIN hand : given'[k] = given[k]
       /\ Functional(hand') /\ Functional(given')
  <2>1. DOMAIN given = DOMAIN hand
    BY <1>1 DEF Holders
  <2> HIDE DEF x
  <2> QED  BY <1>3, <2>1 DEF Put, Functional
<1>14. /\ DOMAIN told' = DOMAIN hand' /\ \A k \in DOMAIN hand : told'[k] = told[k]
       /\ told'[m] = MessageValue(parts, dicts, x)
  <2>1. v.id = m /\ v.message = MessageValue(parts, dicts, x) /\ IsSnapshot(v)
    BY <1>7 DEF Serialized, IsSnapshot, CopyStep
  <2>2. told' = After(told, v) /\ DOMAIN told = DOMAIN hand
    BY <1>1, <1>10 DEF Emitted, Holders
  <2> HIDE DEF v, x
  <2>3. told' = Put(told, m, MessageValue(parts, dicts, x))
    BY <2>1, <2>2 DEF After
  <2> QED  BY <1>3, <1>13, <2>2, <2>3 DEF Put
<1>15. \A n \in DOMAIN x.meta : dicts'[x.meta[n]] = dicts[x.meta[n]]
  BY <1>4, <1>8 DEF Growing, Grows, MetaRefs
<1>16. MetaFits(m)'
  <2>1. given'[m] = [n \in DOMAIN x.meta |-> dicts[x.meta[n]]]
    BY <1>13 DEF MessageValue
  <2>2. \A n \in DOMAIN x.meta : x.meta[n] \in lentDicts'
    BY <1>3 DEF MetaRefs
  <2> HIDE DEF x
  <2> QED  BY <1>13, <1>15, <2>1, <2>2 DEF MetaFits, Functional
<1>17. ToldFits(m)'
  <2>1. told'[m] = [content |-> ContentValue(parts, dicts, x.content),
                    meta |-> [n \in DOMAIN x.meta |-> dicts[x.meta[n]]]]
    BY <1>14 DEF MessageValue
  <2>2. ContentValue(parts', dicts', x.content) = ContentValue(parts, dicts, x.content)
    BY DEF ContentValue
  <2> HIDE DEF x
  <2> QED  BY <1>13, <2>1, <2>2 DEF ToldFits
<1>18. IsMessage(parts, dicts, hand[m])'
  <2>1. \A d \in DOMAIN dicts : d \in DOMAIN dicts'
    BY <1>8 DEF Growing, Grows
  <2>2. IsMessage(parts', dicts', x)
    BY <1>6, <2>1 DEF IsMessage
  <2> QED  BY <1>13, <2>2 DEF IsMessage
<1>19. lentDicts \subseteq lentDicts' /\ lentDicts' \subseteq DOMAIN dicts'
  BY <1>1, <1>3, <1>4, <1>8 DEF Holders, Growing, Grows
<1>20. HandStep
  <2>1. \A k \in DOMAIN hand' : k = m \/ /\ k \in DOMAIN hand /\ hand'[k] = hand[k]
                                         /\ given'[k] = given[k] /\ told'[k] = told[k]
    BY <1>13, <1>14
  <2>2. touched' = touched
    BY <1>3
  <2> QED  BY <1>13, <1>14, <1>16, <1>17, <1>18, <1>19, <2>1, <2>2 DEF HandStep
<1>21. NearStep
  BY <1>1, <1>3, NearStays
<1>22. LendsMore
  BY <1>3 DEF LendsMore
<1>23. LentOnly'
  <2>1. OnlyLent(PartRefs(hand[m].content), Boxes(parts, hand[m].content))'
    <3>1. PartRefs(hand'[m].content) = {} /\ Boxes(parts', hand'[m].content) = {}
      BY <1>5, <1>13 DEF Boxes
    <3> QED  BY <3>1 DEF OnlyLent
  <2>2. \A j \in DOMAIN log' : log'[j] = e => OnlyLent(EventParts(log[j]), EventDicts(parts, log[j]))'
    <3>1. EventParts(e) = {} /\ EventDicts(parts', e) = DictRefs(parts', y)
      BY <1>9 DEF EventParts, EventDicts, IsSnapshot
    <3>2. theirDicts' = theirDicts
      BY <1>3
    <3> HIDE DEF e
    <3> QED  BY <1>9, <3>1, <3>2 DEF OnlyLent
  <2>3. \A k \in DOMAIN hand' : k = m \/ (k \in DOMAIN hand /\ hand'[k].content = hand[k].content)
    BY <1>13
  <2>4. near' = near
    BY <1>3
  <2> HIDE DEF e
  <2> QED  BY <1>1, <1>8, <1>12, <1>22, <2>1, <2>2, <2>3, <2>4, LentStays
<1>24. \A d \in DOMAIN dicts : (Taken(d)' => Taken(d)) /\ (Copied(d)' => Copied(d))
  <2> TAKE d \in DOMAIN dicts
  <2>1. d \notin MetaRefs(y) /\ IsSnapshot(e) /\ e.message = y
    BY <1>9 DEF IsSnapshot
  <2>2. InBox(parts', d) => InBox(parts, d)
    BY <1>8, <1>9, OldBoxes
  <2> HIDE DEF e
  <2>3. (InPatch(log', d) => InPatch(log, d)) /\ (InCopy(log', d) => InCopy(log, d))
    BY <1>12, <2>1, OldCopies
  <2>4. theirDicts' = theirDicts /\ near' = near
    BY <1>3
  <2> QED  BY <2>2, <2>3, <2>4 DEF Taken, Copied
<1>25. Apart(e)'
  <2>1. PartRefs(e.message.content) = {}
    BY <1>9
  <2>2. ASSUME NEW d \in MetaRefs(y)
        PROVE  ~Taken(d)' /\ ~InMeta(hand', d)
    <3>1. d \notin theirDicts /\ d \notin DOMAIN dicts /\ d # Unset
      BY <1>9, <2>2
    <3>2. ~InBox(parts', d)
      BY <1>1, <1>8, <1>9, <3>1 DEF InBox, Growing, Grows, HeapOK
    <3>3. ~InPatch(log', d)
      <4> SUFFICES ASSUME NEW j \in DOMAIN log', log'[j].event = "part_updated", log'[j].patch = d
                   PROVE  FALSE
        BY DEF InPatch
      <4>1. j \in DOMAIN log /\ log'[j] = log[j]
        BY <1>12
      <4>2. IsEvent(parts, dicts, log[j])
        BY <1>1, <4>1 DEF Holders
      <4> QED  BY <3>1, <4>1, <4>2 DEF IsEvent, IsSnapshot
    <3>4. ~InMeta(hand', d)
      <4>1. \A k \in DOMAIN hand : MetaRefs(hand[k]) \subseteq DOMAIN dicts
        BY <1>1 DEF Holders, IsMessage, MetaRefs
      <4>2. \A k \in DOMAIN hand' : MetaRefs(hand'[k]) \subseteq DOMAIN dicts
        BY <1>4, <1>13, <4>1
      <4> QED  BY <3>1, <4>2 DEF InMeta
    <3>5. theirDicts' = theirDicts
      BY <1>3
    <3> QED  BY <3>1, <3>2, <3>3, <3>4, <3>5 DEF Taken
  <2> QED  BY <2>1, <2>2 DEF Apart
<1>26. Quiet
  <2>1. \A k \in DOMAIN hand' : \A n \in DOMAIN hand'[k].meta :
           \/ k \in DOMAIN hand /\ n \in DOMAIN hand[k].meta /\ hand'[k].meta[n] = hand[k].meta[n]
           \/ hand'[k].meta[n] \in lentDicts' \cap theirDicts
    <3>1. \A n \in DOMAIN hand'[m].meta : hand'[m].meta[n] \in lentDicts' \cap theirDicts
      BY <1>3, <1>4, <1>13 DEF MetaRefs
    <3> QED  BY <1>13, <3>1
  <2>2. \A j \in DOMAIN log' : (j \in DOMAIN log /\ log'[j] = log[j]) \/ Apart(log[j])'
    <3>1. \A j \in DOMAIN log' : log'[j] = e => Apart(log[j])'
      BY <1>25 DEF Apart
    <3> QED  BY <1>12, <3>1
  <2> QED  BY <1>19, <1>24, <2>1, <2>2 DEF Quiet
<1>27. HoldersRest'
  <2>1. cursor' \in 0 .. Len(log')
    BY <1>1, <1>3, <1>11 DEF Holders
  <2>2. theirParts' \subseteq DOMAIN parts' /\ theirDicts' \subseteq DOMAIN dicts'
    BY <1>1, <1>3, <1>8 DEF Holders, Growing, Grows
  <2>3. Functional(near') /\ DOMAIN far' = DOMAIN near'
    BY <1>1, <1>3 DEF Holders
  <2> QED  BY <1>13, <1>14, <1>19, <2>1, <2>2, <2>3 DEF HoldersRest
<1> QED  BY <1>8, <1>11, <1>20, <1>21, <1>23, <1>26, <1>27, GrowingKeeps

\* Nobody refers to an object that is not there.
LEMMA NobodyHolds ==
    ASSUME SharingInv, NEW r, r \notin DOMAIN dicts, r # Unset
    PROVE  ~Taken(r) /\ ~Copied(r) /\ ~InMeta(hand, r)
<1>1. Holders /\ HeapOK(parts, dicts, births)
  BY DEF SharingInv
<1>2. ~InBox(parts, r)
  BY <1>1 DEF InBox, HeapOK
<1>3. ~InPatch(log, r)
  <2> SUFFICES ASSUME NEW j \in DOMAIN log, log[j].event = "part_updated", log[j].patch = r
               PROVE  FALSE
    BY DEF InPatch
  <2>1. IsEvent(parts, dicts, log[j])
    BY <1>1 DEF Holders
  <2> QED  BY <2>1 DEF IsEvent, IsSnapshot
<1>4. ~InCopy(log, r)
  <2> SUFFICES ASSUME NEW j \in DOMAIN log, IsSnapshot(log[j]), r \in MetaRefs(log[j].message)
               PROVE  FALSE
    BY DEF InCopy
  <2>1. IsEvent(parts, dicts, log[j])
    BY <1>1 DEF Holders
  <2>2. IsMessage(parts, dicts, log[j].message)
    BY <2>1 DEF IsEvent, IsSnapshot
  <2> QED  BY <2>2 DEF IsMessage, MetaRefs
<1>5. ~InMeta(near, r) /\ ~InMeta(hand, r)
  <2>1. \A m \in DOMAIN near : r \notin MetaRefs(near[m])
    BY <1>1 DEF Holders, IsMessage, MetaRefs
  <2>2. \A m \in DOMAIN hand : r \notin MetaRefs(hand[m])
    BY <1>1 DEF Holders, IsMessage, MetaRefs
  <2> QED  BY <2>1, <2>2 DEF InMeta
<1> QED  BY <1>1, <1>2, <1>3, <1>4, <1>5 DEF Taken, Copied, Holders

LEMMA NewMetaKeeps ==
    ASSUME SharingInv, NEW m \in DOMAIN hand, NEW namespace, NEW key,
           namespace \notin DOMAIN hand[m].meta, SetMeta(m, namespace, key)
    PROVE  SharingInv'
<1>1. /\ Holders /\ LentOnly /\ FormKept /\ SentStays /\ MetaIsOwn /\ Told
      /\ HeapOK(parts, dicts, births)
  BY DEF SharingInv
<1>2. PICK r, b : r = One(b) /\ b = births + 1 /\ NewRef(r, births)
  <2>1. NewRef(One(births + 1), births)
    BY DEF NewRef, One
  <2> QED  BY <2>1
<1>3. PICK old, oldGiven, keys : old = hand[m].meta /\ oldGiven = given[m] /\ keys = {key}
  OBVIOUS
<1> DEFINE meta == Put(old, namespace, r)
           newGiven == Put(oldGiven, namespace, keys)
<1>4. r \notin DOMAIN parts /\ r \notin DOMAIN dicts /\ r # Unset /\ r \notin lentDicts
  BY <1>2, NewOnes
<1>5. /\ births' = b /\ dicts' = Put(dicts, r, keys)
      /\ hand' = [hand EXCEPT ![m].meta = meta]
      /\ given' = [given EXCEPT ![m] = newGiven]
      /\ UNCHANGED <<parts, finalized, log, wire, told, theirParts, theirDicts, lentParts, lentDicts,
                     near, cursor, far, spoiled, late, touched, edits>>
  <2>1. namespace \notin DOMAIN old
    BY <1>3
  <2>2. /\ births' = b /\ dicts' = Put(dicts, r, keys)
        /\ hand' = [hand EXCEPT ![m].meta = meta]
        /\ UNCHANGED <<parts, finalized, log, wire, told, theirParts, theirDicts, lentParts, lentDicts,
                       near, cursor, far, spoiled, late, touched, edits>>
    BY <1>2, <1>3 DEF SetMeta, Born, sent, callers, receivers, reached
  <2>3. given' = [given EXCEPT ![m] = Put(oldGiven, namespace, {key} \cup {})]
    BY <1>3 DEF SetMeta
  <2>4. {key} \cup {} = keys
    BY <1>3
  <2> QED  BY <2>2, <2>3, <2>4
<1>6. /\ HeapOK(parts', dicts', births') /\ Grows(parts, dicts, parts', dicts')
      /\ dicts'[r] = keys /\ DOMAIN dicts' = DOMAIN dicts \cup {r}
  <2> DEFINE ps == parts
             ds == dicts
  <2>1. HeapOK(ps, ds, b) /\ r[1] = b /\ r \notin DOMAIN ds /\ r # Unset
    BY <1>2, <1>4, NextHeap DEF NewRef
  <2> HIDE DEF ps, ds, meta, newGiven
  <2>2. HeapOK(ps, Put(ds, r, keys), b) /\ Grows(ps, ds, ps, Put(ds, r, keys))
    BY <2>1, NewDict
  <2>3. Put(ds, r, keys)[r] = keys /\ DOMAIN Put(ds, r, keys) = DOMAIN ds \cup {r}
    BY DEF Put
  <2> QED  BY <1>5, <2>2, <2>3 DEF ps, ds
<1>7. Growing
  BY <1>1, <1>6 DEF Growing
<1>8. /\ IsMessage(parts, dicts, hand[m]) /\ IsMessage(parts', dicts', hand[m])
      /\ ContentValue(parts', dicts', hand[m].content) = ContentValue(parts, dicts, hand[m].content)
  BY <1>1, <1>7, GrownHolders DEF Holders
<1>9. /\ DOMAIN hand' = DOMAIN hand /\ \A k \in DOMAIN hand \ {m} : hand'[k] = hand[k]
      /\ hand'[m] = [content |-> hand[m].content, meta |-> meta]
      /\ Functional(hand')
  <2>1. hand[m] = [content |-> hand[m].content, meta |-> old]
    BY <1>3, <1>8 DEF IsMessage
  <2> HIDE DEF meta
  <2>2. Functional(hand)
    BY <1>1 DEF Holders
  <2> QED  BY <1>5, <2>1, <2>2 DEF Functional
<1>10. /\ DOMAIN meta = DOMAIN old \cup {namespace} /\ meta[namespace] = r /\ namespace \notin DOMAIN old
       /\ \A n \in DOMAIN old : meta[n] = old[n]
       /\ meta = [n \in DOMAIN meta |-> meta[n]]
  BY <1>3 DEF Put
<1>11. /\ DOMAIN newGiven = DOMAIN oldGiven \cup {namespace} /\ newGiven[namespace] = keys
       /\ \A n \in DOMAIN oldGiven \ {namespace} : newGiven[n] = oldGiven[n]
       /\ newGiven = [n \in DOMAIN newGiven |-> newGiven[n]]
  BY DEF Put
<1> HIDE DEF meta, newGiven
<1>12. /\ DOMAIN given' = DOMAIN hand' /\ given'[m] = newGiven /\ \A k \in DOMAIN hand \ {m} : given'[k] = given[k]
       /\ Functional(given')
  <2>1. DOMAIN given = DOMAIN hand /\ Functional(given)
    BY <1>1 DEF Holders
  <2> QED  BY <1>5, <1>9, <2>1 DEF Functional
<1>13. \A n \in DOMAIN old : old[n] \in DOMAIN dicts
  BY <1>3, <1>8 DEF IsMessage
<1>14. IsMessage(parts, dicts, hand[m])'
  <2>1. \A n \in DOMAIN meta : meta[n] \in DOMAIN dicts'
    BY <1>6, <1>10, <1>13
  <2> QED  BY <1>8, <1>9, <1>10, <2>1 DEF IsMessage
<1>15. MetaFits(m)'
  <2>1. /\ DOMAIN oldGiven = DOMAIN old
        /\ \A n \in DOMAIN old : IF old[n] \in lentDicts THEN oldGiven[n] \subseteq dicts[old[n]]
                                 ELSE dicts[old[n]] = oldGiven[n]
    BY <1>1, <1>3 DEF MetaIsOwn
  <2>2. \A n \in DOMAIN old : dicts'[old[n]] = dicts[old[n]]
    BY <1>6, <1>13 DEF Grows
  <2>3. \A n \in DOMAIN old : IF meta[n] \in lentDicts THEN newGiven[n] \subseteq dicts'[meta[n]]
                              ELSE dicts'[meta[n]] = newGiven[n]
    BY <1>10, <1>11, <2>1, <2>2
  <2>4. dicts'[meta[namespace]] = newGiven[namespace] /\ meta[namespace] \notin lentDicts
    BY <1>4, <1>6, <1>10, <1>11
  <2>5. \A n \in DOMAIN meta : IF meta[n] \in lentDicts THEN newGiven[n] \subseteq dicts'[meta[n]]
                               ELSE dicts'[meta[n]] = newGiven[n]
    BY <1>10, <2>3, <2>4
  <2>6. DOMAIN newGiven = DOMAIN meta /\ lentDicts' = lentDicts /\ hand'[m].meta = meta
    BY <1>5, <1>9, <1>10, <1>11, <2>1
  <2> QED  BY <1>11, <1>12, <2>5, <2>6 DEF MetaFits, Functional
<1>16. ToldFits(m)'
  <2>1. /\ told[m] = [content |-> told[m].content, meta |-> told[m].meta]
        /\ m \notin touched => ContentValue(parts, dicts, hand[m].content) = told[m].content
    BY <1>1 DEF Told
  <2>2. told' = told /\ touched' = touched /\ hand'[m].content = hand[m].content
    BY <1>5, <1>9
  <2> QED  BY <1>8, <2>1, <2>2 DEF ToldFits
<1>17. HandStep
  <2>1. lentDicts \subseteq lentDicts' /\ lentDicts' \subseteq DOMAIN dicts'
    BY <1>1, <1>5, <1>6 DEF Holders
  <2>2. DOMAIN told' = DOMAIN hand' /\ told' = told /\ touched' = touched
    BY <1>1, <1>5, <1>9 DEF Holders
  <2>3. \A k \in DOMAIN hand' : k = m \/ (k \in DOMAIN hand /\ hand'[k] = hand[k] /\ given'[k] = given[k])
    BY <1>9, <1>12
  <2> QED  BY <1>9, <1>12, <1>14, <1>15, <1>16, <2>1, <2>2, <2>3 DEF HandStep
<1>18. NearStep
  BY <1>1, <1>5, NearStays
<1>19. Logged
  BY <1>1, <1>5, <1>7, LogStays
<1>20. LentOnly'
  <2>1. \A k \in DOMAIN hand' : k \in DOMAIN hand /\ hand'[k].content = hand[k].content
    BY <1>9
  <2>2. near' = near /\ log' = log
    BY <1>5
  <2>3. LendsMore
    BY <1>5 DEF LendsMore
  <2> QED  BY <1>1, <1>7, <2>1, <2>2, <2>3, LentStays
<1>21. Quiet
  <2>1. \A d : (Taken(d)' <=> Taken(d)) /\ (Copied(d)' <=> Copied(d))
    BY <1>5 DEF Taken, Copied
  <2>2. ~Taken(r) /\ ~Copied(r) /\ ~InMeta(hand, r)
    BY <1>4, NobodyHolds
  <2>3. \A k \in DOMAIN hand' : \A l \in DOMAIN hand'[k].meta : hand'[k].meta[l] = r => k = m /\ l = namespace
    <3>1. \A k \in DOMAIN hand : \A l \in DOMAIN hand[k].meta : hand[k].meta[l] # r
      BY <2>2 DEF InMeta, MetaRefs
    <3> QED  BY <1>3, <1>9, <1>10, <3>1
  <2>4. hand'[m].meta[namespace] = r
    BY <1>9, <1>10
  <2>5. ~Taken(hand[m].meta[namespace])' /\ ~Copied(hand[m].meta[namespace])'
    <3>1. (\A d : d = r => ~Taken(d))' /\ (\A d : d = r => ~Copied(d))'
      BY <2>1, <2>2
    <3> QED  BY <2>4, <3>1
  <2>6. Private(m, namespace)'
    BY <2>3, <2>4, <2>5 DEF Private, OneSlot
  <2>7. \A k \in DOMAIN hand' : \A l \in DOMAIN hand'[k].meta :
          \/ k \in DOMAIN hand /\ l \in DOMAIN hand[k].meta /\ hand'[k].meta[l] = hand[k].meta[l]
          \/ k = m /\ l = namespace
    BY <1>3, <1>9, <1>10
  <2>8. \A k \in DOMAIN hand' : \A l \in DOMAIN hand'[k].meta :
          \/ k \in DOMAIN hand /\ l \in DOMAIN hand[k].meta /\ hand'[k].meta[l] = hand[k].meta[l]
          \/ hand'[k].meta[l] \notin DOMAIN dicts /\ Private(k, l)'
    BY <1>4, <2>4, <2>6, <2>7
  <2>9. log' = log /\ lentDicts' = lentDicts
    BY <1>5
  <2> QED  BY <2>1, <2>8, <2>9 DEF Quiet
<1>22. HoldersRest'
  <2>1. theirParts' \subseteq DOMAIN parts' /\ theirDicts' \subseteq DOMAIN dicts' /\ lentDicts' \subseteq DOMAIN dicts'
    BY <1>1, <1>5, <1>6 DEF Holders
  <2>2. Functional(near') /\ DOMAIN far' = DOMAIN near' /\ cursor' \in 0 .. Len(log')
        /\ DOMAIN told' = DOMAIN hand'
    BY <1>1, <1>5, <1>9 DEF Holders
  <2> QED  BY <1>9, <1>12, <2>1, <2>2 DEF HoldersRest
<1> QED  BY <1>7, <1>17, <1>18, <1>19, <1>20, <1>21, <1>22, GrowingKeeps

LEMMA FinalizeKeeps ==
    ASSUME SharingInv, NEW m \in DOMAIN hand, Finalize(m)
    PROVE  SharingInv'
<1>1. /\ Holders /\ LentOnly /\ FormKept /\ SentStays /\ MetaIsOwn /\ Told
      /\ HeapOK(parts, dicts, births)
  BY DEF SharingInv
<1>2. PICK x, y : x = hand[m] /\ y = DeepCopy(x, births + 1)
  OBVIOUS
<1> DEFINE e == [event |-> "message_finalized", id |-> m, message |-> y]
           v == Serialized(parts', dicts', e)
<1>3. /\ births' = births + 1 /\ CopyOnHeap(x, births + 1)
      /\ theirParts' = theirParts \cup {<<births + 1, p>> : p \in PartRefs(x.content)}
      /\ theirDicts' = theirDicts \cup {<<births + 1, d>> : d \in DictRefs(parts, x)}
      /\ UNCHANGED <<hand, lentParts, lentDicts, near, cursor, far, given, spoiled, late, edits>>
      /\ EmitFinalized(m, y)
  BY <1>2 DEF Finalize, Born, receivers
<1>4. IsMessage(parts, dicts, x)
  BY <1>1, <1>2 DEF Holders
<1>5. CopyStep(x, y)
  BY <1>2, <1>3, <1>4, Copying
<1>6. Growing
  BY <1>5 DEF CopyStep
<1>7. /\ theirParts' = theirParts \cup PartRefs(y.content)
      /\ theirDicts' = theirDicts \cup DictRefs(parts', y)
  BY <1>3, <1>5 DEF CopyStep
<1>8. /\ PartRefs(y.content) \cap DOMAIN parts = {} /\ DictRefs(parts', y) \cap DOMAIN dicts = {}
      /\ \A p \in DOMAIN parts' \ DOMAIN parts : parts'[p].box \notin DOMAIN dicts
  BY <1>5, CopyNew
<1>9. PartRefs(y.content) \subseteq DOMAIN parts' /\ DictRefs(parts', y) \subseteq DOMAIN dicts'
  <2> DEFINE qs == parts'
             es == dicts'
             b == births'
  <2>1. HeapOK(qs, es, b) /\ IsMessage(qs, es, y)
    BY <1>5 DEF CopyStep, Growing
  <2> HIDE DEF qs, es, b
  <2>2. PartRefs(y.content) \subseteq DOMAIN qs /\ DictRefs(qs, y) \subseteq DOMAIN es
    BY <2>1, SameGrows, GrownMessage
  <2> QED  BY <2>2 DEF qs, es
<1>10. NearStep
  BY <1>1, <1>3, NearStays
<1>11. LendsMore
  BY <1>3, <1>7, <1>8 DEF LendsMore
<1>12. lentDicts' = lentDicts /\ lentDicts \subseteq DOMAIN dicts'
  BY <1>1, <1>3, <1>6 DEF Holders, Growing, Grows
<1>13. theirParts' \subseteq DOMAIN parts' /\ theirDicts' \subseteq DOMAIN dicts'
  BY <1>1, <1>6, <1>7, <1>9 DEF Holders, Growing, Grows
<1>14. hand' = hand /\ near' = near /\ given' = given
  BY <1>3
<1>15. CASE m \in finalized
  <2>1. UNCHANGED <<log, wire, told, touched, spoiled>>
    BY <1>3, <1>15 DEF EmitFinalized, sent
  <2>2. Logged
    BY <1>1, <1>6, <2>1, LogStays
  <2>3. HandStep
    BY <1>1, <1>12, <1>14, <2>1, HandStays
  <2>4. LentOnly'
    BY <1>1, <1>6, <1>11, <1>14, <2>1, LentStays
  <2>5. Quiet
    <3>1. ASSUME NEW d \in DOMAIN dicts, Taken(d)'
          PROVE  Taken(d)
      <4>1. InBox(parts', d) => InBox(parts, d)
        BY <1>6, <1>8, OldBoxes
      <4>2. d \in theirDicts' => d \in theirDicts
        BY <1>7, <1>8
      <4> QED  BY <2>1, <3>1, <4>1, <4>2 DEF Taken
    <3>2. \A d : Copied(d)' => Copied(d)
      BY <1>14, <2>1 DEF Copied
    <3> QED  BY <1>12, <1>14, <2>1, <3>1, <3>2 DEF Quiet
  <2>6. HoldersRest'
    BY <1>1, <1>3, <1>12, <1>13, <2>1 DEF Holders, HoldersRest
  <2> QED  BY <1>6, <1>10, <2>2, <2>3, <2>4, <2>5, <2>6, GrowingKeeps
<1>16. CASE m \notin finalized
  <2>1. Emit(e) /\ touched' = touched \ {m} /\ spoiled' = spoiled
    BY <1>3, <1>16 DEF EmitFinalized
  <2>2. Emitted(e)
    <3>1. IsEvent(parts', dicts', e)
      BY <1>5 DEF IsEvent, IsSnapshot, CopyStep
    <3> QED  BY <2>1, <3>1 DEF Emitted, Emit
  <2>3. /\ Logged /\ Len(log) \in Nat /\ DOMAIN log = 1 .. Len(log) /\ Len(log') = Len(log) + 1
        /\ DOMAIN log' = 1 .. Len(log) + 1 /\ log'[Len(log) + 1] = e /\ \A j \in DOMAIN log : log'[j] = log[j]
    <3> HIDE DEF e
    <3> QED  BY <1>1, <1>6, <2>2, LogGrows
  <2>4. \A j \in DOMAIN log' : (j \in DOMAIN log /\ log'[j] = log[j]) \/ log'[j] = e
    BY <2>3
  <2>5. /\ DOMAIN told' = DOMAIN told /\ \A k \in DOMAIN told \ {m} : told'[k] = told[k]
        /\ told'[m] = MessageValue(parts, dicts, x)
    <3>1. v.id = m /\ v.message = MessageValue(parts, dicts, x) /\ IsSnapshot(v)
      BY <1>5 DEF Serialized, IsSnapshot, CopyStep
    <3>2. told' = After(told, v) /\ DOMAIN told = DOMAIN hand
      BY <1>1, <2>2 DEF Emitted, Holders
    <3> HIDE DEF v
    <3>3. told' = Put(told, m, MessageValue(parts, dicts, x))
      BY <3>1, <3>2 DEF After
    <3> QED  BY <3>2, <3>3 DEF Put
  <2>6. ToldFits(m)'
    <3>1. told'[m] = [content |-> ContentValue(parts, dicts, x.content),
                      meta |-> [n \in DOMAIN x.meta |-> dicts[x.meta[n]]]]
      BY <2>5 DEF MessageValue
    <3>2. ContentValue(parts', dicts', x.content) = ContentValue(parts, dicts, x.content)
      BY <1>1, <1>2, <1>6, GrownHolders
    <3>3. hand'[m] = x
      BY <1>2, <1>14
    <3> QED  BY <3>1, <3>2, <3>3 DEF ToldFits
  <2>7. HandStep
    <3>1. DOMAIN given = DOMAIN hand /\ DOMAIN told = DOMAIN hand /\ Functional(given) /\ Functional(hand)
      BY <1>1 DEF Holders
    <3>2. \A k \in DOMAIN hand' : k = m \/ (told'[k] = told[k] /\ (k \in touched => k \in touched'))
      BY <1>14, <2>1, <2>5, <3>1
    <3> QED  BY <1>12, <1>14, <2>5, <2>6, <3>1, <3>2 DEF HandStep
  <2>8. LentOnly'
    <3>1. \A j \in DOMAIN log' : (j \in DOMAIN log /\ log'[j] = log[j]) \/ log'[j].event = "message_finalized"
      BY <2>4
    <3> QED  BY <1>1, <1>6, <1>11, <1>14, <3>1, LentStays
  <2>9. Quiet
    <3>1. ASSUME NEW d \in DOMAIN dicts
          PROVE  (Taken(d)' => Taken(d)) /\ (Copied(d)' => Copied(d))
      <4>1. InBox(parts', d) => InBox(parts, d)
        BY <1>6, <1>8, OldBoxes
      <4>2. d \in theirDicts' => d \in theirDicts
        BY <1>7, <1>8
      <4>3. d \notin MetaRefs(e.message) /\ IsSnapshot(e)
        BY <1>8 DEF IsSnapshot, DictRefs
      <4> HIDE DEF e
      <4>4. (InPatch(log', d) => InPatch(log, d)) /\ (InCopy(log', d) => InCopy(log, d))
        BY <2>4, <4>3, OldCopies
      <4> QED  BY <1>14, <4>1, <4>2, <4>4 DEF Taken, Copied
    <3>2. \A j \in DOMAIN log' : log'[j].event = "message_started" => j \in DOMAIN log /\ log'[j] = log[j]
      BY <2>4
    <3> QED  BY <1>12, <1>14, <3>1, <3>2 DEF Quiet
  <2>10. HoldersRest'
    <3>1. cursor' \in 0 .. Len(log')
      BY <1>1, <1>3, <2>3 DEF Holders
    <3> QED  BY <1>1, <1>3, <1>12, <1>13, <2>5, <3>1 DEF Holders, HoldersRest
  <2> QED  BY <1>6, <1>10, <2>3, <2>7, <2>8, <2>9, <2>10, GrowingKeeps
<1> QED  BY <1>15, <1>16

----------------------------------------------------------------------------
(* A receiver in the same process.                                         *)

\* What every delivery does, and that of event e as number j.
Delivered(e, j) ==
    /\ cursor < Len(log) /\ j = cursor + 1 /\ e = log[j] /\ cursor' = j
    /\ far' = After(far, wire[j])
    /\ late' = IF j \in spoiled THEN late \cup {e.id} ELSE IF IsSnapshot(e) THEN late \ {e.id} ELSE late
    /\ UNCHANGED <<hand, finalized, log, wire, told, theirParts, theirDicts, lentParts, lentDicts, given,
                   spoiled, touched, edits>>

\* The objects that come up are new, or shared already.
ReceiverQuiet ==
    /\ \A p \in DOMAIN parts' \ DOMAIN parts :
          parts'[p].box \in DOMAIN dicts => Taken(parts'[p].box)
    /\ \A m \in DOMAIN near' :
          \/ m \in DOMAIN near /\ near'[m].meta = near[m].meta
          \/ MetaRefs(near'[m]) \cap DOMAIN dicts = {}

LEMMA ReceiverKeeps ==
    ASSUME SharingInv, Growing, NEW e, NEW j, Delivered(e, j), NearStep, ReceiverQuiet,
           \A m \in DOMAIN near' :
              \/ m \in DOMAIN near /\ near'[m] = near[m]
              \/ OnlyLent(PartRefs(near[m].content), DictRefs(parts, near[m]))'
    PROVE  SharingInv'
<1>1. /\ Holders /\ LentOnly /\ FormKept /\ SentStays /\ MetaIsOwn /\ Told
  BY DEF SharingInv
<1>2. UNCHANGED <<hand, log, wire, told, theirParts, theirDicts, lentParts, lentDicts, given, spoiled, touched>>
  BY DEF Delivered
<1>3. Logged
  BY <1>1, <1>2, LogStays
<1>4. lentDicts \subseteq DOMAIN dicts' /\ theirParts \subseteq DOMAIN parts' /\ theirDicts \subseteq DOMAIN dicts'
  BY <1>1 DEF Holders, Growing, Grows
<1>5. HandStep
  BY <1>1, <1>2, <1>4, HandStays
<1>6. LentOnly'
  <2>1. LendsMore
    BY <1>2 DEF LendsMore
  <2> QED  BY <1>1, <1>2, <2>1, LentStays
<1>7. Quiet
  <2>1. ASSUME NEW d \in DOMAIN dicts, Taken(d)'
        PROVE  Taken(d)
    <3>1. ASSUME InBox(parts', d)
          PROVE  Taken(d)
      <4>1. PICK p \in DOMAIN parts' : parts'[p].box = d
        BY <3>1 DEF InBox
      <4>2. CASE p \in DOMAIN parts
        BY <4>1, <4>2 DEF Growing, Grows, InBox, Taken
      <4>3. CASE p \notin DOMAIN parts
        BY <4>1, <4>3 DEF ReceiverQuiet
      <4> QED  BY <4>2, <4>3
    <3> QED  BY <1>2, <2>1, <3>1 DEF Taken
  <2>2. ASSUME NEW d \in DOMAIN dicts, Copied(d)'
        PROVE  Copied(d)
    <3>1. ASSUME InMeta(near', d)
          PROVE  InMeta(near, d)
      <4>1. PICK m \in DOMAIN near' : d \in MetaRefs(near'[m])
        BY <3>1 DEF InMeta
      <4>2. m \in DOMAIN near /\ d \in MetaRefs(near[m])
        BY <4>1 DEF ReceiverQuiet, MetaRefs
      <4> QED  BY <4>2 DEF InMeta
    <3> QED  BY <1>2, <2>2, <3>1 DEF Copied
  <2> QED  BY <1>2, <2>1, <2>2 DEF Quiet
<1>8. HoldersRest'
  <2>1. cursor \in 0 .. Len(log) /\ IsSeq(log)
    BY <1>1 DEF Holders
  <2>2. Len(log) \in Nat
    BY <2>1, LenProperties DEF IsSeq
  <2>3. cursor' \in 0 .. Len(log)
    BY <2>1, <2>2 DEF Delivered
  <2>4. Functional(near') /\ DOMAIN far' = DOMAIN near'
    BY DEF NearStep
  <2> QED  BY <1>1, <1>2, <1>4, <2>3, <2>4 DEF Holders, HoldersRest
<1> QED  BY <1>3, <1>5, <1>6, <1>7, <1>8, GrowingKeeps

\* The event that arrives, and what its writing says of it.
LEMMA Arrives ==
    ASSUME SharingInv, NEW e, NEW j, Delivered(e, j)
    PROVE  /\ j \in DOMAIN log /\ e = log[j] /\ IsEvent(parts, dicts, e)
           /\ wire[j].event = e.event /\ wire[j].id = e.id
           /\ j \notin spoiled => wire[j] = Serialized(parts, dicts, e)
<1>1. Holders /\ SentStays /\ FormKept
  BY DEF SharingInv
<1>2. IsSeq(log) /\ cursor \in 0 .. Len(log)
  BY <1>1 DEF Holders
<1>3. Len(log) \in Nat /\ DOMAIN log = 1 .. Len(log)
  BY <1>2, LenProperties DEF IsSeq
<1>4. j \in DOMAIN log /\ e = log[j]
  BY <1>2, <1>3 DEF Delivered
<1> QED  BY <1>1, <1>4 DEF Holders, SentStays, FormKept

\* A content changes, by reference to c with p in it.
NearContent(e, c, p) ==
    /\ e.id \in DOMAIN near /\ ~IsSnapshot(e)
    /\ near' = [near EXCEPT ![e.id] = [content |-> c, meta |-> near[e.id].meta]]
    /\ c \in Seq(DOMAIN parts')
    /\ ContentValue(parts', dicts', c)
       = ContentAfter(ContentValue(parts, dicts, near[e.id].content), Serialized(parts, dicts, e))
    /\ PartRefs(c) \subseteq PartRefs(near[e.id].content) \cup {p}
    /\ Boxes(parts', c) \subseteq Boxes(parts, near[e.id].content) \cup {parts'[p].box}
    /\ p \in theirParts => p \in lentParts
    /\ parts'[p].box \in theirDicts => parts'[p].box \in lentDicts
    /\ \A q \in DOMAIN parts' : q \in DOMAIN parts \/ q = p
    /\ parts'[p].box \in DOMAIN dicts => Taken(parts'[p].box)

LEMMA NearContentKeeps ==
    ASSUME SharingInv, Growing, NEW e, NEW j, Delivered(e, j), NEW c, NEW p, NearContent(e, c, p)
    PROVE  SharingInv'
<1>1. Holders /\ LentOnly /\ NearIsFar
  BY DEF SharingInv
<1>2. PICK k, x, w : k = e.id /\ x = [content |-> c, meta |-> near[k].meta] /\ w = wire[j]
  OBVIOUS
<1>3. k \in DOMAIN near /\ near' = [near EXCEPT ![k] = x] /\ far' = After(far, w)
  BY <1>2 DEF NearContent, Delivered
<1>4. /\ DOMAIN near' = DOMAIN near /\ near'[k] = x /\ \A m \in DOMAIN near \ {k} : near'[m] = near[m]
      /\ Functional(near')
  BY <1>1, <1>3 DEF Holders, Functional
<1>5. w.event = e.event /\ w.id = k /\ ~IsSnapshot(w) /\ (j \notin spoiled => w = Serialized(parts, dicts, e))
  BY <1>2, Arrives DEF IsSnapshot, NearContent
<1>6. far' = [far EXCEPT ![k].content = ContentAfter(far[k].content, w)] /\ DOMAIN far = DOMAIN near
  BY <1>1, <1>3, <1>5 DEF After, Holders
<1>7. DOMAIN far' = DOMAIN near' /\ \A m \in DOMAIN near \ {k} : far'[m] = far[m]
  BY <1>4, <1>6
<1>8. late' = IF j \in spoiled THEN late \cup {k} ELSE late
  BY <1>2 DEF Delivered, NearContent
<1>9. IsMessage(parts, dicts, near[k]) /\ IsMessage(parts', dicts', near[k])
  BY <1>1, <1>3, GrownHolders DEF Holders
<1>10. IsMessage(parts, dicts, near[k])'
  <2>1. IsMessage(parts', dicts', x)
    BY <1>2, <1>9 DEF IsMessage, NearContent
  <2> QED  BY <1>4, <2>1 DEF IsMessage
<1>11. k \notin late' => MessageValue(parts', dicts', near'[k]) = far'[k]
  <2> SUFFICES ASSUME k \notin late'
               PROVE  MessageValue(parts', dicts', x) = far'[k]
    BY <1>4
  <2>1. k \notin late /\ w = Serialized(parts, dicts, e)
    BY <1>5, <1>8
  <2>2. far[k] = MessageValue(parts, dicts, near[k])
    BY <1>1, <1>3, <2>1 DEF NearIsFar
  <2>3. far[k] = [content |-> ContentValue(parts, dicts, near[k].content),
                  meta |-> [n \in DOMAIN near[k].meta |-> dicts[near[k].meta[n]]]]
    BY <2>2 DEF MessageValue
  <2>4. far'[k] = [content |-> ContentAfter(ContentValue(parts, dicts, near[k].content), w),
                   meta |-> [n \in DOMAIN near[k].meta |-> dicts[near[k].meta[n]]]]
    BY <1>3, <1>6, <2>3
  <2>5. ContentValue(parts', dicts', c) = ContentAfter(ContentValue(parts, dicts, near[k].content), w)
    BY <1>2, <2>1 DEF NearContent
  <2>6. \A n \in DOMAIN near[k].meta : dicts'[near[k].meta[n]] = dicts[near[k].meta[n]]
    BY <1>9 DEF IsMessage, Growing, Grows
  <2>7. MessageValue(parts', dicts', x) =
          [content |-> ContentValue(parts', dicts', c),
           meta |-> [n \in DOMAIN near[k].meta |-> dicts'[near[k].meta[n]]]]
    BY <1>2 DEF MessageValue
  <2> QED  BY <2>4, <2>5, <2>6, <2>7
<1>12. NearStep
  <2>1. \A m \in DOMAIN near' : m = k \/ /\ m \in DOMAIN near /\ near'[m] = near[m] /\ far'[m] = far[m]
                                         /\ m \in late => m \in late'
    BY <1>4, <1>7, <1>8
  <2> QED  BY <1>4, <1>7, <1>10, <1>11, <2>1 DEF NearStep
<1>13. OnlyLent(PartRefs(near[k].content), DictRefs(parts, near[k]))'
  <2>1. OnlyLent(PartRefs(near[k].content), DictRefs(parts, near[k]))
    BY <1>1, <1>3 DEF LentOnly
  <2>2. PartRefs(c) \subseteq PartRefs(near[k].content) \cup {p}
    BY <1>2 DEF NearContent
  <2>3. DictRefs(parts', x) \subseteq DictRefs(parts, near[k]) \cup {parts'[p].box}
    <3>1. MetaRefs(x) = MetaRefs(near[k])
      BY <1>2 DEF MetaRefs
    <3>2. Boxes(parts', c) \subseteq Boxes(parts, near[k].content) \cup {parts'[p].box}
      BY <1>2 DEF NearContent
    <3>3. DictRefs(parts', x) = Boxes(parts', c) \cup MetaRefs(x)
      BY <1>2 DEF DictRefs
    <3> QED  BY <3>1, <3>2, <3>3 DEF DictRefs
  <2>4. UNCHANGED <<theirParts, theirDicts, lentParts, lentDicts>>
    BY DEF Delivered
  <2>5. PartRefs(c) \cap theirParts' \subseteq lentParts' /\ DictRefs(parts', x) \cap theirDicts' \subseteq lentDicts'
    BY <2>1, <2>2, <2>3, <2>4 DEF OnlyLent, NearContent
  <2>6. PartRefs(near'[k].content) = PartRefs(c) /\ DictRefs(parts', near'[k]) = DictRefs(parts', x)
    BY <1>2, <1>4
  <2> QED  BY <2>5, <2>6 DEF OnlyLent
<1>14. ReceiverQuiet
  <2>1. near'[k].meta = near[k].meta
    BY <1>2, <1>4
  <2> QED  BY <1>3, <1>4, <2>1 DEF ReceiverQuiet, NearContent
<1>15. \A m \in DOMAIN near' :
          \/ m \in DOMAIN near /\ near'[m] = near[m]
          \/ OnlyLent(PartRefs(near[m].content), DictRefs(parts, near[m]))'
  <2>1. \A m \in DOMAIN near' : m = k => OnlyLent(PartRefs(near[m].content), DictRefs(parts, near[m]))'
    BY <1>13 DEF OnlyLent
  <2> QED  BY <1>4, <2>1
<1> QED  BY <1>12, <1>14, <1>15, ReceiverKeeps

\* The five ways an event is applied.

LEMMA SnapshotArrives ==
    ASSUME SharingInv, NEW e, NEW j, Delivered(e, j), IsSnapshot(e), ApplySnapshot(e)
    PROVE  SharingInv'
<1>1. Holders /\ LentOnly /\ NearIsFar
  BY DEF SharingInv
<1>2. IsEvent(parts, dicts, e) /\ wire[j].event = e.event /\ wire[j].id = e.id
      /\ (j \notin spoiled => wire[j] = Serialized(parts, dicts, e))
  BY Arrives
<1>3. PICK x, y : x = e.message /\ y = DeepCopy(x, births + 1)
  OBVIOUS
<1>4. IsMessage(parts, dicts, x)
  BY <1>2, <1>3 DEF IsEvent, IsSnapshot
<1>5. births' = births + 1 /\ near' = Put(near, e.id, y) /\ CopyOnHeap(x, births + 1)
  BY <1>3 DEF ApplySnapshot, Born
<1>6. CopyStep(x, y)
  BY <1>3, <1>4, <1>5, Copying
<1>7. Growing /\ IsMessage(parts', dicts', y) /\ MessageValue(parts', dicts', y) = MessageValue(parts, dicts, x)
  BY <1>6 DEF CopyStep
<1>8. /\ DictRefs(parts', y) \cap theirDicts = {} /\ DictRefs(parts', y) \cap DOMAIN dicts = {}
      /\ PartRefs(y.content) \cap theirParts = {}
      /\ \A p \in DOMAIN parts' \ DOMAIN parts : parts'[p].box \notin DOMAIN dicts
  BY <1>6, CopyNew
<1>9. PICK k, w : k = e.id /\ w = wire[j]
  OBVIOUS
<1>10. /\ DOMAIN near' = DOMAIN near \cup {k} /\ near'[k] = y /\ \A m \in DOMAIN near \ {k} : near'[m] = near[m]
       /\ Functional(near')
  BY <1>5, <1>9 DEF Put, Functional
<1>11. far' = Put(far, k, w.message) /\ DOMAIN far = DOMAIN near
  <2>1. IsSnapshot(w) /\ w.id = k
    BY <1>2, <1>9 DEF IsSnapshot
  <2>2. far' = After(far, w)
    BY <1>9 DEF Delivered
  <2> QED  BY <1>1, <2>1, <2>2 DEF After, Holders
<1>12. DOMAIN far' = DOMAIN near' /\ far'[k] = w.message /\ \A m \in DOMAIN near \ {k} : far'[m] = far[m]
  BY <1>10, <1>11 DEF Put
<1>13. late' = IF j \in spoiled THEN late \cup {k} ELSE late \ {k}
  BY <1>9 DEF Delivered
<1>14. k \notin late' => MessageValue(parts', dicts', near'[k]) = far'[k]
  <2> SUFFICES ASSUME k \notin late'
               PROVE  MessageValue(parts', dicts', y) = w.message
    BY <1>10, <1>12
  <2>1. w = Serialized(parts, dicts, e)
    BY <1>2, <1>9, <1>13
  <2>2. w.message = MessageValue(parts, dicts, x)
    BY <1>2, <1>3, <2>1 DEF IsEvent, IsSnapshot, Serialized
  <2> QED  BY <1>7, <2>2
<1>15. IsMessage(parts, dicts, near[k])'
  BY <1>7, <1>10 DEF IsMessage
<1>16. NearStep
  <2>1. \A m \in DOMAIN near' : m = k \/ /\ m \in DOMAIN near /\ near'[m] = near[m] /\ far'[m] = far[m]
                                         /\ m \in late => m \in late'
    BY <1>10, <1>12, <1>13
  <2> QED  BY <1>10, <1>12, <1>14, <1>15, <2>1 DEF NearStep
<1>17. \A m \in DOMAIN near' :
          \/ m \in DOMAIN near /\ near'[m] = near[m]
          \/ OnlyLent(PartRefs(near[m].content), DictRefs(parts, near[m]))'
  <2>1. UNCHANGED <<theirParts, theirDicts, lentParts, lentDicts>>
    BY DEF Delivered
  <2>2. PartRefs(y.content) \cap theirParts' = {} /\ DictRefs(parts', y) \cap theirDicts' = {}
    BY <1>8, <2>1
  <2>3. \A m \in DOMAIN near' : m = k => OnlyLent(PartRefs(near[m].content), DictRefs(parts, near[m]))'
    BY <1>10, <2>2 DEF OnlyLent
  <2> QED  BY <1>10, <2>3
<1>18. ReceiverQuiet
  <2>1. MetaRefs(near'[k]) \cap DOMAIN dicts = {}
    BY <1>8, <1>10 DEF DictRefs
  <2> QED  BY <1>8, <1>10, <2>1 DEF ReceiverQuiet
<1> QED  BY <1>7, <1>16, <1>17, <1>18, ReceiverKeeps

LEMMA NothingApplies ==
    ASSUME SharingInv, NEW e, NEW j, Delivered(e, j), ~IsSnapshot(e), UNCHANGED <<near, heap>>,
           \/ e.id \notin DOMAIN near
           \/ /\ e.event \in {"token_delta", "part_updated"}
              /\ e.index \notin DOMAIN near[e.id].content
    PROVE  SharingInv'
<1>1. Holders /\ NearIsFar /\ HeapOK(parts, dicts, births)
  BY DEF SharingInv
<1>2. parts' = parts /\ dicts' = dicts /\ births' = births /\ near' = near
  BY DEF heap
<1>3. Growing
  BY <1>1, <1>2 DEF Growing, Grows
<1>4. PICK k, w : k = e.id /\ w = wire[j]
  OBVIOUS
<1>5. IsEvent(parts, dicts, e) /\ w.event = e.event /\ w.id = k /\ ~IsSnapshot(w)
      /\ (j \notin spoiled => w = Serialized(parts, dicts, e))
  BY <1>4, Arrives DEF IsSnapshot
<1>6. far' = (IF k \notin DOMAIN far THEN far ELSE [far EXCEPT ![k].content = ContentAfter(far[k].content, w)])
      /\ DOMAIN far = DOMAIN near
  <2>1. far' = After(far, w)
    BY <1>4 DEF Delivered
  <2> QED  BY <1>1, <1>5, <2>1 DEF After, Holders
<1>7. DOMAIN far' = DOMAIN near /\ \A m \in DOMAIN near \ {k} : far'[m] = far[m]
  BY <1>6
<1>8. late' = IF j \in spoiled THEN late \cup {k} ELSE late
  BY <1>4 DEF Delivered
<1>9. ASSUME k \in DOMAIN near, k \notin late'
      PROVE  MessageValue(parts, dicts, near[k]) = far'[k]
  <2>1. k \notin late /\ w = Serialized(parts, dicts, e)
    BY <1>5, <1>8, <1>9
  <2>2. far[k] = MessageValue(parts, dicts, near[k])
    BY <1>1, <1>9, <2>1 DEF NearIsFar
  <2> DEFINE old == ContentValue(parts, dicts, near[k].content)
             meta == [n \in DOMAIN near[k].meta |-> dicts[near[k].meta[n]]]
  <2>3. far[k] = [content |-> old, meta |-> meta]
    BY <2>2 DEF MessageValue
  <2>4. w.event \in {"token_delta", "part_updated"} /\ w.index = e.index
    BY <1>4, <1>5, <1>9, <2>1 DEF IsEvent, IsSnapshot, Serialized
  <2>5. DOMAIN old = DOMAIN near[k].content /\ old = [i \in DOMAIN old |-> old[i]]
    BY DEF ContentValue
  <2>6. w.index \notin DOMAIN old
    BY <1>4, <1>9, <2>4, <2>5
  <2> HIDE DEF old, meta
  <2>7. ContentAfter(old, w) = old
    BY <2>4, <2>5, <2>6 DEF ContentAfter
  <2>8. far'[k] = [content |-> old, meta |-> meta]
    BY <1>6, <1>9, <2>3, <2>7
  <2> QED  BY <2>2, <2>3, <2>8
<1>10. NearStep
  <2>1. \A m \in DOMAIN near' : m = k \/ /\ m \in DOMAIN near /\ near'[m] = near[m] /\ far'[m] = far[m]
                                         /\ m \in late => m \in late'
    BY <1>2, <1>7, <1>8
  <2>2. k \in DOMAIN near' => IsMessage(parts', dicts', near'[k])
    BY <1>1, <1>2 DEF Holders
  <2>3. Functional(near') /\ \A m \in DOMAIN near' : m \in DOMAIN near /\ near'[m] = near[m]
    BY <1>1, <1>2 DEF Holders
  <2>4. k \in DOMAIN near' => (k \notin late' => MessageValue(parts', dicts', near'[k]) = far'[k])
    BY <1>2, <1>9
  <2> QED  BY <1>2, <1>7, <2>1, <2>3, <2>4 DEF NearStep
<1>11. ReceiverQuiet
  BY <1>2 DEF ReceiverQuiet
<1> QED  BY <1>2, <1>3, <1>10, <1>11, ReceiverKeeps

LEMMA AppendedArrives ==
    ASSUME SharingInv, NEW e, NEW j, Delivered(e, j), e.event = "part_appended",
           e.id \in DOMAIN near, ApplyAppended(e)
    PROVE  SharingInv'
<1>1. Holders /\ LentOnly /\ HeapOK(parts, dicts, births)
  BY DEF SharingInv
<1>2. parts' = parts /\ dicts' = dicts /\ births' = births
  BY DEF ApplyAppended, heap
<1>3. Growing
  BY <1>1, <1>2 DEF Growing, Grows
<1>4. IsEvent(parts, dicts, e) /\ ~IsSnapshot(e) /\ j \in DOMAIN log /\ e = log[j]
  BY Arrives DEF IsSnapshot
<1>5. PICK k, old, d, p : k = e.id /\ old = near[k].content /\ d = near[k].meta /\ p = e.part
  OBVIOUS
<1>6. PICK c : c = Append(old, p)
  OBVIOUS
<1>7. p \in DOMAIN parts
  BY <1>4, <1>5 DEF IsEvent, IsSnapshot
<1>8. IsMessage(parts, dicts, near[k])
  BY <1>1, <1>5 DEF Holders
<1>9. old \in Seq(DOMAIN parts) /\ near[k] = [content |-> old, meta |-> d]
  BY <1>5, <1>8 DEF IsMessage
<1> DEFINE v == Serialized(parts, dicts, e)
<1>10. v.event = "part_appended" /\ v.part = PartValue(parts, dicts, p)
  BY <1>4, <1>5 DEF Serialized, IsEvent, IsSnapshot
<1>11. /\ c \in Seq(DOMAIN parts)
       /\ ContentValue(parts, dicts, c) = ContentAfter(ContentValue(parts, dicts, old), v)
       /\ PartRefs(c) \subseteq PartRefs(old) \cup {p}
       /\ Boxes(parts, c) \subseteq Boxes(parts, old) \cup {parts[p].box}
  <2> DEFINE ps == parts
             ds == dicts
             b == births
  <2>1. HeapOK(ps, ds, b) /\ Grows(ps, ds, ps, ds) /\ old \in Seq(DOMAIN ps) /\ p \in DOMAIN ps
    BY <1>1, <1>7, <1>9 DEF Grows
  <2>2. v.part = PartValue(ps, ds, p)
    BY <1>10
  <2> HIDE DEF v, ps, ds, b
  <2>3. LET z == Append(old, p)
        IN  /\ z \in Seq(DOMAIN ps)
            /\ ContentValue(ps, ds, z) = ContentAfter(ContentValue(ps, ds, old), v)
            /\ PartRefs(z) \subseteq PartRefs(old) \cup {p}
            /\ Boxes(ps, z) \subseteq Boxes(ps, old) \cup {ps[p].box}
    BY <1>10, <2>1, <2>2, AppendValue
  <2> QED  BY <1>6, <2>3 DEF ps, ds
<1>12. near' = [near EXCEPT ![k] = [content |-> c, meta |-> d]]
  <2>1. near' = [near EXCEPT ![k].content = c]
    BY <1>5, <1>6 DEF ApplyAppended
  <2>2. PICK f : f = near
    OBVIOUS
  <2>3. f[k] = [content |-> old, meta |-> d]
    BY <1>9, <2>2
  <2>4. [f[k] EXCEPT !.content = c] = [content |-> c, meta |-> d]
    BY <2>3
  <2>5. [f EXCEPT ![k].content = c] = [f EXCEPT ![k] = [content |-> c, meta |-> d]]
    BY <2>4
  <2> QED  BY <2>1, <2>2, <2>5
<1>13. OnlyLent(EventParts(e), EventDicts(parts, e))
  BY <1>1, <1>4 DEF LentOnly
<1>14. EventParts(e) = {p} /\ EventDicts(parts, e) = {parts[p].box}
  BY <1>4, <1>5 DEF EventParts, EventDicts, IsSnapshot
<1>15. Taken(parts[p].box)
  BY <1>7 DEF Taken, InBox
<1>16. NearContent(e, c, p)
  BY <1>2, <1>4, <1>5, <1>11, <1>12, <1>13, <1>14, <1>15 DEF NearContent, OnlyLent
<1> QED  BY <1>3, <1>16, NearContentKeeps

\* A part that changes is replaced by r.
LEMMA ReplacedArrives ==
    ASSUME SharingInv, Growing, NEW e, NEW j, Delivered(e, j), ~IsSnapshot(e), e.id \in DOMAIN near,
           e.index \in DOMAIN near[e.id].content, NEW r \in DOMAIN parts',
           near' = [near EXCEPT ![e.id].content[e.index] = r],
           ContentValue(parts', dicts', Replaced(near[e.id].content, e.index, r))
           = ContentAfter(ContentValue(parts, dicts, near[e.id].content), Serialized(parts, dicts, e)),
           r \in theirParts => r \in lentParts,
           parts'[r].box \in theirDicts => parts'[r].box \in lentDicts,
           \A q \in DOMAIN parts' : q \in DOMAIN parts \/ q = r,
           parts'[r].box \in DOMAIN dicts => Taken(parts'[r].box)
    PROVE  SharingInv'
<1>1. PICK k, i, old, d : k = e.id /\ i = e.index /\ old = near[k].content /\ d = near[k].meta
  OBVIOUS
<1>2. PICK c : c = Replaced(old, i, r)
  OBVIOUS
<1>3. IsMessage(parts, dicts, near[k])
  BY <1>1 DEF SharingInv, Holders
<1>4. old \in Seq(DOMAIN parts) /\ i \in DOMAIN old /\ near[k] = [content |-> old, meta |-> d]
  BY <1>1, <1>3 DEF IsMessage
<1>5. /\ c \in Seq(DOMAIN parts')
      /\ PartRefs(c) \subseteq PartRefs(old) \cup {r}
      /\ Boxes(parts', c) \subseteq Boxes(parts, old) \cup {parts'[r].box}
  <2> DEFINE ps == parts
             ds == dicts
             qs == parts'
             es == dicts'
             b == births
  <2>1. HeapOK(ps, ds, b) /\ Grows(ps, ds, qs, es) /\ old \in Seq(DOMAIN ps) /\ i \in DOMAIN old /\ r \in DOMAIN qs
    BY <1>4 DEF Growing
  <2> HIDE DEF ps, ds, qs, es, b
  <2>2. /\ Replaced(old, i, r) \in Seq(DOMAIN qs)
        /\ PartRefs(Replaced(old, i, r)) \subseteq PartRefs(old) \cup {r}
        /\ Boxes(qs, Replaced(old, i, r)) \subseteq Boxes(ps, old) \cup {qs[r].box}
    BY <2>1, ReplaceRefs
  <2> QED  BY <1>2, <2>2 DEF ps, ds, qs, es
<1>6. near' = [near EXCEPT ![k] = [content |-> c, meta |-> d]]
  <2>1. PICK f : f = near
    OBVIOUS
  <2>2. f[k] = [content |-> old, meta |-> d]
    BY <1>4, <2>1
  <2>3. [f[k] EXCEPT !.content[i] = r] = [content |-> Replaced(old, i, r), meta |-> d]
    BY <2>2 DEF Replaced
  <2>4. [f EXCEPT ![k].content[i] = r] = [f EXCEPT ![k] = [content |-> Replaced(old, i, r), meta |-> d]]
    BY <2>3
  <2> QED  BY <1>1, <1>2, <2>1, <2>4
<1>7. NearContent(e, c, r)
  BY <1>1, <1>2, <1>5, <1>6 DEF NearContent
<1> QED  BY <1>7, NearContentKeeps

LEMMA TokenArrives ==
    ASSUME SharingInv, NEW e, NEW j, Delivered(e, j), e.event = "token_delta", e.id \in DOMAIN near,
           e.index \in DOMAIN near[e.id].content, ApplyToken(e)
    PROVE  SharingInv'
<1>1. Holders /\ LentOnly /\ HeapOK(parts, dicts, births)
  BY DEF SharingInv
<1>2. PICK r, b : r = One(b) /\ b = births + 1 /\ NewRef(r, births)
  <2>1. NewRef(One(births + 1), births)
    BY DEF NewRef, One
  <2> QED  BY <2>1
<1>3. r \notin DOMAIN parts /\ r \notin DOMAIN dicts /\ r \notin theirParts
  BY <1>2, NewOnes
<1>4. PICK k, i, c, p : k = e.id /\ i = e.index /\ c = near[k].content /\ p = c[i]
  OBVIOUS
<1>5. c \in Seq(DOMAIN parts) /\ i \in DOMAIN c
  BY <1>1, <1>4 DEF Holders, IsMessage
<1>6. p \in DOMAIN parts
  BY <1>4, <1>5, ElementTyped
<1>7. IsEvent(parts, dicts, e) /\ ~IsSnapshot(e)
  BY Arrives DEF IsSnapshot
<1> DEFINE part == [parts[p] EXCEPT !.text = @ + 1]
           v == Serialized(parts, dicts, e)
<1>8. /\ births' = b /\ parts' = Put(parts, r, part) /\ dicts' = dicts
      /\ near' = [near EXCEPT ![k].content[i] = r]
  BY <1>2, <1>4 DEF ApplyToken, Born
<1>9. /\ parts[p] \in [text : Nat, field : Field, box : DOMAIN dicts]
      /\ part \in [text : Nat, field : Field, box : DOMAIN dicts] /\ part.box = parts[p].box
  <2>1. parts[p] \in [text : Nat, field : Field, box : DOMAIN dicts]
    BY <1>1, <1>6 DEF HeapOK
  <2> QED  BY <2>1
<1>10. /\ HeapOK(parts', dicts', births') /\ Grows(parts, dicts, parts', dicts')
       /\ parts'[r] = part /\ DOMAIN parts' = DOMAIN parts \cup {r}
  <2> DEFINE ps == parts
             ds == dicts
  <2>1. HeapOK(ps, ds, b) /\ r[1] = b /\ r \notin DOMAIN ps
    BY <1>2, <1>3, NextHeap DEF NewRef
  <2>2. parts' = Put(ps, r, part) /\ dicts' = ds /\ births' = b
    BY <1>8
  <2>3. part \in [text : Nat, field : Field, box : DOMAIN ds]
    BY <1>9
  <2> HIDE DEF ps, ds, part
  <2>4. /\ HeapOK(Put(ps, r, part), ds, b) /\ Grows(ps, ds, Put(ps, r, part), ds)
        /\ Put(ps, r, part)[r] = part /\ DOMAIN Put(ps, r, part) = DOMAIN ps \cup {r}
    BY <2>1, <2>3, NewPart
  <2> QED  BY <2>2, <2>4 DEF ps, ds
<1>11. Growing
  BY <1>1, <1>10 DEF Growing
<1>12. ContentValue(parts', dicts', Replaced(c, i, r)) = ContentAfter(ContentValue(parts, dicts, c), v)
  <2>1. v.event = "token_delta" /\ v.index = i
    BY <1>4, <1>7 DEF Serialized, IsSnapshot
  <2> DEFINE ps == parts
             ds == dicts
             qs == parts'
             es == dicts'
             h == births
  <2>2. /\ HeapOK(ps, ds, h) /\ Grows(ps, ds, qs, es) /\ c \in Seq(DOMAIN ps) /\ r \in DOMAIN qs
        /\ qs[r] = [ps[c[i]] EXCEPT !.text = @ + 1]
    BY <1>1, <1>4, <1>5, <1>10
  <2> HIDE DEF v, ps, ds, qs, es, h
  <2>3. ContentValue(qs, es, Replaced(c, i, r)) = ContentAfter(ContentValue(ps, ds, c), v)
    BY <1>5, <2>1, <2>2, TokenValue
  <2> QED  BY <2>3 DEF ps, ds, qs, es
<1>13. parts'[r].box = parts[p].box /\ r \in DOMAIN parts'
  BY <1>9, <1>10
<1>14. parts[p].box \in theirDicts => parts[p].box \in lentDicts
  <2>1. OnlyLent(PartRefs(near[k].content), DictRefs(parts, near[k]))
    BY <1>1, <1>4 DEF LentOnly
  <2>2. parts[p].box \in DictRefs(parts, near[k])
    BY <1>4, <1>5 DEF DictRefs, Boxes, PartRefs
  <2> QED  BY <2>1, <2>2 DEF OnlyLent
<1>15. Taken(parts[p].box)
  BY <1>6 DEF Taken, InBox
<1> HIDE DEF part
<1> QED  BY <1>3, <1>4, <1>7, <1>8, <1>10, <1>11, <1>12, <1>13, <1>14, <1>15, ReplacedArrives DEF v

LEMMA PatchArrives ==
    ASSUME SharingInv, NEW e, NEW j, Delivered(e, j), e.event = "part_updated", e.id \in DOMAIN near,
           e.index \in DOMAIN near[e.id].content, ApplyPatch(e)
    PROVE  SharingInv'
<1>1. Holders /\ LentOnly /\ HeapOK(parts, dicts, births)
  BY DEF SharingInv
<1>2. PICK r, b : r = One(b) /\ b = births + 1 /\ NewRef(r, births)
  <2>1. NewRef(One(births + 1), births)
    BY DEF NewRef, One
  <2> QED  BY <2>1
<1>3. r \notin DOMAIN parts /\ r \notin DOMAIN dicts /\ r # Unset /\ r \notin theirParts /\ r \notin theirDicts
  BY <1>2, NewOnes
<1>4. PICK k, i, c, p : k = e.id /\ i = e.index /\ c = near[k].content /\ p = c[i]
  OBVIOUS
<1>5. PICK part, patch : part = parts[p] /\ patch = e.patch
  OBVIOUS
<1>6. c \in Seq(DOMAIN parts) /\ i \in DOMAIN c
  BY <1>1, <1>4 DEF Holders, IsMessage
<1>7. p \in DOMAIN parts
  BY <1>4, <1>6, ElementTyped
<1>8. IsEvent(parts, dicts, e) /\ ~IsSnapshot(e) /\ j \in DOMAIN log /\ e = log[j]
  BY Arrives DEF IsSnapshot
<1>9. patch \in DOMAIN dicts \cup {Unset}
  BY <1>5, <1>8 DEF IsEvent, IsSnapshot
<1> DEFINE box == PatchedBox(part, patch, r)
           v == Serialized(parts, dicts, e)
<1>10. /\ births' = b /\ parts' = Put(parts, r, PatchedPart(part, patch, r))
       /\ dicts' = PatchedDicts(dicts, part, patch, r)
       /\ near' = [near EXCEPT ![k].content[i] = r]
  BY <1>2, <1>4, <1>5 DEF ApplyPatch, Born
<1>11. part \in [text : Nat, field : Field, box : DOMAIN dicts]
  BY <1>1, <1>5, <1>7 DEF HeapOK
<1>12. /\ HeapOK(parts', dicts', births') /\ Grows(parts, dicts, parts', dicts')
       /\ DOMAIN parts' = DOMAIN parts \cup {r} /\ parts'[r] = [part EXCEPT !.box = box]
       /\ box = r \/ (box = patch /\ patch \in DOMAIN dicts)
       /\ dicts'[box] = IF patch = Unset THEN dicts[part.box] ELSE dicts'[patch]
  <2> DEFINE ps == parts
             ds == dicts
             qs == Put(ps, r, PatchedPart(part, patch, r))
             es == PatchedDicts(ds, part, patch, r)
  <2>1. /\ HeapOK(ps, ds, b) /\ r[1] = b /\ r \notin DOMAIN ps /\ r \notin DOMAIN ds /\ r # Unset
        /\ patch \in DOMAIN ds \cup {Unset}
    BY <1>2, <1>3, <1>9, NextHeap DEF NewRef
  <2>2. part \in [text : Nat, field : Field, box : DOMAIN ds]
    BY <1>11
  <2>3. parts' = qs /\ dicts' = es /\ births' = b
    BY <1>10
  <2> HIDE DEF ps, ds
  <2>4. /\ HeapOK(qs, es, b) /\ Grows(ps, ds, qs, es)
        /\ DOMAIN qs = DOMAIN ps \cup {r} /\ qs[r] = [part EXCEPT !.box = box]
        /\ box = r \/ (box = patch /\ patch \in DOMAIN ds /\ part.field = "any")
        /\ es[box] = IF patch = Unset THEN ds[part.box] ELSE es[patch]
    BY <2>1, <2>2, PatchedHeap
  <2> HIDE DEF box, qs, es
  <2> QED  BY <2>3, <2>4 DEF ps, ds
<1>13. Growing
  BY <1>1, <1>12 DEF Growing
<1>14. parts'[r].box = box /\ r \in DOMAIN parts'
  BY <1>11, <1>12
<1>15. ContentValue(parts', dicts', Replaced(c, i, r)) = ContentAfter(ContentValue(parts, dicts, c), v)
  <2>1. /\ v.event = "part_updated" /\ v.index = i
        /\ v.patch = IF patch = Unset THEN {} ELSE {dicts[patch]}
    <3>1. e = [event |-> "part_updated", id |-> e.id, index |-> i, patch |-> patch]
      BY <1>4, <1>5, <1>8 DEF IsEvent, IsSnapshot
    <3> QED  BY <3>1 DEF Serialized, IsSnapshot
  <2>2. patch # Unset => dicts'[patch] = dicts[patch]
    BY <1>9, <1>12 DEF Grows
  <2> DEFINE ps == parts
             ds == dicts
             qs == parts'
             es == dicts'
             h == births
  <2>3. /\ HeapOK(ps, ds, h) /\ Grows(ps, ds, qs, es) /\ c \in Seq(DOMAIN ps) /\ r \in DOMAIN qs
        /\ qs[r] = [ps[c[i]] EXCEPT !.box = box]
        /\ \/ v.patch = {es[box]}
           \/ v.patch = {} /\ es[box] = ds[ps[c[i]].box]
    <3>1. /\ HeapOK(ps, ds, h) /\ Grows(ps, ds, qs, es) /\ c \in Seq(DOMAIN ps)
          /\ r \in DOMAIN qs /\ ps[c[i]] = part
      BY <1>1, <1>4, <1>5, <1>6, <1>12
    <3> HIDE DEF v, box
    <3>2. qs[r] = [ps[c[i]] EXCEPT !.box = box]
      BY <1>12, <3>1
    <3>3. CASE patch = Unset
      BY <1>12, <2>1, <3>1, <3>2, <3>3
    <3>4. CASE patch # Unset
      <4>1. box \in {r, patch} /\ es[box] = es[patch] /\ es[patch] = ds[patch]
        BY <1>12, <2>2, <3>4
      <4>2. v.patch = {es[box]}
        BY <2>1, <3>4, <4>1
      <4> QED  BY <3>1, <3>2, <4>2
    <3> QED  BY <3>1, <3>2, <3>3, <3>4
  <2>4. v.event = "part_updated" /\ v.index = i /\ i \in DOMAIN c
    BY <1>6, <2>1
  <2> HIDE DEF v, ps, ds, qs, es, h, box
  <2>5. ContentValue(qs, es, Replaced(c, i, r)) = ContentAfter(ContentValue(ps, ds, c), v)
    BY <2>3, <2>4, PatchValue
  <2> QED  BY <2>5 DEF ps, ds, qs, es
<1>16. box \in theirDicts => box \in lentDicts
  <2>1. OnlyLent(EventParts(e), EventDicts(parts, e))
    BY <1>1, <1>8 DEF LentOnly
  <2>2. patch # Unset => patch \in EventDicts(parts, e)
    BY <1>5, <1>8 DEF EventDicts, IsSnapshot
  <2>3. Unset \notin DOMAIN dicts
    BY <1>1 DEF HeapOK
  <2> HIDE DEF box
  <2> QED  BY <1>3, <1>12, <2>1, <2>2, <2>3 DEF OnlyLent
<1>17. box \in DOMAIN dicts => Taken(box)
  <2>1. InPatch(log, patch)
    BY <1>5, <1>8 DEF InPatch
  <2> HIDE DEF box
  <2> QED  BY <1>3, <1>12, <2>1 DEF Taken
<1> HIDE DEF box
<1> QED  BY <1>3, <1>4, <1>8, <1>10, <1>12, <1>13, <1>14, <1>15, <1>16, <1>17, ReplacedArrives DEF v

LEMMA DeliverKeeps ==
    ASSUME SharingInv, Deliver
    PROVE  SharingInv'
<1>1. PICK e, j : j = cursor + 1 /\ e = log[j]
  OBVIOUS
<1>2. Delivered(e, j) /\ Apply(e)
  BY <1>1 DEF Deliver, Delivered, sent, callers
<1>3. IsEvent(parts, dicts, e)
  BY <1>2, Arrives
<1>4. CASE IsSnapshot(e)
  BY <1>2, <1>4, SnapshotArrives DEF Apply
<1>5. CASE ~IsSnapshot(e) /\ e.id \notin DOMAIN near
  BY <1>2, <1>5, NothingApplies DEF Apply
<1>6. CASE e.event = "part_appended" /\ e.id \in DOMAIN near
  BY <1>2, <1>6, AppendedArrives DEF Apply, IsSnapshot
<1>7. CASE e.event \in {"token_delta", "part_updated"} /\ e.id \in DOMAIN near /\ e.index \notin DOMAIN near[e.id].content
  BY <1>2, <1>7, NothingApplies DEF Apply, IsSnapshot
<1>8. CASE e.event = "token_delta" /\ e.id \in DOMAIN near /\ e.index \in DOMAIN near[e.id].content
  BY <1>2, <1>8, TokenArrives DEF Apply, IsSnapshot
<1>9. CASE e.event = "part_updated" /\ e.id \in DOMAIN near /\ e.index \in DOMAIN near[e.id].content
  BY <1>2, <1>9, PatchArrives DEF Apply, IsSnapshot
<1> QED  BY <1>3, <1>4, <1>5, <1>6, <1>7, <1>8, <1>9 DEF IsEvent

----------------------------------------------------------------------------
(* Steps that write into objects there are.                                *)

\* Only the parts P and the dictionaries D change, and no part gets other data.
Written(ps, ds, qs, es, P, D) ==
    /\ DOMAIN qs = DOMAIN ps /\ \A p \in DOMAIN ps : qs[p].box = ps[p].box
    /\ \A p \in DOMAIN ps \ P : qs[p] = ps[p]
    /\ DOMAIN es = DOMAIN ds /\ \A d \in DOMAIN ds \ D : es[d] = ds[d]

LEMMA WrittenContent ==
    ASSUME NEW ps, NEW ds, NEW qs, NEW es, NEW P, NEW D, NEW b, HeapOK(ps, ds, b),
           Written(ps, ds, qs, es, P, D), NEW c \in Seq(DOMAIN ps)
    PROVE  /\ c \in Seq(DOMAIN qs) /\ Boxes(qs, c) = Boxes(ps, c)
           /\ PartRefs(c) \cap P = {} /\ Boxes(ps, c) \cap D = {} =>
                 ContentValue(qs, es, c) = ContentValue(ps, ds, c)
<1>1. \A i \in DOMAIN c : c[i] \in DOMAIN ps
  BY ElementTyped
<1>2. \A p \in DOMAIN ps : ps[p].box \in DOMAIN ds
  BY DEF HeapOK
<1>3. c \in Seq(DOMAIN qs)
  BY DEF Written
<1>4. Boxes(qs, c) = Boxes(ps, c)
  <2>1. \A p \in PartRefs(c) : qs[p].box = ps[p].box
    BY <1>1 DEF PartRefs, Written
  <2> QED  BY <2>1 DEF Boxes
<1>5. ASSUME PartRefs(c) \cap P = {}, Boxes(ps, c) \cap D = {}
      PROVE  ContentValue(qs, es, c) = ContentValue(ps, ds, c)
  <2>1. ASSUME NEW i \in DOMAIN c
        PROVE  PartValue(qs, es, c[i]) = PartValue(ps, ds, c[i])
    <3>1. c[i] \in DOMAIN ps \ P /\ ps[c[i]].box \in DOMAIN ds \ D
      BY <1>1, <1>2, <1>5 DEF PartRefs, Boxes
    <3>2. qs[c[i]] = ps[c[i]] /\ es[ps[c[i]].box] = ds[ps[c[i]].box]
      BY <3>1 DEF Written
    <3> QED  BY <3>2 DEF PartValue
  <2> QED  BY <2>1 DEF ContentValue
<1> QED  BY <1>3, <1>4, <1>5

LEMMA WrittenMessage ==
    ASSUME NEW ps, NEW ds, NEW qs, NEW es, NEW P, NEW D, NEW b, HeapOK(ps, ds, b),
           Written(ps, ds, qs, es, P, D), NEW x, IsMessage(ps, ds, x)
    PROVE  /\ IsMessage(qs, es, x) /\ DictRefs(qs, x) = DictRefs(ps, x)
           /\ PartRefs(x.content) \cap P = {} /\ DictRefs(ps, x) \cap D = {} =>
                 MessageValue(qs, es, x) = MessageValue(ps, ds, x)
<1> DEFINE c == x.content
<1>1. c \in Seq(DOMAIN ps)
  BY DEF IsMessage
<1> HIDE DEF c
<1>2. /\ c \in Seq(DOMAIN qs) /\ Boxes(qs, c) = Boxes(ps, c)
      /\ PartRefs(c) \cap P = {} /\ Boxes(ps, c) \cap D = {} =>
            ContentValue(qs, es, c) = ContentValue(ps, ds, c)
  BY <1>1, WrittenContent
<1>3. IsMessage(qs, es, x)
  BY <1>2 DEF IsMessage, Written, c
<1>4. DictRefs(qs, x) = DictRefs(ps, x)
  BY <1>2 DEF DictRefs, c
<1>5. ASSUME PartRefs(c) \cap P = {}, DictRefs(ps, x) \cap D = {}
      PROVE  MessageValue(qs, es, x) = MessageValue(ps, ds, x)
  <2>1. \A n \in DOMAIN x.meta : x.meta[n] \in DOMAIN ds \ D
    BY <1>5 DEF DictRefs, MetaRefs, IsMessage
  <2>2. [n \in DOMAIN x.meta |-> es[x.meta[n]]] = [n \in DOMAIN x.meta |-> ds[x.meta[n]]]
    BY <2>1 DEF Written
  <2>3. Boxes(ps, c) \cap D = {}
    BY <1>5 DEF DictRefs, c
  <2>4. ContentValue(qs, es, c) = ContentValue(ps, ds, c)
    BY <1>2, <1>5, <2>3
  <2> QED  BY <2>2, <2>4 DEF MessageValue, c
<1> QED  BY <1>3, <1>4, <1>5 DEF c

LEMMA WrittenEvent ==
    ASSUME NEW ps, NEW ds, NEW qs, NEW es, NEW P, NEW D, NEW b, HeapOK(ps, ds, b),
           Written(ps, ds, qs, es, P, D), NEW e, IsEvent(ps, ds, e)
    PROVE  /\ IsEvent(qs, es, e) /\ EventDicts(qs, e) = EventDicts(ps, e)
           /\ EventParts(e) \cap P = {} /\ EventDicts(ps, e) \cap D = {} =>
                 Serialized(qs, es, e) = Serialized(ps, ds, e)
<1>1. CASE IsSnapshot(e)
  <2>1. IsMessage(ps, ds, e.message)
    BY <1>1 DEF IsEvent, IsSnapshot
  <2>2. /\ IsMessage(qs, es, e.message) /\ DictRefs(qs, e.message) = DictRefs(ps, e.message)
        /\ PartRefs(e.message.content) \cap P = {} /\ DictRefs(ps, e.message) \cap D = {} =>
              MessageValue(qs, es, e.message) = MessageValue(ps, ds, e.message)
    BY <2>1, WrittenMessage
  <2> QED  BY <1>1, <2>2 DEF IsEvent, IsSnapshot, Serialized, EventDicts, EventParts
<1>2. CASE e.event = "part_appended"
  <2>1. e.part \in DOMAIN ps /\ ps[e.part].box \in DOMAIN ds
    BY <1>2 DEF IsEvent, IsSnapshot, HeapOK
  <2>2. IsEvent(qs, es, e) /\ EventDicts(qs, e) = EventDicts(ps, e)
    BY <1>2, <2>1 DEF IsEvent, IsSnapshot, EventDicts, Written
  <2>3. ASSUME EventParts(e) \cap P = {}, EventDicts(ps, e) \cap D = {}
        PROVE  Serialized(qs, es, e) = Serialized(ps, ds, e)
    <3>1. e.part \notin P /\ ps[e.part].box \notin D
      BY <1>2, <2>3 DEF EventParts, EventDicts, IsSnapshot
    <3>2. PartValue(qs, es, e.part) = PartValue(ps, ds, e.part)
      BY <2>1, <3>1 DEF PartValue, Written
    <3> QED  BY <1>2, <3>2 DEF Serialized, IsSnapshot
  <2> QED  BY <2>2, <2>3
<1>3. CASE e.event = "token_delta"
  BY <1>3 DEF IsEvent, IsSnapshot, Serialized, EventDicts, EventParts
<1>4. CASE e.event = "part_updated"
  <2>1. e.patch \in DOMAIN ds \cup {Unset} /\ IsEvent(qs, es, e) /\ EventDicts(qs, e) = EventDicts(ps, e)
    BY <1>4 DEF IsEvent, IsSnapshot, EventDicts, Written
  <2>2. ASSUME EventDicts(ps, e) \cap D = {}, e.patch # Unset
        PROVE  es[e.patch] = ds[e.patch]
    BY <1>4, <2>1, <2>2 DEF EventDicts, IsSnapshot, Written
  <2> QED  BY <1>4, <2>1, <2>2 DEF Serialized, IsSnapshot
<1> QED  BY <1>1, <1>2, <1>3, <1>4 DEF IsEvent

\* The holders of what is written into are told apart; no message_started and no
\* token_delta is among them.
Marked(P, D) ==
    /\ spoiled' \subseteq DOMAIN log /\ spoiled \subseteq spoiled' /\ late \subseteq late' /\ touched \subseteq touched'
    /\ \A j \in DOMAIN log :
          /\ (EventParts(log[j]) \cap P = {} /\ EventDicts(parts, log[j]) \cap D = {}) \/ j \in spoiled'
          /\ log[j].event \in {"message_started", "token_delta"} => j \notin spoiled'
    /\ \A m \in DOMAIN near :
          (PartRefs(near[m].content) \cap P = {} /\ DictRefs(parts, near[m]) \cap D = {}) \/ m \in late'
    /\ \A m \in DOMAIN hand :
          (PartRefs(hand[m].content) \cap P = {} /\ Boxes(parts, hand[m].content) \cap D = {}) \/ m \in touched'

LEMMA WritesKeep ==
    ASSUME SharingInv, NEW P, NEW D, HeapOK(parts', dicts', births'), Written(parts, dicts, parts', dicts', P, D),
           UNCHANGED <<hand, log, wire, told, callers, near, cursor, far>>,
           DOMAIN given' = DOMAIN given, Functional(given'), MetaIsOwn', Marked(P, D)
    PROVE  SharingInv'
<1>1. /\ Holders /\ LentOnly /\ Own /\ Started /\ FormKept /\ SentStays /\ NearIsFar /\ Told
      /\ HeapOK(parts, dicts, births)
  BY DEF SharingInv
<1>2. UNCHANGED <<hand, log, wire, told, theirParts, theirDicts, lentParts, lentDicts, near, cursor, far>>
  BY DEF callers
<1>3. DOMAIN parts' = DOMAIN parts /\ DOMAIN dicts' = DOMAIN dicts /\ \A p \in DOMAIN parts : parts'[p].box = parts[p].box
  BY DEF Written
<1> DEFINE ps == parts
           ds == dicts
           qs == parts'
           es == dicts'
           b == births
<1>4. HeapOK(ps, ds, b) /\ Written(ps, ds, qs, es, P, D)
  BY <1>1
<1>5. /\ \A m \in DOMAIN hand : IsMessage(ps, ds, hand[m])
      /\ \A m \in DOMAIN near : IsMessage(ps, ds, near[m])
      /\ \A j \in DOMAIN log : IsEvent(ps, ds, log[j])
  BY <1>1 DEF Holders
<1> HIDE DEF ps, ds, qs, es, b
<1>6. ASSUME NEW x, IsMessage(ps, ds, x)
      PROVE  /\ IsMessage(qs, es, x) /\ DictRefs(qs, x) = DictRefs(ps, x)
             /\ PartRefs(x.content) \cap P = {} /\ DictRefs(ps, x) \cap D = {} =>
                   MessageValue(qs, es, x) = MessageValue(ps, ds, x)
  BY <1>4, <1>6, WrittenMessage
<1>7. ASSUME NEW x, IsMessage(ps, ds, x)
      PROVE  /\ Boxes(qs, x.content) = Boxes(ps, x.content)
             /\ PartRefs(x.content) \cap P = {} /\ Boxes(ps, x.content) \cap D = {} =>
                   ContentValue(qs, es, x.content) = ContentValue(ps, ds, x.content)
  <2>1. x.content \in Seq(DOMAIN ps)
    BY <1>7 DEF IsMessage
  <2> QED  BY <1>4, <2>1, WrittenContent
<1>8. ASSUME NEW e, IsEvent(ps, ds, e)
      PROVE  /\ IsEvent(qs, es, e) /\ EventDicts(qs, e) = EventDicts(ps, e)
             /\ EventParts(e) \cap P = {} /\ EventDicts(ps, e) \cap D = {} =>
                   Serialized(qs, es, e) = Serialized(ps, ds, e)
  BY <1>4, <1>8, WrittenEvent
<1>9. \A m \in DOMAIN hand :
        /\ IsMessage(qs, es, hand[m]) /\ Boxes(qs, hand[m].content) = Boxes(ps, hand[m].content)
        /\ PartRefs(hand[m].content) \cap P = {} /\ Boxes(ps, hand[m].content) \cap D = {} =>
              ContentValue(qs, es, hand[m].content) = ContentValue(ps, ds, hand[m].content)
  BY <1>5, <1>6, <1>7
<1>10. \A m \in DOMAIN near :
         /\ IsMessage(qs, es, near[m]) /\ DictRefs(qs, near[m]) = DictRefs(ps, near[m])
         /\ PartRefs(near[m].content) \cap P = {} /\ DictRefs(ps, near[m]) \cap D = {} =>
               MessageValue(qs, es, near[m]) = MessageValue(ps, ds, near[m])
  BY <1>5, <1>6
<1>11. \A j \in DOMAIN log :
         /\ IsEvent(qs, es, log[j]) /\ EventDicts(qs, log[j]) = EventDicts(ps, log[j])
         /\ EventParts(log[j]) \cap P = {} /\ EventDicts(ps, log[j]) \cap D = {} =>
               Serialized(qs, es, log[j]) = Serialized(ps, ds, log[j])
  BY <1>5, <1>8
<1> USE DEF ps, ds, qs, es, b
<1>12. Holders'
  BY <1>1, <1>2, <1>3, <1>9, <1>10, <1>11 DEF Holders, Marked
<1>13. LentOnly'
  <2>1. \A m \in DOMAIN hand : OnlyLent(PartRefs(hand[m].content), Boxes(parts', hand[m].content))
    BY <1>1, <1>9 DEF LentOnly
  <2>2. \A m \in DOMAIN near : OnlyLent(PartRefs(near[m].content), DictRefs(parts', near[m]))
    BY <1>1, <1>10 DEF LentOnly
  <2>3. \A j \in DOMAIN log : log[j].event # "message_finalized" =>
           OnlyLent(EventParts(log[j]), EventDicts(parts', log[j]))
    BY <1>1, <1>11 DEF LentOnly
  <2>4. \A m \in DOMAIN hand' : OnlyLent(PartRefs(hand[m].content), Boxes(parts, hand[m].content))'
    BY <1>2, <2>1 DEF OnlyLent
  <2>5. \A m \in DOMAIN near' : OnlyLent(PartRefs(near[m].content), DictRefs(parts, near[m]))'
    BY <1>2, <2>2 DEF OnlyLent
  <2>6. \A j \in DOMAIN log' : log'[j].event # "message_finalized" =>
           OnlyLent(EventParts(log[j]), EventDicts(parts, log[j]))'
    BY <1>2, <2>3 DEF OnlyLent
  <2> QED  BY <2>4, <2>5, <2>6 DEF LentOnly
<1>14. Own' /\ Started'
  <2>1. \A d : InBox(parts', d) => InBox(parts, d)
    BY <1>3 DEF InBox
  <2>2. \A d : (Taken(d)' => Taken(d)) /\ (Copied(d)' <=> Copied(d)) /\ (InMeta(hand, d)' <=> InMeta(hand, d))
    BY <1>2, <2>1 DEF Taken, Copied, InPatch, InCopy, InMeta
  <2>3. \A m \in DOMAIN hand : \A n \in DOMAIN hand[m].meta : Private(m, n) => Private(m, n)'
    BY <1>2, <2>2 DEF Private, OneSlot
  <2>4. Own'
    BY <1>1, <1>2, <2>3 DEF Own
  <2>5. \A j \in DOMAIN log : Apart(log[j]) => Apart(log[j])'
    BY <1>2, <2>2 DEF Apart
  <2>6. Started'
    BY <1>1, <1>2, <2>5 DEF Started
  <2> QED  BY <2>4, <2>6
<1>15. FormKept'
  BY <1>1, <1>2 DEF FormKept
<1>16. SentStays'
  <2>1. \A j \in DOMAIN log : /\ j \notin spoiled' => Serialized(parts', dicts', log[j]) = wire[j]
                              /\ log[j].event \in {"message_started", "token_delta"} => j \notin spoiled'
    BY <1>1, <1>11 DEF SentStays, Marked
  <2> QED  BY <1>2, <2>1 DEF SentStays
<1>17. NearIsFar'
  <2>1. \A m \in DOMAIN near \ late' : MessageValue(parts', dicts', near[m]) = far[m]
    BY <1>1, <1>10 DEF NearIsFar, Marked
  <2> QED  BY <1>2, <2>1 DEF NearIsFar
<1>18. Told'
  <2>1. \A m \in DOMAIN hand : m \notin touched' => ContentValue(parts', dicts', hand[m].content) = told[m].content
    BY <1>1, <1>9 DEF Told, Marked
  <2> QED  BY <1>1, <1>2, <2>1 DEF Told
<1> QED  BY <1>12, <1>13, <1>14, <1>15, <1>16, <1>17, <1>18 DEF SharingInv

\* A token_delta holds nothing, and a message_started nothing that is taken or in
\* a meta in hand.
LEMMA HeldByStarted ==
    ASSUME SharingInv, NEW j \in DOMAIN log, log[j].event \in {"message_started", "token_delta"}
    PROVE  /\ EventParts(log[j]) = {}
           /\ \A d \in EventDicts(parts, log[j]) : ~Taken(d) /\ ~InMeta(hand, d)
<1>1. CASE log[j].event = "token_delta"
  BY <1>1 DEF EventParts, EventDicts, IsSnapshot
<1>2. CASE log[j].event = "message_started"
  <2>1. Apart(log[j])
    BY <1>2 DEF SharingInv, Started
  <2>2. EventParts(log[j]) = {} /\ Boxes(parts, log[j].message.content) = {}
    BY <1>2, <2>1 DEF Apart, EventParts, IsSnapshot, Boxes
  <2>3. EventDicts(parts, log[j]) = MetaRefs(log[j].message)
    BY <1>2, <2>2 DEF EventDicts, IsSnapshot, DictRefs
  <2> QED  BY <2>1, <2>2, <2>3 DEF Apart
<1> QED  BY <1>1, <1>2

\* Reach() marks all holders, when those it leaves out hold nothing.
LEMMA ReachMarks ==
    ASSUME SharingInv, NEW P, NEW D, NEW x, NEW L, Reach(P, D, x \in L),
           \A j \in DOMAIN log :
              \/ x \in L \/ log[j].event = "message_finalized"
              \/ EventParts(log[j]) \cap P = {} /\ EventDicts(parts, log[j]) \cap D = {},
           \A j \in DOMAIN log : log[j].event \in {"message_started", "token_delta"} =>
              EventParts(log[j]) \cap P = {} /\ EventDicts(parts, log[j]) \cap D = {},
           \A m \in DOMAIN near :
              x \in L \/ (PartRefs(near[m].content) \cap P = {} /\ DictRefs(parts, near[m]) \cap D = {}),
           \A m \in DOMAIN hand :
              x \in L \/ (PartRefs(hand[m].content) \cap P = {} /\ Boxes(parts, hand[m].content) \cap D = {})
    PROVE  Marked(P, D)
<1>1. spoiled \subseteq DOMAIN log /\ SentStays
  BY DEF SharingInv, Holders
<1>2. /\ spoiled' = spoiled \cup {j \in DOMAIN log : /\ x \in L \/ log[j].event = "message_finalized"
                                                     /\ HoldsIn(log[j], P, D)}
      /\ late' = late \cup {m \in DOMAIN near : x \in L /\ (PartRefs(near[m].content) \cap P # {}
                                                           \/ DictRefs(parts, near[m]) \cap D # {})}
      /\ touched' = touched \cup {m \in DOMAIN hand : x \in L /\ (PartRefs(hand[m].content) \cap P # {}
                                                           \/ Boxes(parts, hand[m].content) \cap D # {})}
  BY DEF Reach
<1>3. \A j \in DOMAIN log :
         /\ (EventParts(log[j]) \cap P = {} /\ EventDicts(parts, log[j]) \cap D = {}) \/ j \in spoiled'
         /\ log[j].event \in {"message_started", "token_delta"} => j \notin spoiled'
  BY <1>1, <1>2 DEF HoldsIn, SentStays
<1> QED  BY <1>1, <1>2, <1>3 DEF Marked

LEMMA EditPartKeeps ==
    ASSUME SharingInv, NEW p \in theirParts, EditPart(p)
    PROVE  SharingInv'
<1>1. /\ Holders /\ LentOnly /\ MetaIsOwn /\ HeapOK(parts, dicts, births)
  BY DEF SharingInv
<1>2. /\ parts' = [parts EXCEPT ![p].text = @ + 1] /\ Reach({p}, {}, p \in lentParts)
      /\ UNCHANGED <<dicts, births, hand, log, wire, told, callers, near, cursor, far, given>>
  BY DEF EditPart, sent, receivers
<1>3. p \in DOMAIN parts
  BY <1>1 DEF Holders
<1>4. /\ parts' \in [DOMAIN parts -> [text : Nat, field : Field, box : DOMAIN dicts]]
      /\ Written(parts, dicts, parts', dicts', {p}, {})
  <2>1. parts \in [DOMAIN parts -> [text : Nat, field : Field, box : DOMAIN dicts]]
    BY <1>1 DEF HeapOK
  <2>2. parts[p].text + 1 \in Nat
    BY <1>3, <2>1
  <2> QED  BY <1>2, <1>3, <2>1, <2>2 DEF Written
<1>5. HeapOK(parts', dicts', births')
  <2>1. DOMAIN parts' = DOMAIN parts
    BY <1>4 DEF Written
  <2> QED  BY <1>1, <1>2, <1>4, <2>1 DEF HeapOK
<1>6. Marked({p}, {})
  <2>1. \A j \in DOMAIN log : p \in lentParts \/ log[j].event = "message_finalized" \/ EventParts(log[j]) \cap {p} = {}
    BY <1>1 DEF LentOnly, OnlyLent
  <2>2. \A j \in DOMAIN log : log[j].event \in {"message_started", "token_delta"} => EventParts(log[j]) \cap {p} = {}
    BY HeldByStarted
  <2>3. \A m \in DOMAIN near : p \in lentParts \/ PartRefs(near[m].content) \cap {p} = {}
    BY <1>1 DEF LentOnly, OnlyLent
  <2>4. \A m \in DOMAIN hand : p \in lentParts \/ PartRefs(hand[m].content) \cap {p} = {}
    BY <1>1 DEF LentOnly, OnlyLent
  <2> QED  BY <1>2, <2>1, <2>2, <2>3, <2>4, ReachMarks
<1>7. MetaIsOwn'
  <2>1. UNCHANGED <<hand, dicts, lentDicts, given>>
    BY <1>2 DEF callers
  <2> QED  BY <1>1, <2>1 DEF MetaIsOwn, Functional
<1>8. Functional(given') /\ DOMAIN given' = DOMAIN given
  BY <1>1, <1>2 DEF Holders
<1> QED  BY <1>2, <1>4, <1>5, <1>6, <1>7, <1>8, WritesKeep

LEMMA EditDictKeeps ==
    ASSUME SharingInv, NEW d \in theirDicts, NEW key, EditDict(d, key)
    PROVE  SharingInv'
<1>1. /\ Holders /\ LentOnly /\ Own /\ MetaIsOwn /\ HeapOK(parts, dicts, births)
  BY DEF SharingInv
<1>2. /\ dicts' = [dicts EXCEPT ![d] = @ \cup {key}] /\ Reach({}, {d}, d \in lentDicts)
      /\ UNCHANGED <<parts, births, hand, log, wire, told, callers, near, cursor, far, given>>
  BY DEF EditDict, sent, receivers
<1>3. d \in DOMAIN dicts /\ Taken(d)
  BY <1>1 DEF Holders, Taken
<1>4. /\ DOMAIN dicts' = DOMAIN dicts /\ dicts' = [x \in DOMAIN dicts |-> dicts'[x]]
      /\ \A x \in DOMAIN dicts \ {d} : dicts'[x] = dicts[x]
      /\ dicts'[d] = dicts[d] \cup {key}
  BY <1>2, <1>3
<1>5. HeapOK(parts', dicts', births') /\ Written(parts, dicts, parts', dicts', {}, {d})
  BY <1>1, <1>2, <1>4 DEF HeapOK, Written
<1>6. Marked({}, {d})
  <2>1. \A j \in DOMAIN log : d \in lentDicts \/ log[j].event = "message_finalized" \/ d \notin EventDicts(parts, log[j])
    BY <1>1 DEF LentOnly, OnlyLent
  <2>2. \A j \in DOMAIN log : log[j].event \in {"message_started", "token_delta"} => d \notin EventDicts(parts, log[j])
    BY <1>3, HeldByStarted
  <2>3. \A m \in DOMAIN near : d \in lentDicts \/ d \notin DictRefs(parts, near[m])
    BY <1>1 DEF LentOnly, OnlyLent
  <2>4. \A m \in DOMAIN hand : d \in lentDicts \/ d \notin Boxes(parts, hand[m].content)
    BY <1>1 DEF LentOnly, OnlyLent
  <2>5. PICK P, D, L : P = {} /\ D = {d} /\ L = lentDicts
    OBVIOUS
  <2>6. Reach(P, D, d \in L)
    BY <1>2, <2>5
  <2>7. \A Q : Q \cap P = {} /\ (d \notin Q => Q \cap D = {})
    BY <2>5
  <2>8. \A j \in DOMAIN log :
           \/ d \in L \/ log[j].event = "message_finalized"
           \/ EventParts(log[j]) \cap P = {} /\ EventDicts(parts, log[j]) \cap D = {}
    BY <2>1, <2>5, <2>7
  <2>9. \A j \in DOMAIN log : log[j].event \in {"message_started", "token_delta"} =>
           EventParts(log[j]) \cap P = {} /\ EventDicts(parts, log[j]) \cap D = {}
    BY <2>2, <2>7
  <2>10. \A m \in DOMAIN near :
            d \in L \/ (PartRefs(near[m].content) \cap P = {} /\ DictRefs(parts, near[m]) \cap D = {})
    BY <2>3, <2>5, <2>7
  <2>11. \A m \in DOMAIN hand :
            d \in L \/ (PartRefs(hand[m].content) \cap P = {} /\ Boxes(parts, hand[m].content) \cap D = {})
    BY <2>4, <2>5, <2>7
  <2>12. Marked(P, D)
    BY <2>6, <2>8, <2>9, <2>10, <2>11, ReachMarks
  <2> QED  BY <2>5, <2>12
<1>7. MetaIsOwn'
  <2>0. UNCHANGED <<hand, lentDicts, given>>
    BY <1>2 DEF callers
  <2>1. \A m \in DOMAIN hand : \A n \in DOMAIN hand[m].meta :
           \/ hand[m].meta[n] \in lentDicts /\ dicts[hand[m].meta[n]] \subseteq dicts'[hand[m].meta[n]]
           \/ hand[m].meta[n] \notin lentDicts /\ dicts[hand[m].meta[n]] = dicts'[hand[m].meta[n]]
    <3> SUFFICES ASSUME NEW m \in DOMAIN hand, NEW n \in DOMAIN hand[m].meta
                 PROVE  \/ hand[m].meta[n] \in lentDicts /\ dicts[hand[m].meta[n]] \subseteq dicts'[hand[m].meta[n]]
                        \/ hand[m].meta[n] \notin lentDicts /\ dicts[hand[m].meta[n]] = dicts'[hand[m].meta[n]]
      OBVIOUS
    <3>1. hand[m].meta[n] \in DOMAIN dicts
      BY <1>1 DEF Holders, IsMessage
    <3>2. hand[m].meta[n] = d => hand[m].meta[n] \in lentDicts
      BY <1>1, <1>3 DEF Own, Private
    <3> QED  BY <1>4, <3>1, <3>2
  <2>2. \A m \in DOMAIN hand :
          /\ DOMAIN given[m] = DOMAIN hand[m].meta /\ Functional(given[m])
          /\ \A n \in DOMAIN hand[m].meta :
                IF hand[m].meta[n] \in lentDicts THEN given[m][n] \subseteq dicts'[hand[m].meta[n]]
                ELSE dicts'[hand[m].meta[n]] = given[m][n]
    BY <1>1, <2>1 DEF MetaIsOwn
  <2> QED  BY <2>0, <2>2 DEF MetaIsOwn, Functional
<1>8. Functional(given') /\ DOMAIN given' = DOMAIN given
  BY <1>1, <1>2 DEF Holders
<1> QED  BY <1>2, <1>5, <1>6, <1>7, <1>8, WritesKeep

\* What is private to a builder is held by no event, by no message near and by no
\* part.
LEMMA HeldInPrivate ==
    ASSUME SharingInv, NEW m \in DOMAIN hand, NEW n \in DOMAIN hand[m].meta, NEW d,
           d = hand[m].meta[n], Private(m, n)
    PROVE  /\ \A j \in DOMAIN log : d \notin EventDicts(parts, log[j])
           /\ \A k \in DOMAIN near : d \notin DictRefs(parts, near[k])
           /\ \A k \in DOMAIN hand : d \notin Boxes(parts, hand[k].content)
<1>1. Holders /\ HeapOK(parts, dicts, births)
  BY DEF SharingInv
<1>2. ~InBox(parts, d) /\ ~InPatch(log, d) /\ ~InCopy(log, d) /\ ~InMeta(near, d)
  BY DEF Private, Taken, Copied
<1>3. ASSUME NEW x, IsMessage(parts, dicts, x)
      PROVE  d \notin Boxes(parts, x.content)
  <2>1. \A p \in PartRefs(x.content) : p \in DOMAIN parts
    <3>1. x.content \in Seq(DOMAIN parts)
      BY <1>3 DEF IsMessage
    <3>2. \A i \in DOMAIN x.content : x.content[i] \in DOMAIN parts
      BY <3>1, ElementTyped
    <3> QED  BY <3>2 DEF PartRefs
  <2> QED  BY <1>2, <2>1 DEF Boxes, InBox
<1>4. ASSUME NEW j \in DOMAIN log
      PROVE  d \notin EventDicts(parts, log[j])
  <2>1. IsEvent(parts, dicts, log[j])
    BY <1>1 DEF Holders
  <2>2. CASE IsSnapshot(log[j])
    <3>1. IsMessage(parts, dicts, log[j].message)
      BY <2>1, <2>2 DEF IsEvent, IsSnapshot
    <3>2. d \notin MetaRefs(log[j].message)
      BY <1>2, <2>2 DEF InCopy
    <3>3. d \notin Boxes(parts, log[j].message.content)
      BY <1>3, <3>1
    <3>4. EventDicts(parts, log[j]) = DictRefs(parts, log[j].message)
      BY <2>2 DEF EventDicts, IsSnapshot
    <3> QED  BY <3>2, <3>3, <3>4 DEF DictRefs
  <2>3. CASE log[j].event = "part_appended"
    <3>1. log[j].part \in DOMAIN parts
      BY <2>1, <2>3 DEF IsEvent, IsSnapshot
    <3> QED  BY <1>2, <2>3, <3>1 DEF EventDicts, IsSnapshot, InBox
  <2>4. CASE log[j].event = "token_delta"
    BY <2>4 DEF EventDicts, IsSnapshot
  <2>5. CASE log[j].event = "part_updated"
    BY <1>2, <2>5 DEF EventDicts, IsSnapshot, InPatch
  <2> QED  BY <2>1, <2>2, <2>3, <2>4, <2>5 DEF IsEvent
<1>5. ASSUME NEW k \in DOMAIN near
      PROVE  d \notin DictRefs(parts, near[k])
  <2>1. IsMessage(parts, dicts, near[k]) /\ d \notin MetaRefs(near[k])
    BY <1>1, <1>2 DEF Holders, InMeta
  <2> QED  BY <1>3, <2>1 DEF DictRefs
<1>6. ASSUME NEW k \in DOMAIN hand
      PROVE  d \notin Boxes(parts, hand[k].content)
  BY <1>1, <1>3 DEF Holders
<1> QED  BY <1>4, <1>5, <1>6

LEMMA KnownMetaKeeps ==
    ASSUME SharingInv, NEW m \in DOMAIN hand, NEW n, NEW key,
           n \in DOMAIN hand[m].meta, SetMeta(m, n, key)
    PROVE  SharingInv'
<1>1. /\ Holders /\ Own /\ SentStays /\ MetaIsOwn /\ HeapOK(parts, dicts, births)
  BY DEF SharingInv
<1>2. PICK d, old : d = hand[m].meta[n] /\ old = given[m]
  OBVIOUS
<1> DEFINE new == Put(old, n, {key} \cup old[n])
<1>3. /\ dicts' = [dicts EXCEPT ![d] = @ \cup {key}]
      /\ IF d \in lentDicts THEN Reach({}, {d}, TRUE) ELSE UNCHANGED reached
      /\ given' = [given EXCEPT ![m] = new]
      /\ UNCHANGED <<parts, births, hand, log, wire, told, callers, near, cursor, far>>
  BY <1>2 DEF SetMeta, sent, receivers
<1>4. d \in DOMAIN dicts /\ InMeta(hand, d)
  BY <1>1, <1>2 DEF Holders, IsMessage, InMeta, MetaRefs
<1>5. /\ DOMAIN dicts' = DOMAIN dicts /\ dicts' = [x \in DOMAIN dicts |-> dicts'[x]]
      /\ \A x \in DOMAIN dicts \ {d} : dicts'[x] = dicts[x]
      /\ dicts'[d] = dicts[d] \cup {key}
  BY <1>3, <1>4
<1>6. HeapOK(parts', dicts', births') /\ Written(parts, dicts, parts', dicts', {}, {d})
  BY <1>1, <1>3, <1>5 DEF HeapOK, Written
<1>7. /\ m \in DOMAIN given /\ n \in DOMAIN old /\ DOMAIN old = DOMAIN hand[m].meta
      /\ Functional(given) /\ Functional(old)
  BY <1>1, <1>2 DEF Holders, MetaIsOwn
<1>8. /\ DOMAIN given' = DOMAIN given /\ Functional(given')
      /\ \A k \in DOMAIN given \ {m} : given'[k] = given[k]
      /\ given'[m] = new
  <2> HIDE DEF new
  <2> QED  BY <1>3, <1>7 DEF Functional
<1>9. /\ DOMAIN new = DOMAIN old /\ Functional(new) /\ new[n] = {key} \cup old[n]
      /\ \A l \in DOMAIN old \ {n} : new[l] = old[l]
  BY <1>7 DEF Put, Functional
<1> HIDE DEF new
<1>10. CASE d \in lentDicts
  <2>1. Marked({}, {d})
    <3>1. \A j \in DOMAIN log : log[j].event \in {"message_started", "token_delta"} => d \notin EventDicts(parts, log[j])
      BY <1>4, HeldByStarted
    <3>2. PICK P, D, L : P = {} /\ D = {d} /\ L = lentDicts
      OBVIOUS
    <3>3. Reach(P, D, d \in L)
      BY <1>3, <1>10, <3>2 DEF Reach
    <3>4. \A Q : Q \cap P = {} /\ (d \notin Q => Q \cap D = {})
      BY <3>2
    <3>5. d \in L
      BY <1>10, <3>2
    <3>6. Marked(P, D)
      BY <3>1, <3>3, <3>4, <3>5, ReachMarks
    <3> QED  BY <3>2, <3>6
  <2>2. MetaIsOwn'
    <3>1. ASSUME NEW k \in DOMAIN hand
          PROVE  /\ DOMAIN given'[k] = DOMAIN hand[k].meta /\ Functional(given'[k])
                 /\ \A l \in DOMAIN hand[k].meta :
                       IF hand[k].meta[l] \in lentDicts THEN given'[k][l] \subseteq dicts'[hand[k].meta[l]]
                       ELSE dicts'[hand[k].meta[l]] = given'[k][l]
      <4>1. /\ DOMAIN given[k] = DOMAIN hand[k].meta /\ Functional(given[k])
            /\ \A l \in DOMAIN hand[k].meta :
                  IF hand[k].meta[l] \in lentDicts THEN given[k][l] \subseteq dicts[hand[k].meta[l]]
                  ELSE dicts[hand[k].meta[l]] = given[k][l]
        BY <1>1 DEF MetaIsOwn
      <4>2. DOMAIN given'[k] = DOMAIN hand[k].meta /\ Functional(given'[k])
        BY <1>1, <1>2, <1>7, <1>8, <1>9, <4>1 DEF Holders
      <4>3. ASSUME NEW l \in DOMAIN hand[k].meta
            PROVE  \/ hand[k].meta[l] \in lentDicts /\ given'[k][l] \subseteq dicts'[hand[k].meta[l]]
                   \/ hand[k].meta[l] \notin lentDicts /\ dicts'[hand[k].meta[l]] = given'[k][l]
        <5>1. hand[k].meta[l] \in DOMAIN dicts /\ k \in DOMAIN given
          BY <1>1 DEF Holders, IsMessage
        <5>2. CASE k = m /\ l = n
          BY <1>2, <1>5, <1>8, <1>9, <1>10, <4>1, <5>1, <5>2
        <5>3. CASE k # m \/ l # n
          <6>1. given'[k][l] = given[k][l]
            BY <1>2, <1>7, <1>8, <1>9, <5>1, <5>3
          <6> QED  BY <1>5, <1>10, <4>1, <5>1, <6>1
        <5> QED  BY <5>2, <5>3
      <4> QED  BY <4>2, <4>3
    <3>2. UNCHANGED <<hand, lentDicts>>
      BY <1>3 DEF callers
    <3> QED  BY <3>1, <3>2 DEF MetaIsOwn, Functional
  <2> QED  BY <1>3, <1>6, <1>8, <2>1, <2>2, WritesKeep
<1>11. CASE d \notin lentDicts
  <2>1. Private(m, n)
    BY <1>1, <1>2, <1>11 DEF Own
  <2>2. Marked({}, {d})
    <3>1. /\ \A j \in DOMAIN log : d \notin EventDicts(parts, log[j])
          /\ \A k \in DOMAIN near : d \notin DictRefs(parts, near[k])
          /\ \A k \in DOMAIN hand : d \notin Boxes(parts, hand[k].content)
      BY <1>2, <2>1, HeldInPrivate
    <3>2. spoiled' = spoiled /\ late' = late /\ touched' = touched
      BY <1>3, <1>11 DEF reached
    <3>3. spoiled \subseteq DOMAIN log
      BY <1>1 DEF Holders
    <3> QED  BY <1>1, <3>1, <3>2, <3>3 DEF Marked, SentStays
  <2>3. MetaIsOwn'
    <3>1. ASSUME NEW k \in DOMAIN hand
          PROVE  /\ DOMAIN given'[k] = DOMAIN hand[k].meta /\ Functional(given'[k])
                 /\ \A l \in DOMAIN hand[k].meta :
                       IF hand[k].meta[l] \in lentDicts THEN given'[k][l] \subseteq dicts'[hand[k].meta[l]]
                       ELSE dicts'[hand[k].meta[l]] = given'[k][l]
      <4>1. /\ DOMAIN given[k] = DOMAIN hand[k].meta /\ Functional(given[k])
            /\ \A l \in DOMAIN hand[k].meta :
                  IF hand[k].meta[l] \in lentDicts THEN given[k][l] \subseteq dicts[hand[k].meta[l]]
                  ELSE dicts[hand[k].meta[l]] = given[k][l]
        BY <1>1 DEF MetaIsOwn
      <4>2. DOMAIN given'[k] = DOMAIN hand[k].meta /\ Functional(given'[k])
        BY <1>1, <1>2, <1>7, <1>8, <1>9, <4>1 DEF Holders
      <4>3. ASSUME NEW l \in DOMAIN hand[k].meta
            PROVE  \/ hand[k].meta[l] \in lentDicts /\ given'[k][l] \subseteq dicts'[hand[k].meta[l]]
                   \/ hand[k].meta[l] \notin lentDicts /\ dicts'[hand[k].meta[l]] = given'[k][l]
        <5>1. hand[k].meta[l] \in DOMAIN dicts /\ k \in DOMAIN given
          BY <1>1 DEF Holders, IsMessage
        <5>2. CASE k = m /\ l = n
          BY <1>2, <1>5, <1>8, <1>9, <1>11, <4>1, <5>1, <5>2
        <5>3. CASE k # m \/ l # n
          <6>1. given'[k][l] = given[k][l]
            BY <1>2, <1>7, <1>8, <1>9, <5>1, <5>3
          <6>2. hand[k].meta[l] # d
            BY <1>2, <2>1, <5>3 DEF Private, OneSlot
          <6> QED  BY <1>5, <4>1, <5>1, <6>1, <6>2
        <5> QED  BY <5>2, <5>3
      <4> QED  BY <4>2, <4>3
    <3>2. UNCHANGED <<hand, lentDicts>>
      BY <1>3 DEF callers
    <3> QED  BY <3>1, <3>2 DEF MetaIsOwn, Functional
  <2> QED  BY <1>3, <1>6, <1>8, <2>2, <2>3, WritesKeep
<1> QED  BY <1>10, <1>11

----------------------------------------------------------------------------
(* The theorems.                                                           *)

LEMMA SharingStarts ==
    ASSUME SharingInit
    PROVE  SharingInv
<1>1. PICK box \in [CallerRefs(CallerPart) -> CallerRefs(CallerDict)] :
         parts = [r \in CallerRefs(CallerPart) |-> [text |-> 0, field |-> "any", box |-> box[r]]]
  BY DEF SharingInit
<1>2. /\ dicts = [r \in CallerRefs(CallerDict) |-> {}]
      /\ theirParts = DOMAIN parts /\ theirDicts = DOMAIN dicts /\ lentParts = {} /\ lentDicts = {}
      /\ births = 0 /\ cursor = 0 /\ log = <<>> /\ wire = <<>>
      /\ hand = NoMap /\ near = NoMap /\ far = NoMap /\ given = NoMap /\ told = NoMap
      /\ spoiled = {} /\ late = {} /\ touched = {}
  BY DEF SharingInit
<1>3. DOMAIN hand = {} /\ DOMAIN near = {} /\ DOMAIN far = {} /\ DOMAIN given = {} /\ DOMAIN told = {}
      /\ Functional(hand) /\ Functional(near) /\ Functional(given)
  BY <1>2 DEF NoMap, Functional
<1>4. DOMAIN log = {} /\ Len(log) = 0 /\ Len(wire) = 0 /\ IsSeq(log) /\ IsSeq(wire)
  BY <1>2 DEF IsSeq
<1>5. HeapOK(parts, dicts, births)
  <2>1. DOMAIN dicts = CallerRefs(CallerDict) /\ DOMAIN parts = CallerRefs(CallerPart)
        /\ dicts = [d \in DOMAIN dicts |-> dicts[d]]
    BY <1>1, <1>2
  <2>2. parts \in [DOMAIN parts -> [text : Nat, field : Field, box : DOMAIN dicts]]
    BY <1>1, <2>1 DEF Field
  <2>3. \A p \in DOMAIN parts : p[1] \in 0 .. 0
    BY <2>1 DEF CallerRefs
  <2>4. \A d \in DOMAIN dicts : d[1] \in 0 .. 0 /\ d # Unset
    BY <2>1, SharingAssumption DEF CallerRefs, Unset
  <2> QED  BY <1>2, <2>1, <2>2, <2>3, <2>4 DEF HeapOK
<1>6. Holders
  BY <1>2, <1>3, <1>4 DEF Holders
<1>7. LentOnly /\ Own /\ Started /\ FormKept
  BY <1>3, <1>4 DEF LentOnly, Own, Started, FormKept
<1>8. SentStays /\ NearIsFar /\ MetaIsOwn /\ Told
  BY <1>3, <1>4 DEF SentStays, NearIsFar, MetaIsOwn, Told
<1> QED  BY <1>5, <1>6, <1>7, <1>8 DEF SharingInv

LEMMA BuilderKeeps ==
    ASSUME SharingInv, NEW m \in DOMAIN hand,
           \/ \E p \in theirParts : AppendPart(m, p)
           \/ \E field \in Field, d \in theirDicts : AddPart(m, field, d)
           \/ \E i \in DOMAIN hand[m].content :
               \/ AppendToken(m, i)
               \/ \E patch \in theirDicts \cup {Unset} : PatchPart(m, i, patch)
               \/ \E d \in theirDicts : UpdateStatus(m, i, d)
           \/ \E n \in Namespace, k \in Key : SetMeta(m, n, k)
           \/ Iterate(m)
           \/ Finalize(m)
    PROVE  SharingInv'
<1>1. CASE \E p \in theirParts : AppendPart(m, p)
  BY <1>1, AppendPartKeeps
<1>2. CASE \E field \in Field, d \in theirDicts : AddPart(m, field, d)
  BY <1>2, AddPartKeeps
<1>3. CASE \E i \in DOMAIN hand[m].content : AppendToken(m, i)
  BY <1>3, AppendTokenKeeps
<1>4. CASE \E i \in DOMAIN hand[m].content : \E patch \in theirDicts \cup {Unset} : PatchPart(m, i, patch)
  BY <1>4, PatchPartKeeps
<1>5. CASE \E i \in DOMAIN hand[m].content : \E d \in theirDicts : UpdateStatus(m, i, d)
  BY <1>5, UpdateStatusKeeps
<1>6. CASE \E n \in Namespace, k \in Key : SetMeta(m, n, k)
  <2>1. PICK n \in Namespace, k \in Key : SetMeta(m, n, k)
    BY <1>6
  <2>2. CASE n \in DOMAIN hand[m].meta
    BY <2>1, <2>2, KnownMetaKeeps
  <2>3. CASE n \notin DOMAIN hand[m].meta
    BY <2>1, <2>3, NewMetaKeeps
  <2> QED  BY <2>2, <2>3
<1>7. CASE Iterate(m)
  BY <1>7, IterateKeeps
<1>8. CASE Finalize(m)
  BY <1>8, FinalizeKeeps
<1> QED  BY <1>1, <1>2, <1>3, <1>4, <1>5, <1>6, <1>7, <1>8

LEMMA SharingStep ==
    ASSUME SharingInv, [SharingNext]_sharingVars
    PROVE  SharingInv'
<1>1. CASE \E m \in MessageId : Start(m, NoMeta)
  <2>0. PICK meta : meta = NoMeta
    OBVIOUS
  <2>1. PICK m \in MessageId : Start(m, meta)
    BY <1>1, <2>0
  <2>2. Functional(meta) /\ \A n \in DOMAIN meta : meta[n] \in theirDicts
    BY <2>0 DEF Functional, NoMeta
  <2> QED  BY <2>1, <2>2, StartKeeps
<1>2. CASE \E m \in MessageId, n \in Namespace, d \in theirDicts : Start(m, [k \in {n} |-> d])
  <2>1. PICK m \in MessageId, n \in Namespace, d \in theirDicts : Start(m, [k \in {n} |-> d])
    BY <1>2
  <2>2. PICK meta : meta = [k \in {n} |-> d]
    OBVIOUS
  <2>3. Functional(meta) /\ \A k \in DOMAIN meta : meta[k] \in theirDicts
    BY <2>2 DEF Functional
  <2>4. Start(m, meta)
    BY <2>1, <2>2
  <2> QED  BY <2>3, <2>4, StartKeeps
<1>3. CASE \E m \in DOMAIN hand :
             \/ \E p \in theirParts : AppendPart(m, p)
             \/ \E field \in Field, d \in theirDicts : AddPart(m, field, d)
             \/ \E i \in DOMAIN hand[m].content :
                 \/ AppendToken(m, i)
                 \/ \E patch \in theirDicts \cup {Unset} : PatchPart(m, i, patch)
                 \/ \E d \in theirDicts : UpdateStatus(m, i, d)
             \/ \E n \in Namespace, k \in Key : SetMeta(m, n, k)
             \/ Iterate(m)
             \/ Finalize(m)
  BY <1>3, BuilderKeeps
<1>4. CASE \E p \in theirParts : EditPart(p)
  BY <1>4, EditPartKeeps
<1>5. CASE \E d \in theirDicts, k \in Key : EditDict(d, k)
  BY <1>5, EditDictKeeps
<1>6. CASE Deliver
  BY <1>6, DeliverKeeps
<1>7. CASE UNCHANGED sharingVars
  <2>1. /\ UNCHANGED <<parts, dicts, births, hand, log, wire, told, theirParts, theirDicts, lentParts, lentDicts>>
        /\ UNCHANGED <<near, cursor, far, given, spoiled, late, touched>>
    BY <1>7 DEF sharingVars, heap, sent, callers, receivers, reached
  <2>2. HeapOK(parts, dicts, births)' /\ Holders'
    BY <2>1 DEF SharingInv, Holders, Functional
  <2>3. LentOnly'
    BY <2>1 DEF SharingInv, LentOnly, OnlyLent
  <2>4. \A d : (Taken(d)' <=> Taken(d)) /\ (Copied(d)' <=> Copied(d)) /\ (InMeta(hand, d)' <=> InMeta(hand, d))
    BY <2>1 DEF Taken, Copied, InBox, InPatch, InCopy, InMeta
  <2>5. Own'
    BY <2>1, <2>4 DEF SharingInv, Own, Private, OneSlot
  <2>6. Started'
    BY <2>1, <2>4 DEF SharingInv, Started, Apart
  <2>7. FormKept' /\ SentStays' /\ NearIsFar'
    BY <2>1 DEF SharingInv, FormKept, SentStays, NearIsFar
  <2>8. MetaIsOwn' /\ Told'
    BY <2>1 DEF SharingInv, MetaIsOwn, Told, Functional
  <2> QED  BY <2>2, <2>3, <2>5, <2>6, <2>7, <2>8 DEF SharingInv
<1> QED  BY <1>1, <1>2, <1>3, <1>4, <1>5, <1>6, <1>7 DEF SharingNext

LEMMA SharingHolds == SharingSpec => []SharingInv
<1>1. SharingInit => SharingInv
  BY SharingStarts
<1>2. SharingInv /\ [SharingNext]_sharingVars => SharingInv'
  BY SharingStep
<1> QED  BY <1>1, <1>2, PTL DEF SharingSpec

\* An event that a sink keeps stays what it was when it was emitted, however its
\* builder, other builders and receivers go on and however many objects they
\* share with it: only a caller that writes into a part or a dictionary which it
\* passed to a builder, which iterating over a builder gave it, or which finalize()
\* returned reaches an event, and never a message_started or a token_delta
\* (streaming.py:118, 127-131, 168, 240, 358-362, 370-373, 391).
THEOREM SentEventsStay == SharingSpec => []SentStays
<1>1. SharingInv => SentStays
  BY DEF SharingInv
<1> QED  BY <1>1, SharingHolds, PTL

\* A receiver in the process of the sender has what a receiver of the serialized
\* events has, though it takes appended parts and patched dictionaries as the
\* event holds them: until a caller writes into one that it lent, and again from
\* the next snapshot that no such edit reached (events.py:110-117, 134, 145, 162).
THEOREM SharingFollowsTheWire == SharingSpec => []NearIsFar
<1>1. SharingInv => NearIsFar
  BY DEF SharingInv
<1> QED  BY <1>1, SharingHolds, PTL

\* The message in a builder's hand is what was put in through that builder and what
\* its events told: no other builder, no receiver, and no edit of what finalize()
\* returned changes it, though builders share parts and dictionaries
\* (streaming.py:113, 129, 358-362, 391).
THEOREM HandStaysOwn == SharingSpec => []HandIsOwn
<1>1. SharingInv => HandIsOwn
  BY HandIs
<1> QED  BY <1>1, SharingHolds, PTL
=============================================================================
